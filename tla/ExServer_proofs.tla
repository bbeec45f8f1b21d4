---------------------------- MODULE ExServer_proofs ----------------------------
(***************************************************************************)
(* Proofs about the Elixir client and server over one connection: a        *)
(* request is answered once and its answer reaches its own caller, both    *)
(* processes keep their books, and no callback meets what it has no clause *)
(* for.  They are for any calls, surroundings and sequence ids.            *)
(***************************************************************************)
EXTENDS ExServer, Integers, FiniteSetTheorems, SequenceTheorems, TLAPS

(* The calls of a scenario that draw a sequence id, as keepalive pings do. *)
Drawing(sc) == sc.calls \cap (Requests \cup Pings)

(* Fewer ids are drawn than there are: in the code, fewer than 2^32 requests   *)
(* and pings on one connection.  Where nobody calls, pings may go on.        *)
IdsSuffice ==
    \A sc \in Scenarios :
        Drawing(sc) # {} => /\ IsFiniteSet(Drawing(sc))
                            /\ Cardinality(Drawing(sc)) + sc.keepalives + 1 < MaxSequence

Hits(q, M) == \E k \in 1 .. Len(q) : q[k] \in M
Once(q, M) == \A j, k \in 1 .. Len(q) : q[j] \in M /\ q[k] \in M => j = k
-----------------------------------------------------------------------------
(* A request on its way.                                                   *)

Asks(r) == {m \in Msg : m.op = "Request" /\ m.of = r}
Responses(r) == {m \in Msg : m.op = "Response" /\ m.of = r}
Nobodys(op) == {m \in Msg : m.op = op /\ m.of \notin Requests}

Said(r) == {x \in Mail : x.kind \in {"response", "goAway"} /\ x.request.of = r}
Crash(r) == {x \in Mail : x.kind = "crash" /\ x.request.of = r}
Down(r) == {x \in Mail : x.kind \in {"normal", "crash"} /\ x.request.of = r}
Odd == {x \in Mail : x.request.op # "Request" \/ x.request.of \notin Requests}

Watched(r) == \E m \in srv.refs : m.of = r

(* Until it has a worker, the request r is in one place. *)
Asking(r) ==
    /\ Once(packets, Asks(r)) /\ Once(toServer, Asks(r))
    /\ ~(Hits(packets, Asks(r)) /\ Hits(toServer, Asks(r)))
    /\ Hits(packets, Asks(r)) \/ Hits(toServer, Asks(r)) => worker[r] = "none" /\ call[r] # "idle"
    /\ call[r] = "idle" => worker[r] = "none"

(* Then its worker says one thing and goes, and what the process sends for it  *)
(* is the response or, if there is none, the error.                          *)
Answering(r) ==
    /\ worker[r] = "none" => ~Hits(box, Said(r)) /\ ~Hits(box, Down(r)) /\ srv.answers[r] = 0
    /\ worker[r] = "running" => srv.answers[r] = 0 /\ ~Hits(box, Said(r))
    /\ Once(box, Said(r)) /\ Once(box, Down(r))
    /\ srv.answers[r] <= 1
    /\ Hits(box, Said(r)) => srv.answers[r] = 0 /\ ~Hits(box, Crash(r))
    /\ Hits(box, Crash(r)) => srv.answers[r] = 0
    /\ Hits(box, Down(r)) => worker[r] = "gone"
    /\ Once(fromServer, Responses(r))
    /\ Hits(fromServer, Responses(r)) => srv.answers[r] = 1

Watching(r) ==
    srv.status = "up" =>
        (Watched(r) <=> worker[r] \in {"running", "returned"} \/ Hits(box, Down(r)))

Job(r) == Asking(r) /\ Answering(r) /\ Watching(r)

(* Nothing is on its way for nobody, and the monitors know every :DOWN. *)
Sound ==
    /\ ~Hits(packets, Nobodys("Request")) /\ ~Hits(toServer, Nobodys("Request"))
    /\ ~Hits(fromServer, Nobodys("Response")) /\ ~Hits(box, Odd)
    /\ \A m \in srv.refs : m.op = "Request" /\ m.of \in Requests
    /\ \A m, n \in srv.refs : m.of = n.of => m = n
    /\ srv.status = "up" =>
         /\ \A r \in Requests : \A x \in Down(r) : Hits(box, {x}) => x.request \in srv.refs
         /\ link # "closed"

TypeInv == TypeOK /\ ServerTypeOK
JobInv == Sound /\ \A r \in Requests : Job(r)
-----------------------------------------------------------------------------
(* The books of the client.                                                *)

Counting == status # "stopped" /\ ~reset
Drawn == {c \in Requests \cup Pings : call[c] # "idle"}

(* The mails of a worker with the response to m. *)
RepliesTo(m) == {x \in Mail : x.kind = "response" /\ x.request = m}

(* The request m may still be answered, or its response is on its way. *)
Live(m) ==
    \/ Hits(packets, {m}) \/ Hits(toServer, {m})
    \/ m \in srv.refs /\ worker[m.of] = "running"
    \/ Hits(box, RepliesTo(m))
    \/ Hits(fromServer, {[m EXCEPT !.op = "Response"]})

(* The ping with the id s may still be answered. *)
Echo(s) ==
    \/ Hits(packets, {m \in Msg : m.op = "Ping" /\ m.seq = s})
    \/ Hits(toServer, {m \in Msg : m.op = "Ping" /\ m.seq = s})
    \/ Hits(fromServer, {m \in Msg : m.op = "Pong" /\ m.seq = s})

Held(m) == m.seq \in Id /\ waiters[m.seq] = m.of

(* Who is in the books has called. *)
CallersCalled ==
    /\ \A c \in Requests \cup Pings : call[c] # "idle" => c \in scenario.calls
    /\ \A c \in Pushes \cup Closes : call[c] # "waiting"
    /\ \A s \in Id : waiters[s] # None => waiters[s] \in Requests \cup Pings /\ call[waiters[s]] # "idle"

(* An id that is drawn next is new. *)
IdsAreNew ==
    /\ sequence # GoAwaySequence /\ Drawing(scenario) # {} =>
         sequence <= 1 + Cardinality(Drawn) + keepalives
    /\ goAwayTimer => sequence = GoAwaySequence
    /\ \A s \in Id : waiters[s] # None => s < sequence

(* An id has one caller, and stays his until the answer comes. *)
IdsAreKept ==
    /\ \A s, t \in Id : waiters[s] # None /\ waiters[s] = waiters[t] => s = t
    /\ \A c \in Call : call[c] = "waiting" => \E s \in Id : waiters[s] = c
    /\ \A m \in Msg : m.op = "Request" /\ Live(m) => Held(m)
    /\ \A s \in 0 .. MaxSequence : Echo(s) =>
          /\ s \in Id /\ waiters[s] \notin Requests
          /\ Drawing(scenario) # {} => s < sequence

ClientBooks ==
    /\ CallersCalled
    /\ Counting => IdsAreNew /\ IdsAreKept
    /\ AnswerIsOwn
    /\ NeverCrashes
-----------------------------------------------------------------------------
(* Where frames of a kind are in a queue.                                  *)

(* A queue that gains a frame. *)
LEMMA HitsAppend ==
    ASSUME NEW S, NEW q \in Seq(S), NEW m \in S, NEW M
    PROVE  /\ Hits(Append(q, m), M) <=> Hits(q, M) \/ m \in M
           /\ Once(q, M) /\ ~(Hits(q, M) /\ m \in M) => Once(Append(q, m), M)
<1> DEFINE a == Append(q, m)
<1>1. /\ Len(q) \in Nat /\ Len(a) = Len(q) + 1 /\ a[Len(q) + 1] = m
      /\ \A k \in 1 .. Len(q) : a[k] = q[k]
    OBVIOUS
<1> HIDE DEF a
<1>2. /\ \A k \in 1 .. Len(a) : k \in 1 .. Len(q) \/ k = Len(q) + 1
      /\ Len(q) + 1 \in 1 .. Len(a) /\ \A k \in 1 .. Len(q) : k \in 1 .. Len(a)
    BY <1>1
<1>3. Hits(a, M) <=> Hits(q, M) \/ m \in M
    BY <1>1, <1>2 DEF Hits
<1>4. ASSUME Once(q, M), ~(Hits(q, M) /\ m \in M),
             NEW j \in 1 .. Len(a), NEW k \in 1 .. Len(a), a[j] \in M, a[k] \in M
      PROVE  j = k
    <2>1. CASE j \in 1 .. Len(q) /\ k \in 1 .. Len(q)
        BY <1>1, <1>4, <2>1 DEF Once
    <2>2. CASE j = Len(q) + 1 \/ k = Len(q) + 1
        BY <1>1, <1>2, <1>4, <2>2 DEF Hits
    <2> QED
        BY <1>2, <2>1, <2>2
<1> QED
    BY <1>3, <1>4 DEF a, Once

(* A queue that loses its head. *)
LEMMA HitsTail ==
    ASSUME NEW S, NEW q \in Seq(S), q # <<>>, NEW M
    PROVE  /\ Hits(q, M) <=> Head(q) \in M \/ Hits(Tail(q), M)
           /\ Once(q, M) => Once(Tail(q), M)
           /\ Once(q, M) /\ Head(q) \in M => ~Hits(Tail(q), M)
<1> DEFINE t == Tail(q)
<1>1. /\ Len(q) \in Nat /\ Len(q) > 0 /\ Len(t) = Len(q) - 1 /\ Head(q) = q[1]
      /\ \A k \in 1 .. Len(t) : t[k] = q[k + 1]
    OBVIOUS
<1> HIDE DEF t
<1>2. /\ \A k \in 1 .. Len(t) : k + 1 \in 1 .. Len(q) /\ k + 1 # 1
      /\ \A k \in 1 .. Len(q) : k = 1 \/ (k - 1 \in 1 .. Len(t) /\ t[k - 1] = q[k])
      /\ 1 \in 1 .. Len(q)
    BY <1>1
<1>3. Hits(q, M) <=> Head(q) \in M \/ Hits(t, M)
    BY <1>1, <1>2 DEF Hits
<1>4. ASSUME Once(q, M), NEW j \in 1 .. Len(t), NEW k \in 1 .. Len(t), t[j] \in M, t[k] \in M
      PROVE  j = k
    <2>1. j + 1 = k + 1
        BY <1>1, <1>2, <1>4 DEF Once
    <2> QED
        BY <2>1
<1>5. Once(q, M) /\ Head(q) \in M => ~Hits(t, M)
    BY <1>1, <1>2 DEF Hits, Once
<1> QED
    BY <1>3, <1>4, <1>5 DEF t, Once

(* Two queues behind each other. *)
LEMMA HitsConcat ==
    ASSUME NEW S, NEW p \in Seq(S), NEW q \in Seq(S), NEW M
    PROVE  /\ Hits(p \o q, M) <=> Hits(p, M) \/ Hits(q, M)
           /\ Once(p \o q, M) => Once(p, M) /\ Once(q, M) /\ ~(Hits(p, M) /\ Hits(q, M))
           /\ Once(p, M) /\ Once(q, M) /\ ~(Hits(p, M) /\ Hits(q, M)) => Once(p \o q, M)
<1> DEFINE c == p \o q
<1>1. /\ Len(p) \in Nat /\ Len(q) \in Nat /\ Len(c) = Len(p) + Len(q)
      /\ \A k \in 1 .. Len(p) : c[k] = p[k]
      /\ \A k \in 1 .. Len(q) : c[Len(p) + k] = q[k]
    BY ConcatProperties
<1> HIDE DEF c
<1>2. /\ \A k \in 1 .. Len(p) : k \in 1 .. Len(c)
      /\ \A k \in 1 .. Len(q) : Len(p) + k \in 1 .. Len(c) /\ Len(p) + k \notin 1 .. Len(p)
      /\ \A k \in 1 .. Len(c) : \/ k \in 1 .. Len(p)
                                \/ k - Len(p) \in 1 .. Len(q) /\ c[k] = q[k - Len(p)]
    BY <1>1
<1>3. Hits(c, M) <=> Hits(p, M) \/ Hits(q, M)
    BY <1>1, <1>2 DEF Hits
<1>4. ASSUME Once(c, M) PROVE Once(p, M) /\ Once(q, M) /\ ~(Hits(p, M) /\ Hits(q, M))
    <2>1. Once(p, M)
        BY <1>1, <1>2, <1>4 DEF Once
    <2>2. ASSUME NEW j \in 1 .. Len(q), NEW k \in 1 .. Len(q), q[j] \in M, q[k] \in M PROVE j = k
        <3>1. Len(p) + j = Len(p) + k
            BY <1>1, <1>2, <1>4, <2>2 DEF Once
        <3> QED
            BY <1>1, <3>1
    <2>3. ~(Hits(p, M) /\ Hits(q, M))
        BY <1>1, <1>2, <1>4 DEF Once, Hits
    <2> QED
        BY <2>1, <2>2, <2>3 DEF Once
<1>5. ASSUME Once(p, M), Once(q, M), ~(Hits(p, M) /\ Hits(q, M)),
             NEW j \in 1 .. Len(c), NEW k \in 1 .. Len(c), c[j] \in M, c[k] \in M
      PROVE  j = k
    <2>1. CASE j \in 1 .. Len(p) /\ k \in 1 .. Len(p)
        BY <1>1, <1>5, <2>1 DEF Once
    <2>2. CASE j \notin 1 .. Len(p) /\ k \notin 1 .. Len(p)
        <3>1. j - Len(p) = k - Len(p)
            BY <1>2, <1>5, <2>2 DEF Once
        <3> QED
            BY <1>1, <3>1
    <2>3. CASE ~(j \in 1 .. Len(p) <=> k \in 1 .. Len(p))
        BY <1>1, <1>2, <1>5, <2>3 DEF Hits
    <2> QED
        BY <2>1, <2>2, <2>3
<1> QED
    BY <1>3, <1>4, <1>5 DEF c, Once

LEMMA HitsEmpty == \A M : ~Hits(<<>>, M) /\ Once(<<>>, M)
BY DEF Hits, Once

LEMMA HitsOne == \A m, M : (Hits(<<m>>, M) <=> m \in M) /\ Once(<<m>>, M)
<1>1. \A m : Len(<<m>>) = 1 /\ <<m>>[1] = m
    OBVIOUS
<1>2. \A k \in 1 .. 1 : k = 1
    OBVIOUS
<1> QED
    BY <1>1, <1>2 DEF Hits, Once

(* p holds no more of a kind than q. *)
Fewer(p, q, M) == (Hits(p, M) => Hits(q, M)) /\ (Once(q, M) => Once(p, M))

LEMMA FewerFacts ==
    ASSUME NEW S, NEW q \in Seq(S), NEW M
    PROVE  /\ Fewer(q, q, M) /\ Fewer(<<>>, q, M)
           /\ q # <<>> => Fewer(Tail(q), q, M)
           /\ \A m \in S : m \notin M => Fewer(Append(q, m), q, M)
           /\ \A p \in Seq(S) : ~Hits(p, M) => Fewer(q \o p, q, M) /\ Fewer(p \o q, q, M)
<1>1. \A p \in Seq(S) : ~Hits(p, M) => Once(p, M)
    BY DEF Hits, Once
<1>2. \A p \in Seq(S) : ~Hits(p, M) => Fewer(q \o p, q, M) /\ Fewer(p \o q, q, M)
    BY <1>1, HitsConcat DEF Fewer
<1>3. q # <<>> => Fewer(Tail(q), q, M)
    BY HitsTail DEF Fewer
<1>4. \A m \in S : m \notin M => Fewer(Append(q, m), q, M)
    BY HitsAppend DEF Fewer
<1> QED
    BY <1>2, <1>3, <1>4, HitsEmpty DEF Fewer
-----------------------------------------------------------------------------
(* Types.                                                                  *)

(* The ids that are drawn. *)
LEMMA NextIdType ==
    ASSUME TypeOK
    PROVE  NextId \in Id /\ AfterNextId \in 1 .. GoAwaySequence
BY BoundAssumption DEF TypeOK, NextId, AfterNextId, Id, GoAwaySequence

(* The frames that are built are frames. *)
LEMMA FramesBuilt ==
    ASSUME NEW op \in {"Hello", "HelloAck", "Request", "Response", "Error", "Push", "Ping", "Pong", "GoAway"},
           NEW s \in 0 .. MaxSequence, NEW c \in Call \cup {None}
    PROVE  /\ Frame(op, s, c) \in Msg /\ Plain(op, s) \in Msg /\ Plain(op, 0) \in Msg
           /\ Frame(op, s, c) = [op |-> op, seq |-> s, of |-> c, early |-> FALSE]
           /\ Plain(op, s) = [op |-> op, seq |-> s, of |-> None, early |-> FALSE]
           /\ Payload(op, s, c) \in Msg
           /\ Payload(op, s, c) = [op |-> op, seq |-> s, of |-> c, early |-> ~pingTimer]
<1>1. /\ Frame(op, s, c) \in Msg /\ Plain(op, s) \in Msg /\ Plain(op, 0) \in Msg
      /\ Frame(op, s, c) = [op |-> op, seq |-> s, of |-> c, early |-> FALSE]
      /\ Plain(op, s) = [op |-> op, seq |-> s, of |-> None, early |-> FALSE]
    BY BoundAssumption DEF Plain, Frame, Msg
<1>2. \A b \in BOOLEAN : [op |-> op, seq |-> s, of |-> c, early |-> b] \in Msg
    BY DEF Msg
<1>3. (~pingTimer) \in BOOLEAN
    OBVIOUS
<1>4. Payload(op, s, c) = [op |-> op, seq |-> s, of |-> c, early |-> ~pingTimer]
    BY DEF Payload, Frame
<1> QED
    BY <1>1, <1>2, <1>3, <1>4

(* A queue that gains or loses a frame. *)
LEMMA QueueTypes ==
    ASSUME NEW S
    PROVE  /\ <<>> \in Seq(S)
           /\ \A q \in Seq(S), m \in S : Append(q, m) \in Seq(S)
           /\ \A q \in Seq(S) : q # <<>> => Head(q) \in S /\ Tail(q) \in Seq(S)
           /\ \A p, q \in Seq(S) : p \o q \in Seq(S)
           /\ \A m \in S : <<m>> \in Seq(S)
OBVIOUS

LEMMA SendType ==
    ASSUME TypeOK, NEW ms \in Seq(Msg)
    PROVE  Send(ms) => toServer' \in Seq(Msg)
BY QueueTypes DEF Send, TypeOK

LEMMA ServerSendType ==
    ASSUME TypeOK, NEW ms \in Seq(Msg)
    PROVE  ServerSend(ms) => fromServer' \in Seq(Msg)
BY QueueTypes DEF ServerSend, TypeOK

Results == [kind : {"none", "ok", "pong", "closed", "sent", "went_away", "exit", "timeout"},
            of : Call \cup {None}]

(* The process answers a caller, or stops with all of them. *)
LEMMA ReplyType ==
    ASSUME TypeOK, NEW c, NEW o \in Results, Reply(c, o)
    PROVE  call' \in [Call -> {"idle", "waiting", "done"}] /\ result' \in [Call -> Results]
BY DEF Reply, TypeOK, Results

LEMMA StopType ==
    ASSUME TypeOK, NEW o \in Results, NEW replied,
           NEW reason \in {"normal", "connect", "tcp_closed", "went_away", "pong_not_received", "crash"},
           Stop(reason, replied, o)
    PROVE  /\ call' \in [Call -> {"idle", "waiting", "done"}] /\ result' \in [Call -> Results]
           /\ status' = "stopped" /\ why' = reason
<1>1. Outcome("exit", None) \in Results
    BY DEF Outcome, Results
<1>2. /\ call' = [c \in Call |-> IF c \in {d \in Call : call[d] = "waiting"} \cup replied
                                 THEN "done" ELSE call[c]]
      /\ result' = [c \in Call |-> IF c \in replied THEN o
                                   ELSE IF c \in {d \in Call : call[d] = "waiting"} \cup replied
                                   THEN Outcome("exit", None) ELSE result[c]]
    BY DEF Stop
<1>3. \A c \in Call : call[c] \in {"idle", "waiting", "done"} /\ result[c] \in Results
    BY DEF TypeOK, Results
<1>4. call' \in [Call -> {"idle", "waiting", "done"}]
    BY <1>2, <1>3
<1>5. result' \in [Call -> Results]
    BY <1>1, <1>2, <1>3
<1> QED
    BY <1>4, <1>5 DEF Stop

(* Steps of the client keep the types. *)
LEMMA CallType ==
    ASSUME TypeOK, UNCHANGED scenario, NEW c \in Call, CallStep(c)
    PROVE  TypeOK'
<1> USE DEF clientVars, callVars, netVars
<1>0. /\ Outcome("went_away", None) \in Results /\ Outcome("closed", None) \in Results
      /\ Outcome("sent", None) \in Results /\ Outcome("timeout", None) \in Results
      /\ Outcome("exit", None) \in Results
    BY DEF Outcome, Results
<1>1. CASE HandlePingCall(c)
    <2>1. Plain("Ping", NextId) \in Msg
        BY NextIdType, FramesBuilt DEF Id
    <2>2. toServer' \in Seq(Msg)
        BY <1>1, <2>1, SendType, QueueTypes DEF HandlePingCall
    <2> QED
        BY <1>1, <2>2, NextIdType DEF HandlePingCall, TypeOK
<1>2. CASE HandleCallGoneAway(c) \/ TimeOut(c)
    <2>1. PICK o \in Results : /\ call' = [call EXCEPT ![c] = "done"]
                              /\ result' = [result EXCEPT ![c] = o]
        BY <1>0, <1>2 DEF HandleCallGoneAway, TimeOut
    <2>2. UNCHANGED <<clientVars, netVars>>
        BY <1>2 DEF HandleCallGoneAway, TimeOut
    <2> QED
        BY <2>1, <2>2 DEF TypeOK, Results
<1>3. CASE HandleClose(c) \/ CallRaises(c)
    <2>1. PICK o \in Results, why_ \in {"normal", "crash"} : Stop(why_, {c}, o)
        BY <1>0, <1>3 DEF HandleClose, CallRaises
    <2> QED
        BY <1>3, <2>1, StopType DEF HandleClose, CallRaises, TypeOK, Results
<1>4. CASE HandleRequest(c)
    <2>1. Payload("Request", NextId, c) \in Msg
        BY NextIdType, FramesBuilt DEF Id
    <2>2. packets' \in Seq(Msg)
        BY <1>4, <2>1, QueueTypes DEF HandleRequest, TypeOK
    <2> QED
        BY <1>4, <2>2, NextIdType DEF HandleRequest, TypeOK
<1>5. CASE HandlePush(c)
    <2>1. Payload("Push", 0, c) \in Msg
        BY BoundAssumption, FramesBuilt
    <2>2. packets' \in Seq(Msg)
        BY <1>5, <2>1, QueueTypes DEF HandlePush, TypeOK
    <2> QED
        BY <1>0, <1>5, <2>2 DEF HandlePush, TypeOK, Results
<1>6. CASE CallStopped(c)
    <2>1. Outcome(IF c \in Pushes THEN "sent" ELSE "exit", None) \in Results
        BY DEF Outcome, Results
    <2> QED
        BY <1>6, <2>1 DEF CallStopped, TypeOK, Results
<1> QED
    BY <1>1, <1>2, <1>3, <1>4, <1>5, <1>6 DEF CallStep

LEMMA PacketType ==
    ASSUME TypeOK, UNCHANGED scenario, PacketStep
    PROVE  TypeOK'
<1> USE DEF clientVars, callVars, netVars
<1>0. ASSUME NEW op, Take(op)
      PROVE  /\ fromServer' \in Seq(Msg) /\ UNCHANGED link
             /\ Head(fromServer) \in Msg /\ Head(fromServer).seq \in 0 .. MaxSequence
             /\ Head(fromServer).of \in Call \cup {None}
    <2>1. fromServer \in Seq(Msg) /\ fromServer # <<>> /\ fromServer' = Tail(fromServer)
        BY <1>0 DEF Take, TypeOK
    <2>2. Head(fromServer) \in Msg /\ Tail(fromServer) \in Seq(Msg)
        BY <2>1, QueueTypes
    <2> QED
        BY <1>0, <2>1, <2>2 DEF Take, Msg
<1>1. CASE HandlePing
    <2>1. Plain("Pong", Head(fromServer).seq) \in Msg
        BY <1>0, <1>1, FramesBuilt DEF HandlePing
    <2>2. toServer' \in Seq(Msg)
        BY <1>1, <2>1, SendType, QueueTypes DEF HandlePing
    <2> QED
        BY <1>0, <1>1, <2>2 DEF HandlePing, TypeOK
<1>2. CASE HandlePong
    <2>1. call' \in [Call -> {"idle", "waiting", "done"}] /\ result' \in [Call -> Results]
        <3>1. Outcome("pong", None) \in Results
            BY DEF Outcome, Results
        <3>2. UNCHANGED callVars \/ \E d : Reply(d, Outcome("pong", None))
            BY <1>2 DEF HandlePong
        <3>3. CASE UNCHANGED callVars
            BY <3>3 DEF TypeOK, Results
        <3> QED
            BY <3>1, <3>2, <3>3, ReplyType
    <2>2. waiters' \in [Id -> Call \cup {None}] /\ lastPing' \in 0 .. MaxSequence
        BY <1>2, BoundAssumption DEF HandlePong, TypeOK
    <2> QED
        BY <1>0, <1>2, <2>1, <2>2 DEF HandlePong, TypeOK, Results
<1>3. CASE HandleHelloAck
    BY <1>0, <1>3 DEF HandleHelloAck, TypeOK
<1>4. CASE HandleResponse
    <2>1. CASE waiters[Head(fromServer).seq] = None
        <3>1. Outcome("none", None) \in Results
            BY DEF Outcome, Results
        <3> QED
            BY <1>0, <1>4, <2>1, <3>1, StopType DEF HandleResponse, TypeOK, Results
    <2>2. CASE waiters[Head(fromServer).seq] # None
        <3>1. Outcome("ok", Head(fromServer).of) \in Results
            BY <1>0, <1>4 DEF HandleResponse, Outcome, Results
        <3>2. call' \in [Call -> {"idle", "waiting", "done"}] /\ result' \in [Call -> Results]
            BY <1>4, <2>2, <3>1, ReplyType DEF HandleResponse
        <3>3. waiters' \in [Id -> Call \cup {None}]
            BY <1>4, <2>2 DEF HandleResponse, TypeOK
        <3> QED
            BY <1>0, <1>4, <2>2, <3>2, <3>3 DEF HandleResponse, TypeOK, Results
    <2> QED
        BY <2>1, <2>2
<1>5. CASE HandleGoAway
    BY <1>0, <1>5, BoundAssumption DEF HandleGoAway, TypeOK, GoAwaySequence
<1>6. CASE HandleUnknown
    BY <1>0, <1>6 DEF HandleUnknown, TypeOK
<1> QED
    BY <1>1, <1>2, <1>3, <1>4, <1>5, <1>6 DEF PacketStep

LEMMA ProcessType ==
    ASSUME TypeOK, UNCHANGED scenario, Connect \/ FlushPackets \/ TcpClosed \/ CloseGoAway \/ SendPing
    PROVE  TypeOK'
<1> USE DEF clientVars, callVars, netVars
<1>0. Outcome("none", None) \in Results /\ Outcome("went_away", None) \in Results
    BY DEF Outcome, Results
<1>1. CASE Connect
    <2>1. CASE Send(<<Plain("Hello", 0)>>) /\ status' = "up" /\ UNCHANGED <<why, callVars>>
        <3>1. <<Plain("Hello", 0)>> \in Seq(Msg)
            BY BoundAssumption, FramesBuilt, QueueTypes
        <3>2. toServer' \in Seq(Msg)
            BY <2>1, <3>1, SendType
        <3> QED
            BY <1>1, <2>1, <3>2 DEF Connect, TypeOK
    <2>2. CASE Stop("connect", {}, Outcome("none", None)) /\ UNCHANGED toServer
        BY <1>0, <1>1, <2>2, StopType DEF Connect, TypeOK, Results
    <2> QED
        BY <1>1, <2>1, <2>2 DEF Connect
<1>2. CASE FlushPackets
    <2>1. toServer' \in Seq(Msg)
        BY <1>2, SendType DEF FlushPackets, TypeOK
    <2> QED
        BY <1>2, <2>1, QueueTypes DEF FlushPackets, TypeOK
<1>3. CASE TcpClosed
    BY <1>0, <1>3, StopType DEF TcpClosed, TypeOK, Results
<1>4. CASE CloseGoAway
    <2>1. /\ call' \in [Call -> {"idle", "waiting", "done"}] /\ result' \in [Call -> Results]
          /\ status' = "stopped" /\ why' \in {"went_away", "crash"}
        BY <1>0, <1>4, StopType DEF CloseGoAway
    <2> QED
        BY <1>4, <2>1 DEF CloseGoAway, TypeOK, Results
<1>5. CASE SendPing
    <2>1. CASE lastPing = 0
        <3>0. Plain("Ping", NextId) \in Msg
            BY NextIdType, FramesBuilt DEF Id
        <3>1. <<Plain("Ping", NextId)>> \in Seq(Msg)
            BY <3>0, QueueTypes
        <3>2. toServer' \in Seq(Msg)
            BY <1>5, <2>1, <3>1, SendType DEF SendPing
        <3>3. scenario.keepalives \in Nat
            BY ScenarioAssumption DEF TypeOK, Surroundings
        <3>4. keepalives' \in 0 .. scenario'.keepalives + 1
            BY <1>5, <2>1, <3>3 DEF SendPing, MaySendPing, TypeOK
        <3> QED
            BY <1>5, <2>1, <3>2, <3>4, NextIdType DEF SendPing, TypeOK, Id
    <2>2. CASE lastPing # 0
        BY <1>0, <1>5, <2>2, StopType DEF SendPing, TypeOK, Results
    <2> QED
        BY <2>1, <2>2
<1> QED
    BY <1>1, <1>2, <1>3, <1>4, <1>5

(* What Answered counts. *)
Of(r) == {m \in Msg : m.of = r}
Count(ms, r) == Cardinality({i \in DOMAIN ms : ms[i].of = r})

LEMMA CountFacts ==
    ASSUME NEW ms \in Seq(Msg), NEW r
    PROVE  /\ Count(ms, r) \in Nat
           /\ ~Hits(ms, Of(r)) => Count(ms, r) = 0
           /\ Hits(ms, Of(r)) /\ Once(ms, Of(r)) => Count(ms, r) = 1
<1> DEFINE S == {i \in DOMAIN ms : ms[i].of = r}
<1>1. Len(ms) \in Nat /\ DOMAIN ms = 1 .. Len(ms) /\ \A i \in 1 .. Len(ms) : ms[i] \in Msg
    OBVIOUS
<1>2. IsFiniteSet(1 .. Len(ms)) /\ S \subseteq 1 .. Len(ms)
    BY <1>1, FS_Interval
<1>3. IsFiniteSet(S)
    BY <1>2, FS_Subset
<1>4. Cardinality(S) \in Nat
    BY <1>3, FS_CardinalityType
<1>5. S = {i \in 1 .. Len(ms) : ms[i] \in Of(r)}
    BY <1>1 DEF Of
<1>6. ASSUME ~Hits(ms, Of(r)) PROVE Cardinality(S) = 0
    <2>1. S = {}
        BY <1>5, <1>6 DEF Hits
    <2> QED
        BY <2>1, FS_EmptySet
<1>7. ASSUME Hits(ms, Of(r)), Once(ms, Of(r)) PROVE Cardinality(S) = 1
    <2>1. PICK k \in 1 .. Len(ms) : ms[k] \in Of(r)
        BY <1>7 DEF Hits
    <2>2. S = {k}
        BY <1>5, <1>7, <2>1 DEF Once
    <2> QED
        BY <2>2, FS_Singleton
<1> QED
    BY <1>4, <1>6, <1>7 DEF Count

LEMMA AnsweredType ==
    ASSUME ServerTypeOK, NEW ms \in Seq(Msg)
    PROVE  /\ Answered(ms) \in [Requests -> Nat]
           /\ \A r \in Requests : Answered(ms)[r] = srv.answers[r] + Count(ms, r)
<1>1. Answered(ms) = [r \in Requests |-> srv.answers[r] + Count(ms, r)]
    BY DEF Answered, Count
<1>2. \A r \in Requests : srv.answers[r] \in Nat /\ Count(ms, r) \in Nat
    BY CountFacts DEF ServerTypeOK, Server
<1> QED
    BY <1>1, <1>2

(* InOrder lists each of its places once. *)
LEMMA InOrderFacts ==
    ASSUME box \in Seq(Mail), NEW S, S \subseteq DOMAIN box, NEW f \in InOrder(S)
    PROVE  /\ Len(f) \in Nat /\ DOMAIN f = 1 .. Len(f)
           /\ \A k \in 1 .. Len(f) : f[k] \in S
           /\ \A i \in S : \E k \in 1 .. Len(f) : f[k] = i
           /\ \A j, k \in 1 .. Len(f) : f[j] = f[k] => j = k
<1>1. PICK n \in 0 .. Len(box) : f \in [1 .. n -> S]
    BY DEF InOrder
<1>2. n \in Nat /\ Len(box) \in Nat /\ DOMAIN box = 1 .. Len(box)
    BY <1>1
<1>3. Len(f) = n /\ DOMAIN f = 1 .. n
    <2>1. f \in Seq(S)
        BY <1>1, <1>2
    <2> QED
        BY <1>1, <1>2, <2>1
<1>4. \A j, k \in 1 .. n : j < k => f[j] < f[k]
    BY <1>3 DEF InOrder
<1>5. \A k \in 1 .. n : f[k] \in Nat
    BY <1>1, <1>2
<1>6. ASSUME NEW j \in 1 .. n, NEW k \in 1 .. n, f[j] = f[k] PROVE j = k
    <2>1. ~(j < k) /\ ~(k < j)
        BY <1>4, <1>5, <1>6
    <2> QED
        BY <1>2, <2>1
<1>7. \A i \in S : \E k \in 1 .. n : f[k] = i
    BY <1>3 DEF InOrder
<1> QED
    BY <1>1, <1>2, <1>3, <1>6, <1>7

Due == {i \in DOMAIN box : box[i].kind \in {"response", "goAway"}}
FrameOf(x) == IF x.kind = "goAway" THEN Plain("GoAway", 0) ELSE [x.request EXCEPT !.op = "Response"]

(* The frames that answer the mail at the places Due, and what is left: *)
Carry(frames) ==
    \A M, N : (\A i \in Due : FrameOf(box[i]) \in M => box[i] \in N) =>
                 /\ Hits(frames, M) => Hits(box, N)
                 /\ Once(box, N) => Once(frames, M)
Left(q) ==
    \A M : /\ Hits(q, M) => \E i \in DOMAIN box \ Due : box[i] \in M
           /\ \A i \in DOMAIN box \ Due : box[i] \in M => Hits(q, M)
           /\ Once(box, M) => Once(q, M)

LEMMA ResponsesFacts ==
    ASSUME TypeInv, ServerResponses
    PROVE  /\ box' \in Seq(Mail) /\ Left(box')
           /\ \E frames \in Seq(Msg) :
                 /\ ServerSend(frames) /\ srv' = [srv EXCEPT !.answers = Answered(frames)]
                 /\ Carry(frames)
<1>0. box \in Seq(Mail) /\ DOMAIN box = 1 .. Len(box) /\ \A i \in DOMAIN box : box[i] \in Mail
    BY DEF TypeInv, ServerTypeOK
<1>1. PICK f \in InOrder(Due), g \in InOrder(DOMAIN box \ Due) :
        /\ ServerSend([k \in DOMAIN f |-> FrameOf(box[f[Len(f) + 1 - k]])])
        /\ srv' = [srv EXCEPT !.answers = Answered([k \in DOMAIN f |-> FrameOf(box[f[Len(f) + 1 - k]])])]
        /\ box' = [k \in DOMAIN g |-> box[g[k]]]
    BY DEF ServerResponses, Due, FrameOf
<1> DEFINE frames == [k \in DOMAIN f |-> FrameOf(box[f[Len(f) + 1 - k]])]
<1>2. Due \subseteq DOMAIN box /\ DOMAIN box \ Due \subseteq DOMAIN box
    BY DEF Due
<1>3. /\ Len(f) \in Nat /\ DOMAIN f = 1 .. Len(f)
      /\ \A k \in 1 .. Len(f) : f[k] \in Due
      /\ \A j, k \in 1 .. Len(f) : f[j] = f[k] => j = k
    BY <1>0, <1>2, InOrderFacts
<1>4. /\ Len(g) \in Nat /\ DOMAIN g = 1 .. Len(g)
      /\ \A k \in 1 .. Len(g) : g[k] \in DOMAIN box \ Due
      /\ \A i \in DOMAIN box \ Due : \E k \in 1 .. Len(g) : g[k] = i
      /\ \A j, k \in 1 .. Len(g) : g[j] = g[k] => j = k
    BY <1>0, <1>2, InOrderFacts
<1>5. box' \in Seq(Mail) /\ Len(box') = Len(g) /\ \A k \in 1 .. Len(g) : box'[k] = box[g[k]]
    <2>1. box' \in [1 .. Len(g) -> Mail]
        BY <1>0, <1>1, <1>2, <1>4
    <2> QED
        BY <1>1, <1>4, <2>1
<1>6. Left(box')
    <2> SUFFICES ASSUME NEW M
                 PROVE  /\ Hits(box', M) => \E i \in DOMAIN box \ Due : box[i] \in M
                        /\ \A i \in DOMAIN box \ Due : box[i] \in M => Hits(box', M)
                        /\ Once(box, M) => Once(box', M)
        BY DEF Left
    <2>1. Hits(box', M) => \E i \in DOMAIN box \ Due : box[i] \in M
        BY <1>4, <1>5 DEF Hits
    <2>2. \A i \in DOMAIN box \ Due : box[i] \in M => Hits(box', M)
        BY <1>4, <1>5 DEF Hits
    <2>3. Once(box, M) => Once(box', M)
        BY <1>0, <1>4, <1>5 DEF Once
    <2> QED
        BY <2>1, <2>2, <2>3
<1>7. \A i \in Due : FrameOf(box[i]) \in Msg
    <2> SUFFICES ASSUME NEW i \in Due PROVE FrameOf(box[i]) \in Msg
        OBVIOUS
    <2>1. box[i] \in Mail
        BY <1>0, <1>2
    <2>2. Plain("GoAway", 0) \in Msg
        BY FramesBuilt, BoundAssumption
    <2>3. [box[i].request EXCEPT !.op = "Response"] \in Msg
        BY <2>1 DEF Mail, Msg
    <2> QED
        BY <2>2, <2>3 DEF FrameOf
<1>8. \A k \in 1 .. Len(f) : /\ Len(f) + 1 - k \in 1 .. Len(f)
                             /\ frames[k] = FrameOf(box[f[Len(f) + 1 - k]])
    BY <1>3
<1>9. frames \in Seq(Msg) /\ Len(frames) = Len(f)
    <2>1. frames \in [1 .. Len(f) -> Msg]
        BY <1>3, <1>7, <1>8
    <2> QED
        BY <1>3, <2>1
<1> HIDE DEF frames
<1>10. ASSUME NEW M, NEW N, \A i \in Due : FrameOf(box[i]) \in M => box[i] \in N
       PROVE  (Hits(frames, M) => Hits(box, N)) /\ (Once(box, N) => Once(frames, M))
    <2>1. \A k \in 1 .. Len(f) : frames[k] \in M =>
             box[f[Len(f) + 1 - k]] \in N /\ f[Len(f) + 1 - k] \in 1 .. Len(box)
        BY <1>0, <1>2, <1>3, <1>8, <1>10
    <2>2. Hits(frames, M) => Hits(box, N)
        BY <1>9, <2>1 DEF Hits
    <2>3. ASSUME Once(box, N), NEW j \in 1 .. Len(f), NEW k \in 1 .. Len(f),
                 frames[j] \in M, frames[k] \in M
          PROVE  j = k
        <3>1. f[Len(f) + 1 - j] = f[Len(f) + 1 - k]
            BY <2>1, <2>3 DEF Once
        <3>2. Len(f) + 1 - j = Len(f) + 1 - k
            BY <1>3, <1>8, <3>1
        <3> QED
            BY <1>3, <3>2
    <2> QED
        BY <1>9, <2>2, <2>3 DEF Once
<1>11. Carry(frames)
    BY <1>10 DEF Carry
<1> QED
    BY <1>1, <1>5, <1>6, <1>9, <1>11 DEF frames

(* Steps of the server keep the types. *)
LEMMA EndType ==
    ASSUME TypeInv, NEW how \in {"closed", "crashed"}, End(how)
    PROVE  srv' \in Server /\ link' \in {"up", "closed", "broken", "silent"}
BY DEF End, TypeInv, TypeOK, ServerTypeOK, Server

LEMMA GoAwayType ==
    ASSUME TypeInv, GoAway
    PROVE  /\ srv' \in Server /\ link' \in {"up", "closed", "broken", "silent"}
           /\ fromServer' \in Seq(Msg)
<1>1. <<Plain("GoAway", 0)>> \in Seq(Msg)
    BY FramesBuilt, QueueTypes, BoundAssumption
<1>2. fromServer' \in Seq(Msg)
    BY <1>1, ServerSendType DEF GoAway, TypeInv, TypeOK
<1> QED
    BY <1>2, EndType DEF GoAway

(* The request a worker is for. *)
LEMMA PostType ==
    ASSUME TypeInv, NEW r, NEW kind \in {"response", "goAway", "normal", "crash"}, Post(r, kind),
           srv.status = "up" => Watched(r)
    PROVE  /\ box' \in Seq(Mail)
           /\ srv.status = "up" =>
                \E m \in srv.refs : \E odd \in BOOLEAN :
                    m.of = r /\ box' = Append(box, [kind |-> kind, request |-> m, odd |-> odd])
           /\ srv.status # "up" => box' = box
<1>1. box \in Seq(Mail) /\ srv.refs \subseteq Msg
    BY DEF TypeInv, ServerTypeOK, Server
<1>2. CASE srv.status = "up"
    <2> DEFINE m == CHOOSE n \in srv.refs : n.of = r
    <2>1. m \in srv.refs /\ m.of = r
        BY <1>2 DEF Watched
    <2>2. PICK odd \in BOOLEAN : box' = Append(box, [kind |-> kind, request |-> m, odd |-> odd])
        BY <1>2 DEF Post
    <2> HIDE DEF m
    <2>3. [kind |-> kind, request |-> m, odd |-> odd] \in Mail
        BY <1>1, <2>1 DEF Mail
    <2>4. box' \in Seq(Mail)
        BY <1>1, <2>2, <2>3, QueueTypes
    <2> QED
        BY <1>2, <2>1, <2>2, <2>4
<1>3. CASE srv.status # "up"
    BY <1>1, <1>3 DEF Post
<1> QED
    BY <1>2, <1>3

(* The process has a monitor for a worker that has not gone. *)
WorkersAreWatched ==
    srv.status = "up" => \A r \in Requests : worker[r] \in {"running", "returned"} => Watched(r)

LEMMA ServerType ==
    ASSUME TypeInv, WorkersAreWatched, UNCHANGED scenario, ServerStep \/ LinkFails
    PROVE  TypeInv'
<1> USE DEF clientVars, callVars, netVars, serverVars
<1>0. /\ TypeOK /\ srv \in Server /\ box \in Seq(Mail)
      /\ worker \in [Requests -> {"none", "running", "returned", "gone"}]
    BY DEF TypeInv, ServerTypeOK
<1>1. CASE ServerData
    <2> DEFINE m == Head(toServer)
    <2>1. m \in Msg /\ m.seq \in 0 .. MaxSequence /\ toServer' \in Seq(Msg)
        <3>1. toServer \in Seq(Msg) /\ toServer # <<>> /\ toServer' = Tail(toServer)
            BY <1>0, <1>1 DEF ServerData, TypeOK
        <3>2. m \in Msg /\ Tail(toServer) \in Seq(Msg)
            BY <3>1, QueueTypes
        <3> QED
            BY <3>1, <3>2 DEF Msg
    <2>2. UNCHANGED <<clientVars, callVars, box>>
        BY <1>1 DEF ServerData
    <2>3. /\ <<Plain("Pong", m.seq)>> \in Seq(Msg)
          /\ <<Plain("HelloAck", 0)>> \in Seq(Msg)
        <3>1. Plain("Pong", m.seq) \in Msg /\ Plain("HelloAck", 0) \in Msg
            BY <2>1, FramesBuilt, BoundAssumption
        <3> QED
            BY <3>1, QueueTypes
    <2>4. CASE m.op = "Hello" /\ HandleHello /\ UNCHANGED worker
        <3>1. CASE GoAway
            BY <1>0, <2>1, <2>2, <2>4, <3>1, GoAwayType DEF TypeInv, TypeOK, ServerTypeOK
        <3>2. CASE ServerSend(<<Plain("HelloAck", 0)>>) /\ UNCHANGED <<srv, link>>
            <4>1. fromServer' \in Seq(Msg)
                BY <1>0, <2>3, <3>2, ServerSendType
            <4> QED
                BY <1>0, <2>1, <2>2, <2>4, <3>2, <4>1 DEF TypeInv, TypeOK, ServerTypeOK
        <3> QED
            BY <2>4, <3>1, <3>2 DEF HandleHello
    <2>5. CASE ServerSend(<<Plain("Pong", m.seq)>>) /\ UNCHANGED <<srv, link, worker>>
        <3>1. fromServer' \in Seq(Msg)
            BY <1>0, <2>3, <2>5, ServerSendType
        <3> QED
            BY <1>0, <2>1, <2>2, <2>5, <3>1 DEF TypeInv, TypeOK, ServerTypeOK
    <2>6. CASE srv' = [srv EXCEPT !.ponged = TRUE] /\ UNCHANGED <<fromServer, link, worker>>
        <3>1. srv' \in Server
            BY <1>0, <2>6 DEF Server
        <3> QED
            BY <1>0, <2>1, <2>2, <2>6, <3>1 DEF TypeInv, TypeOK, ServerTypeOK
    <2>7. CASE End("crashed") /\ UNCHANGED <<fromServer, worker>>
        BY <1>0, <2>1, <2>2, <2>7, EndType DEF TypeInv, TypeOK, ServerTypeOK
    <2>8. CASE SpawnWorker(m) /\ UNCHANGED <<fromServer, link>>
        <3>1. srv' \in Server
            BY <1>0, <2>1, <2>8 DEF SpawnWorker, Server
        <3>2. worker' \in [Requests -> {"none", "running", "returned", "gone"}]
            BY <1>0, <2>8 DEF SpawnWorker
        <3> QED
            BY <1>0, <2>1, <2>2, <2>8, <3>1, <3>2 DEF TypeInv, TypeOK, ServerTypeOK
    <2>9. CASE UNCHANGED <<srv, fromServer, link, worker>>
        BY <1>0, <2>1, <2>2, <2>9 DEF TypeInv, TypeOK, ServerTypeOK
    <2> HIDE DEF m
    <2> QED
        BY <1>1, <2>4, <2>5, <2>6, <2>7, <2>8, <2>9 DEF ServerData, m
<1>2. CASE ServerResponses
    <2>1. PICK frames \in Seq(Msg) : ServerSend(frames) /\ srv' = [srv EXCEPT !.answers = Answered(frames)]
        BY <1>2, ResponsesFacts
    <2>2. fromServer' \in Seq(Msg)
        BY <1>0, <2>1, ServerSendType
    <2>3. srv' \in Server
        <3>1. Answered(frames) \in [Requests -> Nat]
            BY <2>1, AnsweredType DEF TypeInv
        <3> QED
            BY <1>0, <2>1, <3>1 DEF Server
    <2>4. UNCHANGED <<clientVars, callVars, toServer, link, worker>>
        BY <1>2 DEF ServerResponses
    <2>5. box' \in Seq(Mail)
        BY <1>2, ResponsesFacts
    <2> QED
        BY <1>0, <2>2, <2>3, <2>4, <2>5 DEF TypeInv, TypeOK, ServerTypeOK
<1>3. CASE ServerDown
    <2> DEFINE m == Head(box).request
               errors == IF Head(box).kind = "crash" /\ m \in srv.refs
                         THEN <<[m EXCEPT !.op = "Error"]>> ELSE <<>>
    <2>1. Head(box) \in Mail /\ box' \in Seq(Mail)
        BY <1>0, <1>3, QueueTypes DEF ServerDown
    <2>2. [m EXCEPT !.op = "Error"] \in Msg
        BY <2>1 DEF Mail, Msg
    <2>3. errors \in Seq(Msg)
        BY <2>2, QueueTypes
    <2>4. ServerSend(errors) /\ srv' = [srv EXCEPT !.refs = @ \ {m}, !.answers = Answered(errors)]
        BY <1>3 DEF ServerDown
    <2> HIDE DEF m, errors
    <2>5. fromServer' \in Seq(Msg)
        BY <1>0, <2>3, <2>4, ServerSendType
    <2>6. srv' \in Server
        <3>1. Answered(errors) \in [Requests -> Nat]
            BY <2>3, AnsweredType DEF TypeInv
        <3> QED
            BY <1>0, <2>4, <3>1 DEF Server
    <2>7. UNCHANGED <<clientVars, callVars, toServer, link, worker>>
        BY <1>3 DEF ServerDown
    <2> QED
        BY <1>0, <2>1, <2>5, <2>6, <2>7 DEF TypeInv, TypeOK, ServerTypeOK
<1>4. CASE ServerPing
    <2>1. UNCHANGED <<clientVars, callVars, toServer, worker, box>>
        BY <1>4 DEF ServerPing
    <2>2. CASE GoAway
        BY <1>0, <2>1, <2>2, GoAwayType DEF TypeInv, TypeOK, ServerTypeOK
    <2>3. CASE /\ ServerSend(<<Plain("Ping", IF srv.seq >= MaxSequence THEN 1 ELSE srv.seq)>>)
               /\ srv' = [srv EXCEPT !.ponged = FALSE, !.seq = IF @ >= MaxSequence THEN 2 ELSE @ + 1]
               /\ UNCHANGED link
        <3>1. srv.seq \in 1 .. MaxSequence
            BY <1>0 DEF Server
        <3>2. /\ (IF srv.seq >= MaxSequence THEN 1 ELSE srv.seq) \in 0 .. MaxSequence
              /\ (IF srv.seq >= MaxSequence THEN 2 ELSE srv.seq + 1) \in 1 .. MaxSequence
            BY <3>1, BoundAssumption
        <3>3. Plain("Ping", IF srv.seq >= MaxSequence THEN 1 ELSE srv.seq) \in Msg
            BY <3>2, FramesBuilt
        <3>4. <<Plain("Ping", IF srv.seq >= MaxSequence THEN 1 ELSE srv.seq)>> \in Seq(Msg)
            BY <3>3, QueueTypes
        <3>5. fromServer' \in Seq(Msg)
            BY <1>0, <2>3, <3>4, ServerSendType
        <3>6. srv' \in Server
            BY <1>0, <2>3, <3>2 DEF Server
        <3> QED
            BY <1>0, <2>1, <2>3, <3>5, <3>6 DEF TypeInv, TypeOK, ServerTypeOK
    <2> QED
        BY <1>4, <2>2, <2>3 DEF ServerPing
<1>5. CASE ServerTcpClosed
    <2>1. End("closed") \/ End("crashed")
        BY <1>5 DEF ServerTcpClosed
    <2>2. srv' \in Server /\ link' \in {"up", "closed", "broken", "silent"}
        BY <2>1, EndType
    <2> QED
        BY <1>0, <1>5, <2>2 DEF ServerTcpClosed, TypeInv, TypeOK, ServerTypeOK
<1>6. ASSUME NEW r \in Requests, WorkerStep(r) PROVE TypeInv'
    <2>1. worker[r] \in {"running", "returned"}
        BY <1>6 DEF WorkerStep, WorkerReturns, WorkerExits
    <2>2. PICK kind \in {"response", "goAway", "normal", "crash"} : Post(r, kind)
        BY <1>6 DEF WorkerStep, WorkerReturns, WorkerExits
    <2>3. box' \in Seq(Mail)
        BY <2>1, <2>2, PostType DEF WorkersAreWatched
    <2>4. worker' \in [Requests -> {"none", "running", "returned", "gone"}]
        BY <1>0, <1>6 DEF WorkerStep, WorkerReturns, WorkerExits
    <2>5. UNCHANGED <<clientVars, callVars, netVars, srv>>
        BY <1>6 DEF WorkerStep, WorkerReturns, WorkerExits
    <2> QED
        BY <1>0, <2>3, <2>4, <2>5 DEF TypeInv, TypeOK, ServerTypeOK
<1>7. CASE LinkFails
    BY <1>0, <1>7 DEF LinkFails, TypeInv, TypeOK, ServerTypeOK
<1>8. CASE ReplyRaises
    <2>1. srv' \in Server /\ link' \in {"up", "closed", "broken", "silent"}
        BY <1>8, EndType DEF ReplyRaises
    <2> QED
        BY <1>0, <1>8, <2>1 DEF ReplyRaises, TypeInv, TypeOK, ServerTypeOK
<1> QED
    BY <1>1, <1>2, <1>3, <1>4, <1>5, <1>6, <1>7, <1>8 DEF ServerStep, Mailbox

LEMMA InitType == Init => TypeInv
<1> SUFFICES ASSUME Init PROVE TypeInv
    OBVIOUS
<1>1. /\ result \in [Call -> Results] /\ call \in [Call -> {"idle", "waiting", "done"}]
      /\ waiters \in [Id -> Call \cup {None}]
    BY DEF Init, ClientInit, Outcome, Results
<1>2. scenario.keepalives \in Nat /\ scenario \in Scenarios
    BY ScenarioAssumption DEF Init, ClientInit, Surroundings
<1>3. TypeOK
    <2>1. packets \in Seq(Msg) /\ toServer \in Seq(Msg) /\ fromServer \in Seq(Msg)
        BY QueueTypes DEF Init, ClientInit
    <2>2. sequence \in 1 .. GoAwaySequence /\ lastPing \in 0 .. MaxSequence
        BY BoundAssumption DEF Init, ClientInit, GoAwaySequence
    <2>3. keepalives \in 0 .. scenario.keepalives + 1
        BY <1>2 DEF Init, ClientInit
    <2>4. {pingTimer, goAwayTimer} \subseteq BOOLEAN /\ reset \in BOOLEAN
        BY DEF Init, ClientInit
    <2> QED
        BY <1>1, <1>2, <2>1, <2>2, <2>3, <2>4 DEF Init, ClientInit, TypeOK, Results
<1>4. ServerTypeOK
    BY BoundAssumption DEF Init, ServerTypeOK, Server
<1> QED
    BY <1>3, <1>4 DEF TypeInv

LEMMA TypeStep ==
    ASSUME TypeInv, WorkersAreWatched, [Next]_vars
    PROVE  TypeInv'
<1>1. CASE OfClient(ClientStep)
    <2>1. TypeOK'
        BY <1>1, CallType, PacketType, ProcessType DEF OfClient, ClientStep, TypeInv
    <2> QED
        BY <1>1, <2>1 DEF OfClient, serverVars, TypeInv, ServerTypeOK
<1>2. CASE OfServer(ServerStep) \/ OfServer(LinkFails)
    BY <1>2, ServerType DEF OfServer
<1>3. CASE UNCHANGED vars
    BY <1>3 DEF vars, clientVars, callVars, netVars, serverVars, TypeInv, TypeOK, ServerTypeOK
<1> QED
    BY <1>1, <1>2, <1>3 DEF Next
-----------------------------------------------------------------------------
(* What the steps do to the queues.                                        *)

LEMMA SendFewer ==
    ASSUME TypeOK, NEW m \in Msg, Send(<<m>>), NEW M, m \notin M
    PROVE  Fewer(toServer', toServer, M)
<1>1. toServer \in Seq(Msg) /\ <<m>> \in Seq(Msg) /\ ~Hits(<<m>>, M)
    BY HitsOne DEF TypeOK
<1>2. toServer' = toServer \o <<m>> \/ toServer' = toServer
    BY DEF Send
<1> QED
    BY <1>1, <1>2, FewerFacts

LEMMA ServerSendFewer ==
    ASSUME TypeOK, NEW ms \in Seq(Msg), ServerSend(ms), NEW M, ~Hits(ms, M)
    PROVE  Fewer(fromServer', fromServer, M)
<1>1. fromServer \in Seq(Msg)
    BY DEF TypeOK
<1>2. fromServer' = fromServer \o ms \/ fromServer' = fromServer
    BY DEF ServerSend
<1> QED
    BY <1>1, <1>2, FewerFacts

(* A step of the client that sends and buffers no request: *)
Asksless ==
    /\ \A M : (\A m \in M : m.op = "Request") =>
          Fewer(packets', packets, M) /\ Fewer(toServer', toServer, M)
    /\ \A M : Fewer(fromServer', fromServer, M)
    /\ \A c \in Call : call'[c] = "idle" => call[c] = "idle"

LEMMA StopMoves ==
    ASSUME TypeOK, NEW reason, NEW replied, NEW o, Stop(reason, replied, o),
           UNCHANGED <<packets, toServer>>, fromServer' = fromServer
    PROVE  Asksless
<1>1. \A c \in Call : call'[c] = "idle" => call[c] = "idle"
    BY DEF Stop
<1>2. packets \in Seq(Msg) /\ toServer \in Seq(Msg) /\ fromServer \in Seq(Msg)
    BY DEF TypeOK
<1>3. \A M : /\ Fewer(packets, packets, M) /\ Fewer(toServer, toServer, M)
             /\ Fewer(fromServer, fromServer, M)
    BY <1>2, FewerFacts
<1> QED
    BY <1>1, <1>3 DEF Asksless

LEMMA CallMoves ==
    ASSUME TypeOK, NEW c \in Call, CallStep(c), ~HandleRequest(c)
    PROVE  Asksless
<1> USE DEF clientVars, callVars, netVars
<1>1. packets \in Seq(Msg) /\ toServer \in Seq(Msg) /\ fromServer \in Seq(Msg)
    BY DEF TypeOK
<1>2. \A M : /\ Fewer(packets, packets, M) /\ Fewer(toServer, toServer, M)
             /\ Fewer(fromServer, fromServer, M)
    BY <1>1, FewerFacts
<1>3. CASE HandlePingCall(c)
    <2>1. Plain("Ping", NextId) \in Msg /\ Plain("Ping", NextId).op = "Ping"
        BY NextIdType, FramesBuilt DEF Id, Plain, Frame
    <2>2. ASSUME NEW M, \A m \in M : m.op = "Request" PROVE Fewer(toServer', toServer, M)
        BY <1>3, <2>1, <2>2, SendFewer DEF HandlePingCall
    <2> QED
        BY <1>2, <1>3, <2>2 DEF HandlePingCall, Asksless, TypeOK
<1>4. CASE HandleClose(c) \/ CallRaises(c)
    BY <1>4, StopMoves DEF HandleClose, CallRaises
<1>5. CASE HandlePush(c)
    <2> DEFINE f == Payload("Push", 0, c)
    <2>1. f \in Msg /\ f.op = "Push"
        BY FramesBuilt, BoundAssumption DEF Payload, Frame
    <2>2. packets' = packets \/ packets' = <<f>> \o packets
        BY <1>5 DEF HandlePush
    <2> HIDE DEF f
    <2>3. ASSUME NEW M, \A m \in M : m.op = "Request" PROVE Fewer(packets', packets, M)
        <3>1. <<f>> \in Seq(Msg) /\ ~Hits(<<f>>, M)
            BY <2>1, <2>3, HitsOne
        <3> QED
            BY <1>1, <2>2, <3>1, FewerFacts
    <2> QED
        BY <1>2, <1>5, <2>3 DEF HandlePush, Asksless, TypeOK
<1>6. CASE HandleCallGoneAway(c) \/ CallStopped(c) \/ TimeOut(c)
    <2>1. UNCHANGED <<packets, toServer, fromServer>> /\ call' = [call EXCEPT ![c] = "done"]
        BY <1>6 DEF HandleCallGoneAway, CallStopped, TimeOut
    <2> QED
        BY <1>2, <2>1 DEF Asksless, TypeOK
<1> QED
    BY <1>3, <1>4, <1>5, <1>6 DEF CallStep

LEMMA ReplyMoves ==
    ASSUME NEW c, NEW o, Reply(c, o), call \in [Call -> {"idle", "waiting", "done"}]
    PROVE  \A d \in Call : call'[d] = "idle" => call[d] = "idle"
BY DEF Reply

LEMMA PacketMoves ==
    ASSUME TypeOK, PacketStep
    PROVE  Asksless
<1> USE DEF clientVars, callVars, netVars
<1>1. packets \in Seq(Msg) /\ toServer \in Seq(Msg) /\ fromServer \in Seq(Msg)
    BY DEF TypeOK
<1>2. \A M : Fewer(packets, packets, M) /\ Fewer(toServer, toServer, M)
    BY <1>1, FewerFacts
<1>3. \A M : Fewer(fromServer', fromServer, M)
    <2>1. fromServer # <<>> /\ fromServer' = Tail(fromServer)
        BY DEF PacketStep, HandlePing, HandlePong, HandleHelloAck, HandleResponse, HandleGoAway,
               HandleUnknown, Take
    <2> QED
        BY <1>1, <2>1, FewerFacts
<1>4. CASE HandlePing
    <2>1. Head(fromServer) \in Msg
        BY <1>1, <1>4, QueueTypes DEF HandlePing, Take
    <2>2. Plain("Pong", Head(fromServer).seq) \in Msg /\ Plain("Pong", Head(fromServer).seq).op = "Pong"
        <3>1. Head(fromServer).seq \in 0 .. MaxSequence
            BY <2>1 DEF Msg
        <3> QED
            BY <3>1, FramesBuilt DEF Plain, Frame
    <2>3. ASSUME NEW M, \A m \in M : m.op = "Request" PROVE Fewer(toServer', toServer, M)
        BY <1>4, <2>2, <2>3, SendFewer DEF HandlePing
    <2> QED
        BY <1>2, <1>3, <1>4, <2>3 DEF HandlePing, Asksless
<1>5. CASE HandlePong
    <2>1. \A d \in Call : call'[d] = "idle" => call[d] = "idle"
        <3>1. UNCHANGED callVars \/ \E d : Reply(d, Outcome("pong", None))
            BY <1>5 DEF HandlePong
        <3> QED
            BY <3>1, ReplyMoves DEF TypeOK
    <2> QED
        BY <1>2, <1>3, <1>5, <2>1 DEF HandlePong, Asksless
<1>6. CASE HandleHelloAck \/ HandleGoAway \/ HandleUnknown
    <2>1. UNCHANGED <<packets, toServer, call>>
        BY <1>6 DEF HandleHelloAck, HandleGoAway, HandleUnknown
    <2> QED
        BY <1>2, <1>3, <2>1 DEF Asksless
<1>7. CASE HandleResponse
    <2>1. \A d \in Call : call'[d] = "idle" => call[d] = "idle"
        <3>1. \/ Stop("crash", {}, Outcome("none", None))
              \/ \E d : Reply(d, Outcome("ok", Head(fromServer).of))
            BY <1>7 DEF HandleResponse
        <3> QED
            BY <3>1, ReplyMoves DEF TypeOK, Stop
    <2> QED
        BY <1>2, <1>3, <1>7, <2>1 DEF HandleResponse, Asksless
<1> QED
    BY <1>4, <1>5, <1>6, <1>7 DEF PacketStep

LEMMA ProcessMoves ==
    ASSUME TypeOK, Connect \/ TcpClosed \/ CloseGoAway \/ SendPing
    PROVE  Asksless
<1> USE DEF clientVars, callVars, netVars
<1>1. packets \in Seq(Msg) /\ toServer \in Seq(Msg) /\ fromServer \in Seq(Msg)
    BY DEF TypeOK
<1>2. \A M : /\ Fewer(packets, packets, M) /\ Fewer(toServer, toServer, M)
             /\ Fewer(fromServer, fromServer, M)
    BY <1>1, FewerFacts
<1>3. ASSUME NEW f \in Msg, f.op # "Request", Send(<<f>>), UNCHANGED <<packets, fromServer, call>>
      PROVE  Asksless
    <2>1. ASSUME NEW M, \A m \in M : m.op = "Request" PROVE Fewer(toServer', toServer, M)
        BY <1>3, <2>1, SendFewer
    <2> QED
        BY <1>2, <1>3, <2>1 DEF Asksless
<1>4. CASE Connect
    <2>1. Plain("Hello", 0) \in Msg /\ Plain("Hello", 0).op = "Hello"
        BY FramesBuilt, BoundAssumption DEF Plain, Frame
    <2> QED
        BY <1>3, <1>4, <2>1, StopMoves DEF Connect
<1>5. CASE TcpClosed
    BY <1>5, StopMoves DEF TcpClosed
<1>6. CASE CloseGoAway
    BY <1>6, StopMoves DEF CloseGoAway
<1>7. CASE SendPing
    <2>1. Plain("Ping", NextId) \in Msg /\ Plain("Ping", NextId).op = "Ping"
        BY NextIdType, FramesBuilt DEF Id, Plain, Frame
    <2> QED
        BY <1>3, <1>7, <2>1, StopMoves DEF SendPing
<1> QED
    BY <1>4, <1>5, <1>6, <1>7
-----------------------------------------------------------------------------
(* A request is answered once.                                             *)

(* What a step that does not concern the request r keeps. *)
LEMMA AskKept ==
    ASSUME NEW r, Asking(r),
           Fewer(packets', packets, Asks(r)), Fewer(toServer', toServer, Asks(r)),
           call'[r] = "idle" => call[r] = "idle", worker'[r] = worker[r]
    PROVE  Asking(r)'
BY DEF Asking, Fewer

LEMMA AnswerKept ==
    ASSUME NEW r, Answering(r),
           Fewer(fromServer', fromServer, Responses(r)), Fewer(box', box, Said(r)),
           Fewer(box', box, Down(r)), Fewer(box', box, Crash(r)),
           worker'[r] = worker[r], srv'.answers[r] = srv.answers[r]
    PROVE  Answering(r)'
BY DEF Answering, Fewer

LEMMA WatchKept ==
    ASSUME NEW r, Watching(r), srv'.status = "up" => srv.status = "up",
           Hits(box', Down(r)) <=> Hits(box, Down(r)), Watched(r)' <=> Watched(r),
           worker'[r] = worker[r]
    PROVE  Watching(r)'
BY DEF Watching

(* What a step that the workers and the mailbox have no part in keeps. *)
Standing ==
    /\ worker' = worker /\ box' = box
    /\ srv'.refs = srv.refs /\ srv'.answers = srv.answers
    /\ srv'.status = "up" => srv.status = "up" /\ (link' = "closed" => link = "closed")

LEMMA StandingKeeps ==
    ASSUME TypeInv, Standing, NEW r, Answering(r), Watching(r),
           Fewer(fromServer', fromServer, Responses(r))
    PROVE  Answering(r)' /\ Watching(r)'
<1>1. \A M : Fewer(box', box, M)
    BY FewerFacts DEF Standing, TypeInv, ServerTypeOK
<1>2. worker'[r] = worker[r] /\ srv'.answers[r] = srv.answers[r] /\ box' = box
    BY DEF Standing
<1>3. Answering(r)'
    BY <1>1, <1>2, AnswerKept
<1>4. Watched(r)' <=> Watched(r)
    BY DEF Watched, Standing
<1>5. Watching(r)'
    BY <1>2, <1>4, WatchKept DEF Standing
<1> QED
    BY <1>3, <1>5

LEMMA SoundKept ==
    ASSUME Sound, Standing,
           Fewer(packets', packets, Nobodys("Request")), Fewer(toServer', toServer, Nobodys("Request")),
           Fewer(fromServer', fromServer, Nobodys("Response"))
    PROVE  Sound'
BY DEF Sound, Standing, Fewer

LEMMA Kinds ==
    ASSUME NEW r
    PROVE  /\ \A m \in Asks(r) : m.op = "Request"
           /\ \A m \in Nobodys("Request") : m.op = "Request"
           /\ \A m \in Msg : m \in Asks(r) <=> m.op = "Request" /\ m.of = r
           /\ \A m \in Msg : m \in Responses(r) <=> m.op = "Response" /\ m.of = r
           /\ \A op : \A m \in Msg : m \in Nobodys(op) <=> m.op = op /\ m.of \notin Requests
BY DEF Asks, Nobodys, Responses

(* Steps of the client. *)
LEMMA ClientJob ==
    ASSUME TypeInv, JobInv, OfClient(ClientStep)
    PROVE  JobInv'
<1>0. /\ packets \in Seq(Msg) /\ toServer \in Seq(Msg) /\ fromServer \in Seq(Msg)
      /\ Requests \subseteq Call /\ TypeOK
    BY DEF TypeInv, TypeOK, Call
<1>1. Standing
    <2>1. UNCHANGED serverVars
        BY DEF OfClient
    <2>2. link' = "closed" => link = "closed"
        BY DEF OfClient, ClientStep, Connect, FlushPackets, TcpClosed, CloseGoAway, SendPing, PacketStep,
               CallStep, HandlePingCall, HandleCallGoneAway, HandleClose, CallRaises, HandleRequest, HandlePush,
               CallStopped, TimeOut, HandlePing, HandlePong, HandleHelloAck, HandleResponse, HandleGoAway,
               HandleUnknown, Take, netVars
    <2> QED
        BY <2>1, <2>2 DEF Standing, serverVars
<1>2. CASE Asksless
    <2>1. ASSUME NEW r \in Requests PROVE Job(r)'
        <3>1. Asking(r) /\ Answering(r) /\ Watching(r)
            BY DEF JobInv, Job
        <3>2. /\ Fewer(packets', packets, Asks(r)) /\ Fewer(toServer', toServer, Asks(r))
              /\ Fewer(fromServer', fromServer, Responses(r))
            BY <1>2, Kinds DEF Asksless
        <3>3. (call'[r] = "idle" => call[r] = "idle") /\ worker'[r] = worker[r]
            BY <1>0, <1>1, <1>2 DEF Asksless, Standing
        <3>4. Asking(r)'
            BY <3>1, <3>2, <3>3, AskKept
        <3> QED
            BY <1>1, <3>1, <3>2, <3>4, StandingKeeps DEF Job
    <2>2. Sound'
        BY <1>1, <1>2, Kinds, SoundKept DEF Asksless, JobInv
    <2> QED
        BY <2>1, <2>2 DEF JobInv
<1>3. ASSUME NEW c \in Call, HandleRequest(c) PROVE JobInv'
    <2> DEFINE f == Payload("Request", NextId, c)
    <2>1. f \in Msg /\ f.op = "Request" /\ f.of = c
        <3>1. f \in Msg /\ f = [op |-> "Request", seq |-> NextId, of |-> c, early |-> ~pingTimer]
            BY <1>0, NextIdType, FramesBuilt DEF Id
        <3> QED
            BY <3>1
    <2>2. /\ packets' = <<f>> \o packets /\ UNCHANGED <<toServer, fromServer>>
          /\ call' = [call EXCEPT ![c] = "waiting"] /\ call[c] = "idle" /\ c \in Requests
        BY <1>3 DEF HandleRequest, Called, netVars
    <2> HIDE DEF f
    <2>3. <<f>> \in Seq(Msg)
        BY <2>1
    <2>4. \A M : Fewer(toServer', toServer, M) /\ Fewer(fromServer', fromServer, M)
        BY <1>0, <2>2, FewerFacts
    <2>5. \A M : f \notin M => Fewer(packets', packets, M)
        BY <1>0, <2>2, <2>3, HitsOne, FewerFacts
    <2>6. ASSUME NEW r \in Requests PROVE Job(r)'
        <3>1. Asking(r) /\ Answering(r) /\ Watching(r)
            BY DEF JobInv, Job
        <3>2. Answering(r)' /\ Watching(r)'
            BY <1>1, <2>4, <3>1, StandingKeeps
        <3>3. Asking(r)'
            <4>1. CASE r = c
                <5>1. ~Hits(packets, Asks(r)) /\ ~Hits(toServer, Asks(r)) /\ worker[r] = "none"
                    BY <2>2, <3>1, <4>1 DEF Asking
                <5>2. Once(packets', Asks(r))
                    BY <1>0, <2>2, <2>3, <3>1, <5>1, HitsConcat, HitsOne DEF Asking
                <5>3. call'[r] # "idle" /\ worker'[r] = "none"
                    BY <1>0, <1>1, <2>2, <4>1, <5>1 DEF TypeOK, Standing
                <5> QED
                    BY <2>2, <3>1, <5>1, <5>2, <5>3 DEF Asking
            <4>2. CASE r # c
                <5>1. f \notin Asks(r)
                    BY <2>1, <4>2 DEF Asks
                <5>2. call'[r] = call[r] /\ worker'[r] = worker[r]
                    BY <1>0, <1>1, <2>2, <4>2 DEF TypeOK, Standing
                <5> QED
                    BY <2>4, <2>5, <3>1, <5>1, <5>2, AskKept
            <4> QED
                BY <4>1, <4>2
        <3> QED
            BY <3>2, <3>3 DEF Job
    <2>7. f \notin Nobodys("Request")
        BY <2>1, <2>2 DEF Nobodys
    <2>8. Sound'
        BY <1>1, <2>4, <2>5, <2>7, SoundKept DEF JobInv
    <2> QED
        BY <2>6, <2>8 DEF JobInv
<1>4. CASE FlushPackets
    <2>1. /\ packets' = <<>> /\ UNCHANGED <<fromServer, call>>
          /\ toServer' = toServer \o packets \/ toServer' = toServer
        BY <1>4 DEF FlushPackets, Send, callVars
    <2>2. \A M : /\ Fewer(fromServer', fromServer, M) /\ Fewer(packets', packets, M)
                 /\ Hits(toServer', M) => Hits(toServer, M) \/ Hits(packets, M)
        <3> SUFFICES ASSUME NEW M
                     PROVE  /\ Fewer(fromServer', fromServer, M) /\ Fewer(packets', packets, M)
                            /\ Hits(toServer', M) => Hits(toServer, M) \/ Hits(packets, M)
            OBVIOUS
        <3>1. Fewer(fromServer, fromServer, M) /\ Fewer(<<>>, packets, M)
            BY <1>0, FewerFacts
        <3>2. Hits(toServer \o packets, M) => Hits(toServer, M) \/ Hits(packets, M)
            BY <1>0, HitsConcat
        <3> QED
            BY <2>1, <3>1, <3>2
    <2>3. ASSUME NEW r \in Requests PROVE Job(r)'
        <3>1. Asking(r) /\ Answering(r) /\ Watching(r)
            BY DEF JobInv, Job
        <3>2. Answering(r)' /\ Watching(r)'
            BY <1>1, <2>2, <3>1, StandingKeeps
        <3>3. /\ Once(toServer', Asks(r)) /\ Once(packets', Asks(r))
              /\ ~Hits(packets', Asks(r))
            <4>1. Once(toServer \o packets, Asks(r))
                BY <1>0, <3>1, HitsConcat DEF Asking
            <4>2. ~Hits(<<>>, Asks(r)) /\ Once(<<>>, Asks(r))
                BY HitsEmpty
            <4> QED
                BY <2>1, <3>1, <4>1, <4>2 DEF Asking
        <3>4. Asking(r)'
            BY <1>1, <2>1, <2>2, <3>1, <3>3 DEF Asking, Standing
        <3> QED
            BY <3>2, <3>4 DEF Job
    <2>4. Sound'
        <3>1. Fewer(toServer', toServer, Nobodys("Request"))
            <4>1. ~Hits(toServer', Nobodys("Request"))
                BY <2>2 DEF JobInv, Sound
            <4> QED
                BY <4>1 DEF Fewer, Hits, Once
        <3> QED
            BY <1>1, <2>2, <3>1, SoundKept DEF JobInv
    <2> QED
        BY <2>3, <2>4 DEF JobInv
<1>5. \/ Asksless \/ FlushPackets
      \/ \E c \in Call : HandleRequest(c)
    BY <1>0, CallMoves, PacketMoves, ProcessMoves DEF OfClient, ClientStep
<1> QED
    BY <1>2, <1>3, <1>4, <1>5

(* A step of the server that sends no response: *)
Answerless ==
    /\ \A M : (\A m \in M : m.op = "Response") => Fewer(fromServer', fromServer, M)
    /\ \A M : Fewer(toServer', toServer, M)
    /\ packets' = packets /\ call' = call

LEMMA QuietServer ==
    ASSUME TypeInv, JobInv, Standing, Answerless
    PROVE  JobInv'
<1>0. packets \in Seq(Msg) /\ \A M : Fewer(packets', packets, M)
    BY FewerFacts DEF TypeInv, TypeOK, Answerless
<1>1. ASSUME NEW r \in Requests PROVE Job(r)'
    <2>1. Asking(r) /\ Answering(r) /\ Watching(r)
        BY DEF JobInv, Job
    <2>2. Fewer(fromServer', fromServer, Responses(r))
        BY DEF Answerless, Responses
    <2>3. Asking(r)'
        BY <1>0, <2>1, AskKept DEF Answerless, Standing
    <2> QED
        BY <2>1, <2>2, <2>3, StandingKeeps DEF Job
<1>2. Fewer(fromServer', fromServer, Nobodys("Response"))
    BY DEF Answerless, Nobodys
<1>3. Sound'
    BY <1>0, <1>2, SoundKept DEF Answerless, JobInv
<1> QED
    BY <1>1, <1>3 DEF JobInv

LEMMA EndStands ==
    ASSUME TypeInv, NEW how \in {"closed", "crashed"}, End(how), worker' = worker, box' = box
    PROVE  Standing
BY DEF End, Standing, TypeInv, ServerTypeOK, Server

LEMMA SendsNoResponse ==
    ASSUME TypeOK, NEW m \in Msg, m.op # "Response", ServerSend(<<m>>),
           NEW M, \A n \in M : n.op = "Response"
    PROVE  Fewer(fromServer', fromServer, M)
<1>1. <<m>> \in Seq(Msg) /\ ~Hits(<<m>>, M)
    BY HitsOne
<1> QED
    BY <1>1, ServerSendFewer

LEMMA GoAwayIsQuiet ==
    ASSUME TypeInv, GoAway, worker' = worker, box' = box
    PROVE  /\ Standing
           /\ \A M : (\A m \in M : m.op = "Response") => Fewer(fromServer', fromServer, M)
<1>0. TypeOK /\ fromServer \in Seq(Msg)
    BY DEF TypeInv, TypeOK
<1>1. Standing
    BY EndStands DEF GoAway
<1>2. Plain("GoAway", 0) \in Msg /\ Plain("GoAway", 0).op = "GoAway"
    BY FramesBuilt, BoundAssumption DEF Plain, Frame
<1>3. CASE ServerSend(<<Plain("GoAway", 0)>>)
    BY <1>0, <1>1, <1>2, <1>3, SendsNoResponse
<1>4. CASE UNCHANGED fromServer
    BY <1>0, <1>1, <1>4, FewerFacts
<1> QED
    BY <1>3, <1>4 DEF GoAway

(* A request gets its worker. *)
Spawning(m) ==
    /\ srv.status = "up" /\ toServer # <<>> /\ m = Head(toServer) /\ toServer' = Tail(toServer)
    /\ m.op = "Request" /\ m.of \in Requests
    /\ worker' = [worker EXCEPT ![m.of] = "running"]
    /\ srv' = [srv EXCEPT !.refs = @ \cup {m}]
    /\ UNCHANGED <<packets, call, fromServer, link, box>>

(* Data of the socket. *)
LEMMA DataSteps ==
    ASSUME TypeInv, JobInv, ServerData
    PROVE  (Standing /\ Answerless) \/ \E m \in Msg : Spawning(m)
<1> DEFINE m == Head(toServer)
<1>0. /\ TypeOK /\ toServer \in Seq(Msg) /\ fromServer \in Seq(Msg) /\ toServer # <<>>
      /\ srv \in Server /\ box' = box /\ UNCHANGED <<clientVars, callVars>> /\ toServer' = Tail(toServer)
    BY DEF TypeInv, TypeOK, ServerTypeOK, ServerData
<1>1. m \in Msg /\ m.seq \in 0 .. MaxSequence
    <2>1. m \in Msg
        BY <1>0, QueueTypes
    <2> QED
        BY <2>1 DEF Msg
<1>2. \A M : Fewer(toServer', toServer, M) /\ Fewer(fromServer, fromServer, M)
    BY <1>0, FewerFacts
<1>3. ASSUME \A M : (\A n \in M : n.op = "Response") => Fewer(fromServer', fromServer, M)
      PROVE  Answerless
    BY <1>0, <1>2, <1>3 DEF Answerless, clientVars, callVars
<1>4. ASSUME NEW n \in Msg, n.op # "Response", ServerSend(<<n>>) PROVE Answerless
    BY <1>0, <1>3, <1>4, SendsNoResponse
<1>5. CASE HandleHello /\ UNCHANGED worker
    <2>1. CASE GoAway
        BY <1>0, <1>3, <1>5, <2>1, GoAwayIsQuiet
    <2>2. CASE ServerSend(<<Plain("HelloAck", 0)>>) /\ UNCHANGED <<srv, link>>
        <3>1. Plain("HelloAck", 0) \in Msg /\ Plain("HelloAck", 0).op = "HelloAck"
            BY FramesBuilt, BoundAssumption DEF Plain, Frame
        <3> QED
            BY <1>0, <1>4, <1>5, <2>2, <3>1 DEF Standing
    <2> QED
        BY <1>5, <2>1, <2>2 DEF HandleHello
<1>6. CASE ServerSend(<<Plain("Pong", m.seq)>>) /\ UNCHANGED <<srv, link, worker>>
    <2>1. Plain("Pong", m.seq) \in Msg /\ Plain("Pong", m.seq).op = "Pong"
        BY <1>1, FramesBuilt DEF Plain, Frame
    <2> QED
        BY <1>0, <1>4, <1>6, <2>1 DEF Standing
<1>7. CASE srv' = [srv EXCEPT !.ponged = TRUE] /\ UNCHANGED <<fromServer, link, worker>>
    BY <1>0, <1>2, <1>3, <1>7 DEF Standing, Server
<1>8. CASE End("crashed") /\ UNCHANGED <<fromServer, worker>>
    BY <1>0, <1>2, <1>3, <1>8, EndStands
<1>9. CASE UNCHANGED <<srv, fromServer, link, worker>>
    BY <1>0, <1>2, <1>3, <1>9 DEF Standing
<1> HIDE DEF m
<1>10. CASE m.op = "Request" /\ SpawnWorker(m) /\ UNCHANGED <<fromServer, link>>
    <2>1. m \notin Nobodys("Request")
        BY <1>0, HitsTail DEF JobInv, Sound, m
    <2>2. m.of \in Requests
        BY <1>1, <1>10, <2>1 DEF Nobodys
    <2>3. Spawning(m)
        BY <1>0, <1>10, <2>2 DEF Spawning, SpawnWorker, ServerData, clientVars, callVars, m
    <2> QED
        BY <1>1, <2>3
<1> QED
    BY <1>5, <1>6, <1>7, <1>8, <1>9, <1>10 DEF ServerData, m

LEMMA SpawnJob ==
    ASSUME TypeInv, JobInv, NEW m \in Msg, Spawning(m)
    PROVE  JobInv'
<1>0. /\ toServer \in Seq(Msg) /\ srv \in Server /\ box \in Seq(Mail)
      /\ worker \in [Requests -> {"none", "running", "returned", "gone"}]
    BY DEF TypeInv, TypeOK, ServerTypeOK
<1>1. \A M : /\ Hits(toServer, M) <=> m \in M \/ Hits(toServer', M)
             /\ Once(toServer, M) => Once(toServer', M)
             /\ Once(toServer, M) /\ m \in M => ~Hits(toServer', M)
    BY <1>0, HitsTail DEF Spawning
<1>2. /\ srv'.refs = srv.refs \cup {m} /\ srv'.answers = srv.answers /\ srv'.status = "up"
      /\ srv.status = "up"
    BY <1>0 DEF Spawning, Server
<1>3. PICK r \in Requests : r = m.of
    BY DEF Spawning
<1>4. Hits(toServer, Asks(r)) /\ m \in Asks(r)
    BY <1>1, <1>3 DEF Spawning, Asks
<1>5. worker[r] = "none" /\ ~Watched(r) /\ ~Hits(packets, Asks(r)) /\ call[r] # "idle"
    BY <1>2, <1>4 DEF JobInv, Job, Asking, Answering, Watching
<1>6. Job(r)'
    <2>1. Asking(r) /\ Answering(r) /\ Watching(r)
        BY DEF JobInv, Job
    <2>2. worker'[r] = "running"
        BY <1>0, <1>3 DEF Spawning
    <2>3. Asking(r)'
        BY <1>1, <1>4, <1>5, <2>1 DEF Asking, Spawning
    <2>4. Answering(r)'
        BY <1>2, <1>5, <2>1, <2>2 DEF Answering, Spawning
    <2>5. Watched(r)'
        BY <1>2, <1>3 DEF Watched
    <2>6. Watching(r)'
        BY <2>2, <2>5 DEF Watching
    <2> QED
        BY <2>3, <2>4, <2>6 DEF Job
<1>7. ASSUME NEW t \in Requests, t # r PROVE Job(t)'
    <2>1. Asking(t) /\ Answering(t) /\ Watching(t)
        BY DEF JobInv, Job
    <2>2. worker'[t] = worker[t]
        BY <1>0, <1>3, <1>7 DEF Spawning
    <2>3. Asking(t)'
        BY <1>1, <2>1, <2>2 DEF Asking, Spawning
    <2>4. Answering(t)'
        BY <1>2, <2>1, <2>2 DEF Answering, Spawning
    <2>5. Watched(t)' <=> Watched(t)
        BY <1>2, <1>3, <1>7 DEF Watched
    <2>6. Watching(t)'
        BY <1>2, <2>1, <2>2, <2>5 DEF Watching, Spawning
    <2> QED
        BY <2>3, <2>4, <2>6 DEF Job
<1>8. Sound'
    <2>1. \A n \in srv.refs : n.of # m.of
        BY <1>3, <1>5 DEF Watched
    <2>2. /\ \A n \in srv'.refs : n.op = "Request" /\ n.of \in Requests
          /\ \A n, o \in srv'.refs : n.of = o.of => n = o
        BY <1>2, <2>1 DEF Spawning, JobInv, Sound
    <2>3. /\ ~Hits(packets', Nobodys("Request")) /\ ~Hits(toServer', Nobodys("Request"))
          /\ ~Hits(fromServer', Nobodys("Response")) /\ ~Hits(box', Odd) /\ link' # "closed"
        BY <1>1, <1>2 DEF Spawning, JobInv, Sound
    <2>4. \A s \in Requests : \A x \in Down(s) : Hits(box', {x}) => x.request \in srv'.refs
        BY <1>2 DEF Spawning, JobInv, Sound
    <2> QED
        BY <2>2, <2>3, <2>4 DEF Sound
<1> QED
    BY <1>6, <1>7, <1>8 DEF JobInv

(* Steps of the process that leave its books alone. *)
LEMMA PingSteps ==
    ASSUME TypeInv, ServerPing \/ ServerTcpClosed \/ LinkFails \/ ReplyRaises
    PROVE  Standing /\ Answerless
<1>0. /\ TypeOK /\ toServer \in Seq(Msg) /\ fromServer \in Seq(Msg) /\ srv \in Server
      /\ UNCHANGED <<packets, call, toServer, worker, box>>
    BY DEF TypeInv, TypeOK, ServerTypeOK, ServerPing, ServerTcpClosed, LinkFails, ReplyRaises, clientVars,
           callVars, serverVars
<1>1. \A M : Fewer(toServer', toServer, M) /\ Fewer(fromServer, fromServer, M)
    BY <1>0, FewerFacts
<1>2. ASSUME \A M : (\A n \in M : n.op = "Response") => Fewer(fromServer', fromServer, M)
      PROVE  Answerless
    BY <1>0, <1>1, <1>2 DEF Answerless
<1>3. CASE ServerPing
    <2>1. CASE GoAway
        BY <1>0, <1>2, <2>1, GoAwayIsQuiet
    <2>2. CASE /\ ServerSend(<<Plain("Ping", IF srv.seq >= MaxSequence THEN 1 ELSE srv.seq)>>)
               /\ srv' = [srv EXCEPT !.ponged = FALSE, !.seq = IF @ >= MaxSequence THEN 2 ELSE @ + 1]
               /\ UNCHANGED link
        <3> DEFINE n == Plain("Ping", IF srv.seq >= MaxSequence THEN 1 ELSE srv.seq)
        <3>1. (IF srv.seq >= MaxSequence THEN 1 ELSE srv.seq) \in 0 .. MaxSequence
            BY <1>0, BoundAssumption DEF Server
        <3>2. n \in Msg /\ n.op = "Ping"
            BY <3>1, FramesBuilt DEF Plain, Frame
        <3>3. ServerSend(<<n>>)
            BY <2>2
        <3> HIDE DEF n
        <3>4. Answerless
            BY <1>0, <1>2, <3>2, <3>3, SendsNoResponse
        <3>5. Standing
            BY <1>0, <2>2 DEF Standing, Server
        <3> QED
            BY <3>4, <3>5
    <2> QED
        BY <1>3, <2>1, <2>2 DEF ServerPing
<1>4. CASE ServerTcpClosed
    <2>1. Standing
        BY <1>0, <1>4, EndStands DEF ServerTcpClosed
    <2> QED
        BY <1>1, <1>2, <1>4, <2>1 DEF ServerTcpClosed
<1>5. CASE LinkFails
    <2>1. Standing
        BY <1>0, <1>5 DEF LinkFails, Standing, serverVars
    <2> QED
        BY <1>1, <1>2, <1>5, <2>1 DEF LinkFails
<1>6. CASE ReplyRaises
    <2>1. Standing
        BY <1>0, <1>6, EndStands DEF ReplyRaises
    <2> QED
        BY <1>1, <1>2, <1>6, <2>1 DEF ReplyRaises
<1> QED
    BY <1>3, <1>4, <1>5, <1>6

(* A worker says something, or goes: its mail x, if the process is there to    *)
(* get it.                                                                   *)
Posting(r, to, x) ==
    /\ worker' = [worker EXCEPT ![r] = to]
    /\ srv.status = "up" => x.request \in srv.refs /\ box' = Append(box, x)
    /\ srv.status # "up" => box' = box
    /\ x.request.of = r
    /\ UNCHANGED <<clientVars, callVars, netVars, srv>>

LEMMA WorkerSteps ==
    ASSUME TypeInv, JobInv, NEW r \in Requests, WorkerStep(r)
    PROVE  \E x \in Mail :
              \/ /\ worker[r] = "running" /\ x.kind \in {"response", "goAway"}
                 /\ Posting(r, "returned", x)
              \/ /\ x.kind = "normal" /\ worker[r] \in {"running", "returned"}
                 /\ Posting(r, "gone", x)
              \/ /\ x.kind = "crash" /\ worker[r] = "running"
                 /\ Posting(r, "gone", x)
<1>0. worker[r] \in {"running", "returned"} /\ UNCHANGED <<clientVars, callVars, netVars, srv>>
    BY DEF WorkerStep, WorkerReturns, WorkerExits
<1>1. srv.status = "up" => Watched(r)
    BY <1>0 DEF JobInv, Job, Watching
<1>2. srv.refs \subseteq Msg /\ r \in Call
    BY DEF TypeInv, ServerTypeOK, Server, Call
<1>3. ASSUME NEW kind \in {"response", "goAway", "normal", "crash"}, Post(r, kind),
             NEW to, worker' = [worker EXCEPT ![r] = to]
      PROVE  \E x \in Mail : x.kind = kind /\ Posting(r, to, x)
    <2>1. CASE srv.status = "up"
        <3>1. PICK m \in srv.refs, odd \in BOOLEAN :
                  m.of = r /\ box' = Append(box, [kind |-> kind, request |-> m, odd |-> odd])
            BY <1>1, <1>3, <2>1, PostType
        <3>2. [kind |-> kind, request |-> m, odd |-> odd] \in Mail
            BY <1>2, <3>1 DEF Mail
        <3> QED
            BY <1>0, <1>3, <2>1, <3>1, <3>2 DEF Posting
    <2>2. CASE srv.status # "up"
        <3>1. box' = box
            BY <1>1, <1>3, <2>2, PostType
        <3> DEFINE m == Frame("Request", 0, r)
        <3>2. m \in Msg /\ m.of = r
            BY <1>2, FramesBuilt, BoundAssumption DEF Frame
        <3> HIDE DEF m
        <3>3. [kind |-> kind, request |-> m, odd |-> FALSE] \in Mail
            BY <3>2 DEF Mail
        <3> QED
            BY <1>0, <1>3, <2>2, <3>1, <3>2, <3>3 DEF Posting
    <2> QED
        BY <2>1, <2>2
<1>4. CASE WorkerReturns(r)
    <2>1. PICK kind \in {"response", "goAway"} : Post(r, kind)
        BY <1>4 DEF WorkerReturns
    <2>2. worker[r] = "running" /\ worker' = [worker EXCEPT ![r] = "returned"]
        BY <1>4 DEF WorkerReturns
    <2> QED
        BY <1>3, <2>1, <2>2
<1>5. CASE WorkerExits(r)
    <2>1. worker' = [worker EXCEPT ![r] = "gone"]
        BY <1>5 DEF WorkerExits
    <2>2. \/ Post(r, "normal")
          \/ worker[r] = "running" /\ Post(r, "crash")
        BY <1>5 DEF WorkerExits
    <2>3. CASE Post(r, "normal")
        BY <1>0, <1>3, <2>1, <2>3
    <2>4. CASE worker[r] = "running" /\ Post(r, "crash")
        BY <1>3, <2>1, <2>4
    <2> QED
        BY <2>2, <2>3, <2>4
<1> QED
    BY <1>4, <1>5 DEF WorkerStep

LEMMA MailKinds ==
    ASSUME NEW x \in Mail, NEW r
    PROVE  /\ x \in Said(r) <=> x.kind \in {"response", "goAway"} /\ x.request.of = r
           /\ x \in Crash(r) <=> x.kind = "crash" /\ x.request.of = r
           /\ x \in Down(r) <=> x.kind \in {"normal", "crash"} /\ x.request.of = r
           /\ x \in Odd <=> x.request.op # "Request" \/ x.request.of \notin Requests
BY DEF Said, Crash, Down, Odd

LEMMA WorkerJob ==
    ASSUME TypeInv, JobInv, NEW r \in Requests, WorkerStep(r)
    PROVE  JobInv'
<1>1. PICK x \in Mail :
        \/ worker[r] = "running" /\ x.kind \in {"response", "goAway"} /\ Posting(r, "returned", x)
        \/ x.kind = "normal" /\ worker[r] \in {"running", "returned"} /\ Posting(r, "gone", x)
        \/ x.kind = "crash" /\ worker[r] = "running" /\ Posting(r, "gone", x)
    BY WorkerSteps
<1>2. PICK to \in {"returned", "gone"} :
        /\ Posting(r, to, x)
        /\ worker[r] = "running" \/ (worker[r] = "returned" /\ x.kind = "normal")
        /\ to = "returned" <=> x.kind \in {"response", "goAway"}
        /\ to = "gone" <=> x.kind \in {"normal", "crash"}
    BY <1>1
<1>0. /\ worker \in [Requests -> {"none", "running", "returned", "gone"}] /\ box \in Seq(Mail)
      /\ srv \in Server
    BY DEF TypeInv, ServerTypeOK
<1>3. UNCHANGED <<packets, toServer, fromServer, call, srv, link>>
    BY <1>2 DEF Posting, clientVars, callVars, netVars
<1>4. \A M : /\ Hits(box', M) => Hits(box, M) \/ x \in M
             /\ Hits(box, M) => Hits(box', M)
             /\ srv.status = "up" /\ x \in M => Hits(box', M)
             /\ Once(box, M) /\ ~(Hits(box, M) /\ x \in M) => Once(box', M)
    <2> SUFFICES ASSUME NEW M
                 PROVE  /\ Hits(box', M) => Hits(box, M) \/ x \in M
                        /\ Hits(box, M) => Hits(box', M)
                        /\ srv.status = "up" /\ x \in M => Hits(box', M)
                        /\ Once(box, M) /\ ~(Hits(box, M) /\ x \in M) => Once(box', M)
        OBVIOUS
    <2>1. CASE srv.status = "up"
        <3>1. box' = Append(box, x)
            BY <1>2, <2>1 DEF Posting
        <3>2. /\ Hits(Append(box, x), M) <=> Hits(box, M) \/ x \in M
              /\ Once(box, M) /\ ~(Hits(box, M) /\ x \in M) => Once(Append(box, x), M)
            BY <1>0, HitsAppend
        <3> QED
            BY <3>1, <3>2
    <2>2. CASE srv.status # "up"
        BY <1>2, <2>2 DEF Posting
    <2> QED
        BY <2>1, <2>2
<1>5. x.request.of = r
    BY <1>2 DEF Posting
<1>6. Job(r)'
    <2>1. Asking(r) /\ Answering(r) /\ Watching(r)
        BY DEF JobInv, Job
    <2>2. worker'[r] = to
        BY <1>0, <1>2 DEF Posting
    <2>3. Asking(r)'
        BY <1>2, <1>3, <2>1, <2>2 DEF Asking
    <2>4. Answering(r)'
        <3>1. CASE x.kind \in {"response", "goAway"}
            <4>1. /\ x \in Said(r) /\ x \notin Down(r) /\ x \notin Crash(r) /\ worker[r] = "running"
                  /\ to = "returned"
                BY <1>2, <1>5, <3>1, MailKinds
            <4>2. ~Hits(box, Down(r)) /\ ~Hits(box, Said(r)) /\ srv.answers[r] = 0
                BY <2>1, <4>1 DEF Answering
            <4>3. ~Hits(box, Crash(r))
                BY <4>2 DEF Hits, Down, Crash
            <4>4. /\ ~Hits(box', Down(r)) /\ ~Hits(box', Crash(r)) /\ Once(box', Said(r))
                  /\ Once(box', Down(r))
                BY <1>4, <2>1, <4>1, <4>2, <4>3 DEF Answering
            <4> QED
                BY <1>3, <2>1, <2>2, <4>1, <4>2, <4>4 DEF Answering
        <3>2. CASE x.kind \in {"normal", "crash"}
            <4>1. x \in Down(r) /\ x \notin Said(r) /\ to = "gone"
                BY <1>2, <1>5, <3>2, MailKinds
            <4>2. ~Hits(box, Down(r))
                BY <1>2, <2>1 DEF Answering
            <4>3. /\ Once(box', Down(r)) /\ Once(box', Said(r))
                  /\ Hits(box', Said(r)) => Hits(box, Said(r))
                BY <1>4, <2>1, <4>1, <4>2 DEF Answering
            <4>4. Hits(box', Crash(r)) => worker[r] = "running"
                <5>1. ~Hits(box, Crash(r))
                    BY <4>2 DEF Hits, Down, Crash
                <5> QED
                    BY <1>2, <1>4, <5>1, MailKinds
            <4> QED
                BY <1>3, <2>1, <2>2, <4>1, <4>3, <4>4 DEF Answering
        <3> QED
            BY <1>2, <3>1, <3>2
    <2>5. Watching(r)'
        <3>1. Watched(r)' <=> Watched(r)
            BY <1>3 DEF Watched
        <3> QED
            BY <1>2, <1>3, <1>4, <1>5, <2>1, <2>2, <3>1, MailKinds DEF Watching
    <2> QED
        BY <2>3, <2>4, <2>5 DEF Job
<1>7. ASSUME NEW t \in Requests, t # r PROVE Job(t)'
    <2>1. Asking(t) /\ Answering(t) /\ Watching(t)
        BY DEF JobInv, Job
    <2>2. worker'[t] = worker[t]
        BY <1>0, <1>2, <1>7 DEF Posting
    <2>3. x \notin Said(t) /\ x \notin Down(t) /\ x \notin Crash(t)
        BY <1>5, <1>7, MailKinds
    <2>4. Fewer(box', box, Said(t)) /\ Fewer(box', box, Down(t)) /\ Fewer(box', box, Crash(t))
        BY <1>4, <2>3 DEF Fewer
    <2>5. Fewer(fromServer', fromServer, Responses(t)) /\ srv'.answers[t] = srv.answers[t]
        BY <1>3 DEF Fewer
    <2>6. Asking(t)'
        BY <1>3, <2>1, <2>2 DEF Asking
    <2>7. Answering(t)'
        BY <2>1, <2>2, <2>4, <2>5, AnswerKept
    <2>8. Hits(box', Down(t)) <=> Hits(box, Down(t))
        BY <1>4, <2>3
    <2>9. Watched(t)' <=> Watched(t)
        BY <1>3 DEF Watched
    <2>10. Watching(t)'
        BY <1>3, <2>1, <2>2, <2>8, <2>9, WatchKept
    <2> QED
        BY <2>6, <2>7, <2>10 DEF Job
<1>8. Sound'
    <2>1. ASSUME srv.status = "up", NEW s \in Requests, NEW y \in Down(s), Hits(box', {y})
          PROVE  y.request \in srv.refs
        <3>1. Hits(box, {y}) \/ x \in {y}
            BY <1>4, <2>1
        <3> QED
            BY <1>2, <2>1, <3>1 DEF Posting, JobInv, Sound
    <2>2. ~Hits(box', Odd)
        <3>1. CASE srv.status = "up"
            <4>1. x.request.op = "Request" /\ x.request.of \in Requests
                BY <1>2, <3>1 DEF Posting, JobInv, Sound
            <4> QED
                BY <1>4, <4>1, MailKinds DEF JobInv, Sound
        <3>2. CASE srv.status # "up"
            BY <1>2, <3>2 DEF Posting, JobInv, Sound
        <3> QED
            BY <3>1, <3>2
    <2> QED
        BY <1>3, <2>1, <2>2 DEF JobInv, Sound
<1> QED
    BY <1>6, <1>7, <1>8 DEF JobInv

(* The responses in the mailbox are sent. *)
LEMMA ResponsesJob ==
    ASSUME TypeInv, JobInv, ServerResponses
    PROVE  JobInv'
<1>0. /\ srv \in Server /\ box \in Seq(Mail) /\ fromServer \in Seq(Msg) /\ TypeOK /\ ServerTypeOK
      /\ DOMAIN box = 1 .. Len(box) /\ \A i \in 1 .. Len(box) : box[i] \in Mail
    BY DEF TypeInv, TypeOK, ServerTypeOK
<1>1. PICK frames \in Seq(Msg) :
        /\ ServerSend(frames) /\ srv' = [srv EXCEPT !.answers = Answered(frames)]
        /\ Carry(frames)
    BY ResponsesFacts
<1>2. /\ srv'.answers \in [Requests -> Nat] /\ srv'.refs = srv.refs /\ srv'.status = srv.status
      /\ \A r \in Requests : srv'.answers[r] = srv.answers[r] + Count(frames, r)
      /\ UNCHANGED <<packets, toServer, call, link, worker>>
    <2>1. srv'.answers = Answered(frames) /\ srv'.refs = srv.refs /\ srv'.status = srv.status
        BY <1>0, <1>1 DEF Server
    <2>2. UNCHANGED <<packets, toServer, call, link, worker>>
        BY DEF ServerResponses, clientVars, callVars
    <2> QED
        BY <1>0, <2>1, <2>2, AnsweredType
<1>3. /\ fromServer' = fromServer \o frames \/ fromServer' = fromServer
    BY <1>1 DEF ServerSend
<1>4. Left(box')
    BY ResponsesFacts
<1>5. \A M : Hits(box', M) => Hits(box, M)
    <2> SUFFICES ASSUME NEW M, Hits(box', M) PROVE Hits(box, M)
        OBVIOUS
    <2>1. PICK i \in DOMAIN box \ Due : box[i] \in M
        BY <1>4 DEF Left
    <2> QED
        BY <1>0, <2>1 DEF Hits
<1>6. ASSUME NEW i \in DOMAIN box, NEW r
      PROVE  /\ box[i] \in Down(r) => i \notin Due
             /\ box[i] \in Said(r) => i \in Due
    BY DEF Due, Said, Down
<1>7. ASSUME NEW r \in Requests PROVE Job(r)'
    <2>1. Asking(r) /\ Answering(r) /\ Watching(r)
        BY DEF JobInv, Job
    <2>2. /\ ~Hits(box', Said(r)) /\ Once(box', Said(r)) /\ Once(box', Down(r))
          /\ Hits(box', Down(r)) <=> Hits(box, Down(r))
        <3>1. ~Hits(box', Said(r))
            BY <1>4, <1>6 DEF Left
        <3>2. Once(box', Said(r)) /\ Once(box', Down(r))
            BY <1>4, <2>1 DEF Left, Answering
        <3>3. Hits(box, Down(r)) => Hits(box', Down(r))
            BY <1>0, <1>4, <1>6 DEF Left, Hits
        <3> QED
            BY <1>5, <3>1, <3>2, <3>3
    <2>3. ASSUME NEW i \in Due, FrameOf(box[i]) \in Of(r) PROVE box[i] \in Said(r)
        <3>1. box[i] \in Mail /\ box[i].kind \in {"response", "goAway"}
            BY <1>0 DEF Due
        <3>2. CASE box[i].kind = "goAway"
            <4>1. FrameOf(box[i]).of = None
                BY <3>2 DEF FrameOf, Plain, Frame
            <4> QED
                BY <2>3, <4>1, CallAssumption DEF Of
        <3>3. CASE box[i].kind # "goAway"
            <4>1. FrameOf(box[i]).of = box[i].request.of
                BY <3>1, <3>3 DEF FrameOf, Mail, Msg
            <4> QED
                BY <2>3, <3>1, <4>1 DEF Of, Said
        <3> QED
            BY <3>2, <3>3
    <2>4. (Hits(frames, Of(r)) => Hits(box, Said(r))) /\ Once(frames, Of(r))
        BY <1>1, <2>1, <2>3 DEF Carry, Answering
    <2>5. /\ Hits(frames, Of(r)) => Count(frames, r) = 1
          /\ ~Hits(frames, Of(r)) => Count(frames, r) = 0
        BY <2>4, CountFacts
    <2>6. Hits(frames, Responses(r)) => Hits(frames, Of(r))
        BY DEF Hits, Responses, Of
    <2>7. Once(frames, Responses(r))
        BY <2>4 DEF Once, Responses, Of
    <2>8. srv.answers[r] \in Nat
        BY <1>0 DEF Server
    <2>9. /\ Once(fromServer', Responses(r))
          /\ Hits(fromServer', Responses(r)) => srv'.answers[r] = 1
        <3>1. CASE fromServer' = fromServer
            <4>1. Hits(fromServer, Responses(r)) => srv.answers[r] = 1 /\ ~Hits(frames, Of(r))
                BY <2>1, <2>4 DEF Answering
            <4> QED
                BY <1>2, <2>1, <2>5, <3>1, <4>1 DEF Answering
        <3>2. CASE fromServer' = fromServer \o frames
            <4>1. /\ Hits(fromServer \o frames, Responses(r)) <=>
                        Hits(fromServer, Responses(r)) \/ Hits(frames, Responses(r))
                  /\ /\ Once(fromServer, Responses(r)) /\ Once(frames, Responses(r))
                     /\ ~(Hits(fromServer, Responses(r)) /\ Hits(frames, Responses(r)))
                     => Once(fromServer \o frames, Responses(r))
                BY <1>0, HitsConcat
            <4>2. ~(Hits(fromServer, Responses(r)) /\ Hits(frames, Of(r)))
                BY <2>1, <2>4 DEF Answering
            <4>3. Once(fromServer', Responses(r))
                BY <2>1, <2>6, <2>7, <3>2, <4>1, <4>2 DEF Answering
            <4>4. ASSUME Hits(fromServer', Responses(r)) PROVE srv'.answers[r] = 1
                <5>1. CASE Hits(frames, Of(r))
                    <6>1. srv.answers[r] = 0 /\ Count(frames, r) = 1
                        BY <2>1, <2>4, <2>5, <5>1 DEF Answering
                    <6> QED
                        BY <1>2, <6>1
                <5>2. CASE ~Hits(frames, Of(r))
                    <6>1. srv.answers[r] = 1 /\ Count(frames, r) = 0
                        BY <2>1, <2>5, <2>6, <3>2, <4>1, <4>4, <5>2 DEF Answering
                    <6> QED
                        BY <1>2, <6>1
                <5> QED
                    BY <5>1, <5>2
            <4> QED
                BY <4>3, <4>4
        <3> QED
            BY <1>3, <3>1, <3>2
    <2>10. /\ srv'.answers[r] <= 1
           /\ ~Hits(box, Said(r)) => srv'.answers[r] = srv.answers[r]
        <3>1. CASE Hits(box, Said(r))
            <4>1. srv.answers[r] = 0 /\ Count(frames, r) \in {0, 1}
                BY <2>1, <2>5, <3>1 DEF Answering
            <4> QED
                BY <1>2, <3>1, <4>1
        <3>2. CASE ~Hits(box, Said(r))
            <4>1. Count(frames, r) = 0 /\ srv.answers[r] <= 1
                BY <2>1, <2>4, <2>5, <3>2 DEF Answering
            <4> QED
                BY <1>2, <2>8, <4>1
        <3> QED
            BY <3>1, <3>2
    <2>11. Answering(r)'
        <3>1. Hits(box', Crash(r)) => Hits(box, Crash(r))
            BY <1>5
        <3>2. Hits(box, Crash(r)) => ~Hits(box, Said(r))
            BY <2>1 DEF Answering
        <3>3. worker'[r] = worker[r]
            BY <1>2
        <3>4. worker[r] \in {"none", "running"} => ~Hits(box, Said(r)) /\ srv.answers[r] = 0
            BY <2>1 DEF Answering
        <3> QED
            BY <2>1, <2>2, <2>9, <2>10, <3>1, <3>2, <3>3, <3>4 DEF Answering
    <2>12. Asking(r)'
        BY <1>2, <2>1 DEF Asking
    <2>13. Watched(r)' <=> Watched(r)
        BY <1>2 DEF Watched
    <2>14. Watching(r)'
        BY <1>2, <2>1, <2>2, <2>13, WatchKept
    <2> QED
        BY <2>11, <2>12, <2>14 DEF Job
<1>8. Sound'
    <2>1. ~Hits(frames, Nobodys("Response"))
        <3>1. ASSUME NEW i \in Due, FrameOf(box[i]) \in Nobodys("Response") PROVE box[i] \in Odd
            <4>1. box[i] \in Mail /\ box[i].kind \in {"response", "goAway"}
                BY <1>0 DEF Due
            <4>2. box[i].kind # "goAway"
                BY <3>1 DEF FrameOf, Plain, Frame, Nobodys
            <4>3. FrameOf(box[i]).of = box[i].request.of
                BY <4>1, <4>2 DEF FrameOf, Mail, Msg
            <4> QED
                BY <3>1, <4>1, <4>3 DEF Odd, Nobodys
        <3> QED
            BY <1>1, <3>1 DEF Carry, JobInv, Sound
    <2>2. ~Hits(fromServer', Nobodys("Response"))
        BY <1>1, <1>0, <2>1, ServerSendFewer DEF JobInv, Sound, Fewer
    <2> QED
        BY <1>2, <1>5, <2>2 DEF JobInv, Sound
<1> QED
    BY <1>7, <1>8 DEF JobInv

(* A worker has gone; the process answers for it if it crashed. *)
LEMMA DownJob ==
    ASSUME TypeInv, JobInv, ServerDown
    PROVE  JobInv'
<1>0. /\ srv \in Server /\ box \in Seq(Mail) /\ fromServer \in Seq(Msg) /\ TypeOK /\ ServerTypeOK
      /\ box # <<>> /\ srv.status = "up" /\ box' = Tail(box)
    BY DEF TypeInv, TypeOK, ServerTypeOK, ServerDown
<1>1. PICK x \in Mail : x = Head(box) /\ x.kind \in {"normal", "crash"}
    BY <1>0, QueueTypes DEF ServerDown
<1>2. PICK m \in Msg : m = x.request
    BY DEF Mail
<1>3. \A M : /\ Hits(box, M) <=> x \in M \/ Hits(box', M)
             /\ Once(box, M) => Once(box', M)
             /\ Once(box, M) /\ x \in M => ~Hits(box', M)
    BY <1>0, <1>1, HitsTail
<1>4. m.op = "Request" /\ m.of \in Requests /\ m \in srv.refs
    <2>1. x \notin Odd
        BY <1>3 DEF JobInv, Sound
    <2>2. m.op = "Request" /\ m.of \in Requests
        BY <1>2, <2>1, MailKinds
    <2>3. x \in Down(m.of) /\ Hits(box, {x})
        BY <1>1, <1>2, <1>3, MailKinds
    <2> QED
        BY <1>0, <1>2, <2>2, <2>3 DEF JobInv, Sound
<1>5. PICK r \in Requests : r = m.of
    BY <1>4
<1> DEFINE errors == IF x.kind = "crash" THEN <<[m EXCEPT !.op = "Error"]>> ELSE <<>>
<1>6. ServerSend(errors) /\ srv' = [srv EXCEPT !.refs = @ \ {m}, !.answers = Answered(errors)]
    <2>1. errors = IF Head(box).kind = "crash" /\ Head(box).request \in srv.refs
                   THEN <<[Head(box).request EXCEPT !.op = "Error"]>> ELSE <<>>
        BY <1>1, <1>2, <1>4
    <2> QED
        BY <1>1, <1>2, <2>1 DEF ServerDown
<1>7. /\ errors \in Seq(Msg)
      /\ x.kind = "normal" => errors = <<>>
      /\ x.kind = "crash" => \E e \in Msg : errors = <<e>> /\ e.op = "Error" /\ e.of = r
    <2>1. [m EXCEPT !.op = "Error"] \in Msg /\ [m EXCEPT !.op = "Error"].op = "Error"
          /\ [m EXCEPT !.op = "Error"].of = r
        BY <1>5 DEF Msg
    <2> QED
        BY <1>1, <2>1, QueueTypes
<1> HIDE DEF errors
<1>8. /\ srv'.refs = srv.refs \ {m} /\ srv'.status = "up"
      /\ \A t \in Requests : srv'.answers[t] = srv.answers[t] + Count(errors, t)
      /\ UNCHANGED <<packets, toServer, call, link, worker>>
    <2>1. srv'.answers = Answered(errors) /\ srv'.refs = srv.refs \ {m} /\ srv'.status = "up"
        BY <1>0, <1>6 DEF Server
    <2>2. UNCHANGED <<packets, toServer, call, link, worker>>
        BY DEF ServerDown, clientVars, callVars
    <2> QED
        BY <1>0, <1>7, <2>1, <2>2, AnsweredType
<1>9. \A M : (\A n \in M : n.op = "Response") => Fewer(fromServer', fromServer, M)
    <2> SUFFICES ASSUME NEW M, \A n \in M : n.op = "Response" PROVE ~Hits(errors, M)
        BY <1>0, <1>6, <1>7, ServerSendFewer
    <2> QED
        BY <1>1, <1>7, HitsOne, HitsEmpty
<1>10. ASSUME NEW t \in Requests
       PROVE  /\ srv.answers[t] \in Nat
              /\ t # r \/ x.kind = "normal" => srv'.answers[t] = srv.answers[t]
              /\ t = r /\ x.kind = "crash" => srv'.answers[t] = srv.answers[t] + 1
    <2>1. srv.answers[t] \in Nat
        BY <1>0 DEF Server
    <2>2. ASSUME t # r \/ x.kind = "normal" PROVE Count(errors, t) = 0
        <3>1. ~Hits(errors, Of(t))
            BY <1>1, <1>7, <2>2, HitsOne, HitsEmpty DEF Of
        <3> QED
            BY <1>7, <3>1, CountFacts
    <2>3. ASSUME t = r, x.kind = "crash" PROVE Count(errors, t) = 1
        <3>1. Hits(errors, Of(t)) /\ Once(errors, Of(t))
            BY <1>7, <2>3, HitsOne DEF Of
        <3> QED
            BY <1>7, <3>1, CountFacts
    <2> QED
        BY <1>8, <2>1, <2>2, <2>3
<1>11. Job(r)'
    <2>1. Asking(r) /\ Answering(r) /\ Watching(r)
        BY DEF JobInv, Job
    <2>2. x \in Down(r) /\ (x \in Crash(r) <=> x.kind = "crash") /\ x \notin Said(r)
        BY <1>1, <1>2, <1>5, MailKinds
    <2>3. ~Hits(box', Down(r)) /\ Once(box', Down(r)) /\ worker[r] = "gone"
        BY <1>3, <2>1, <2>2 DEF Answering
    <2>4. ~Hits(box', Crash(r))
        BY <2>3 DEF Hits, Down, Crash
    <2>5. Once(box', Said(r)) /\ (Hits(box', Said(r)) => Hits(box, Said(r)))
        BY <1>3, <2>1 DEF Answering
    <2>6. Fewer(fromServer', fromServer, Responses(r))
        BY <1>9 DEF Responses
    <2>7. x.kind = "crash" => srv.answers[r] = 0 /\ ~Hits(box, Said(r))
        BY <1>3, <2>1, <2>2 DEF Answering
    <2>8. x.kind = "crash" => srv'.answers[r] = 1
        BY <1>10, <2>7
    <2>9. x.kind = "normal" => srv'.answers[r] = srv.answers[r]
        BY <1>10
    <2>10. Answering(r)'
        <3>1. worker'[r] = "gone"
            BY <1>8, <2>3
        <3>2. /\ srv'.answers[r] <= 1
              /\ Hits(box', Said(r)) => srv'.answers[r] = 0
            BY <1>1, <2>1, <2>5, <2>7, <2>8, <2>9 DEF Answering
        <3>3. /\ Once(fromServer', Responses(r))
              /\ Hits(fromServer', Responses(r)) => srv'.answers[r] = 1
            BY <1>1, <2>1, <2>6, <2>7, <2>8, <2>9 DEF Answering, Fewer
        <3> QED
            BY <2>3, <2>4, <2>5, <3>1, <3>2, <3>3 DEF Answering
    <2>11. Asking(r)'
        BY <1>8, <2>1 DEF Asking
    <2>12. ~Watched(r)'
        BY <1>4, <1>5, <1>8 DEF Watched, JobInv, Sound
    <2>13. Watching(r)'
        BY <1>8, <2>3, <2>12 DEF Watching
    <2> QED
        BY <2>10, <2>11, <2>13 DEF Job
<1>12. ASSUME NEW t \in Requests, t # r PROVE Job(t)'
    <2>1. Asking(t) /\ Answering(t) /\ Watching(t)
        BY DEF JobInv, Job
    <2>2. x \notin Said(t) /\ x \notin Down(t) /\ x \notin Crash(t)
        BY <1>2, <1>5, <1>12, MailKinds
    <2>3. /\ Fewer(box', box, Said(t)) /\ Fewer(box', box, Down(t)) /\ Fewer(box', box, Crash(t))
          /\ Hits(box', Down(t)) <=> Hits(box, Down(t))
        BY <1>3, <2>2 DEF Fewer
    <2>4. Fewer(fromServer', fromServer, Responses(t)) /\ srv'.answers[t] = srv.answers[t]
        BY <1>9, <1>10, <1>12 DEF Responses
    <2>5. worker'[t] = worker[t]
        BY <1>8
    <2>6. Answering(t)'
        BY <2>1, <2>3, <2>4, <2>5, AnswerKept
    <2>7. Asking(t)'
        BY <1>8, <2>1 DEF Asking
    <2>8. Watched(t)' <=> Watched(t)
        BY <1>5, <1>8, <1>12 DEF Watched
    <2>9. Watching(t)'
        BY <1>0, <2>1, <2>3, <2>5, <2>8, WatchKept
    <2> QED
        BY <2>6, <2>7, <2>9 DEF Job
<1>13. Sound'
    <2>1. Fewer(fromServer', fromServer, Nobodys("Response"))
        BY <1>9 DEF Nobodys
    <2>2. ASSUME NEW t \in Requests, NEW y \in Down(t), Hits(box', {y}) PROVE y.request \in srv'.refs
        <3>1. Hits(box, {y})
            BY <1>3, <2>2
        <3>2. y.request \in srv.refs
            BY <1>0, <2>2, <3>1 DEF JobInv, Sound
        <3>3. y.request # m
            <4> SUFFICES ASSUME y.request = m PROVE FALSE
                OBVIOUS
            <4>1. t = r /\ x \in Down(r)
                BY <1>1, <1>2, <1>5, <2>2, MailKinds DEF Down
            <4>2. ~Hits(box', Down(r))
                BY <1>3, <4>1 DEF JobInv, Job, Answering
            <4> QED
                BY <2>2, <4>1, <4>2 DEF Hits
        <3> QED
            BY <1>8, <3>2, <3>3
    <2>3. ~Hits(box', Odd)
        BY <1>3 DEF JobInv, Sound
    <2>4. /\ \A n \in srv'.refs : n.op = "Request" /\ n.of \in Requests
          /\ \A n, o \in srv'.refs : n.of = o.of => n = o
        BY <1>8 DEF JobInv, Sound
    <2>5. /\ ~Hits(packets', Nobodys("Request")) /\ ~Hits(toServer', Nobodys("Request"))
          /\ ~Hits(fromServer', Nobodys("Response")) /\ link' # "closed"
        BY <1>0, <1>8, <2>1 DEF JobInv, Sound, Fewer
    <2> QED
        BY <2>2, <2>3, <2>4, <2>5 DEF Sound
<1> QED
    BY <1>11, <1>12, <1>13 DEF JobInv

LEMMA InitJob == Init => JobInv
<1> SUFFICES ASSUME Init PROVE JobInv
    OBVIOUS
<1>1. /\ packets = <<>> /\ toServer = <<>> /\ fromServer = <<>> /\ box = <<>> /\ link = "up"
      /\ srv.refs = {} /\ srv.answers = [r \in Requests |-> 0]
      /\ worker = [r \in Requests |-> "none"] /\ call = [c \in Call |-> "idle"]
    BY DEF Init, ClientInit
<1>2. Sound
    BY <1>1, HitsEmpty DEF Sound
<1>3. ASSUME NEW r \in Requests PROVE Job(r)
    <2>1. worker[r] = "none" /\ srv.answers[r] = 0 /\ ~Watched(r)
        BY <1>1 DEF Watched
    <2> QED
        BY <1>1, <2>1, HitsEmpty DEF Job, Asking, Answering, Watching
<1> QED
    BY <1>2, <1>3 DEF JobInv

LEMMA JobStep == TypeInv /\ JobInv /\ [Next]_vars => TypeInv' /\ JobInv'
<1> SUFFICES ASSUME TypeInv, JobInv, [Next]_vars PROVE TypeInv' /\ JobInv'
    OBVIOUS
<1>1. TypeInv'
    <2>1. WorkersAreWatched
        BY DEF WorkersAreWatched, JobInv, Job, Watching
    <2> QED
        BY <2>1, TypeStep
<1>2. CASE OfClient(ClientStep)
    BY <1>1, <1>2, ClientJob
<1>3. CASE ServerStep \/ LinkFails
    BY <1>1, <1>3, DataSteps, QuietServer, SpawnJob, ResponsesJob, DownJob, PingSteps, WorkerJob
       DEF ServerStep, Mailbox
<1>4. CASE UNCHANGED vars
    <2>1. /\ UNCHANGED <<packets, toServer, fromServer, call, srv, worker, box, link>>
        BY <1>4 DEF vars, clientVars, callVars, netVars, serverVars
    <2>2. Sound'
        BY <2>1 DEF JobInv, Sound
    <2>3. ASSUME NEW r \in Requests PROVE Job(r)'
        BY <2>1 DEF JobInv, Job, Asking, Answering, Watching, Watched
    <2> QED
        BY <1>1, <2>2, <2>3 DEF JobInv
<1> QED
    BY <1>2, <1>3, <1>4 DEF Next, OfServer

(* The processes, the socket and the mailbox keep their types, for any calls,  *)
(* surroundings and sequence ids.                                            *)
THEOREM TypesAreKept == Spec => [](TypeOK /\ ServerTypeOK)
<1>1. TypeInv => TypeOK /\ ServerTypeOK
    BY DEF TypeInv
<1>2. Init => TypeInv /\ JobInv
    BY InitType, InitJob
<1> QED
    BY <1>1, <1>2, JobStep, PTL DEF Spec

(* The server answers a request at most once, by the response of its worker or *)
(* by the error of its crash, however flush_responses and handle_down find    *)
(* them in the mailbox.                                                      *)
THEOREM RequestsAreAnsweredOnce == Spec => []AnsweredOnce
<1>1. JobInv => AnsweredOnce
    BY DEF JobInv, Job, Answering, AnsweredOnce
<1>2. Init => TypeInv /\ JobInv
    BY InitType, InitJob
<1> QED
    BY <1>1, <1>2, JobStep, PTL DEF Spec
-----------------------------------------------------------------------------
(* The client's books.                                                     *)

(* Ids and pings of a step that draws no id: what is on its way was so before. *)
Onward ==
    /\ \A m \in Msg : m.op = "Request" /\ Live(m)' => Live(m)
    /\ \A s \in 0 .. MaxSequence : Echo(s)' => Echo(s)

AsResponse(m) == [m EXCEPT !.op = "Response"]

LEMMA AsResponseFacts ==
    ASSUME NEW m \in Msg, m.op = "Request"
    PROVE  /\ AsResponse(m) \in Msg /\ AsResponse(m).op = "Response"
           /\ AsResponse(m).of = m.of /\ AsResponse(m).seq = m.seq
           /\ \A n \in Msg : n.op = "Request" /\ AsResponse(n) = AsResponse(m) => n = m
BY DEF AsResponse, Msg

(* What is live is for a request. *)
LEMMA LiveOf ==
    ASSUME TypeInv, Sound, NEW m \in Msg, m.op = "Request", Live(m)
    PROVE  m.of \in Requests
<1>1. CASE Hits(packets, {m}) \/ Hits(toServer, {m})
    <2>1. m \notin Nobodys("Request")
        BY <1>1 DEF Sound, Hits
    <2> QED
        BY <2>1 DEF Nobodys
<1>2. CASE m \in srv.refs
    BY <1>2 DEF Sound
<1>3. CASE Hits(box, RepliesTo(m))
    <2>1. PICK x \in RepliesTo(m) : x \notin Odd
        BY <1>3 DEF Sound, Hits
    <2> QED
        BY <2>1 DEF Odd, RepliesTo
<1>4. CASE Hits(fromServer, {AsResponse(m)})
    <2>1. AsResponse(m) \notin Nobodys("Response")
        BY <1>4 DEF Sound, Hits
    <2> QED
        BY <2>1, AsResponseFacts DEF Nobodys
<1> QED
    BY <1>1, <1>2, <1>3, <1>4 DEF Live, AsResponse

Echoes(op, s) == {m \in Msg : m.op = op /\ m.seq = s}

LEMMA EchoFacts ==
    ASSUME NEW s
    PROVE  /\ Echo(s) <=> \/ Hits(packets, Echoes("Ping", s)) \/ Hits(toServer, Echoes("Ping", s))
                          \/ Hits(fromServer, Echoes("Pong", s))
           /\ Echo(s)' <=> \/ Hits(packets', Echoes("Ping", s)) \/ Hits(toServer', Echoes("Ping", s))
                           \/ Hits(fromServer', Echoes("Pong", s))
BY DEF Echo, Echoes

(* Steps of the server. *)
LEMMA QuietLive ==
    ASSUME Standing, Answerless, NEW m \in Msg, m.op = "Request", Live(m)'
    PROVE  Live(m)
<1>1. /\ packets' = packets /\ Fewer(toServer', toServer, {m}) /\ box' = box /\ worker' = worker
      /\ srv'.refs = srv.refs
    BY DEF Standing, Answerless
<1>2. Fewer(fromServer', fromServer, {AsResponse(m)})
    BY AsResponseFacts DEF Answerless
<1> QED
    BY <1>1, <1>2 DEF Live, Fewer, AsResponse

LEMMA SpawnLive ==
    ASSUME TypeInv, JobInv, NEW n \in Msg, Spawning(n), NEW m \in Msg, m.op = "Request", Live(m)'
    PROVE  Live(m)
<1>0. toServer \in Seq(Msg) /\ toServer # <<>> /\ srv \in Server
      /\ worker \in [Requests -> {"none", "running", "returned", "gone"}]
    BY DEF TypeInv, TypeOK, ServerTypeOK, Spawning
<1>1. /\ Hits(toServer', {m}) => Hits(toServer, {m})
      /\ m = n => Hits(toServer, {m})
    <2>1. Hits(toServer, {m}) <=> Head(toServer) \in {m} \/ Hits(Tail(toServer), {m})
        BY <1>0, HitsTail
    <2> QED
        BY <2>1 DEF Spawning
<1>2. srv'.refs = srv.refs \cup {n} /\ UNCHANGED <<packets, fromServer, box>>
    BY <1>0 DEF Spawning, Server
<1>3. ASSUME m \in srv'.refs, worker'[m.of] = "running", m # n PROVE Live(m)
    <2>1. m.of # n.of
        <3>1. m \in srv.refs
            BY <1>2, <1>3
        <3>2. JobInv'
            BY SpawnJob
        <3> QED
            BY <1>2, <1>3, <3>2 DEF JobInv, Sound
    <2>2. worker[m.of] = "running" /\ m \in srv.refs
        <3>1. m.of \in Requests
            BY <1>2, <1>3 DEF JobInv, Sound
        <3> QED
            BY <1>0, <1>2, <1>3, <2>1, <3>1 DEF Spawning
    <2> QED
        BY <2>2 DEF Live
<1> QED
    BY <1>1, <1>2, <1>3 DEF Live

LEMMA WorkerLive ==
    ASSUME TypeInv, JobInv, NEW r \in Requests, WorkerStep(r), NEW m \in Msg, m.op = "Request", Live(m)'
    PROVE  Live(m)
<1>0. /\ worker \in [Requests -> {"none", "running", "returned", "gone"}] /\ box \in Seq(Mail)
    BY DEF TypeInv, ServerTypeOK
<1>1. PICK x \in Mail, to \in {"returned", "gone"} :
        /\ Posting(r, to, x)
        /\ x.kind = "response" => worker[r] = "running"
    BY WorkerSteps
<1>2. UNCHANGED <<packets, toServer, fromServer, srv>>
    BY <1>1 DEF Posting, clientVars, netVars
<1>3. CASE m \in srv'.refs /\ worker'[m.of] = "running"
    <2>1. m \in srv.refs /\ m.of \in Requests
        BY <1>2, <1>3 DEF JobInv, Sound
    <2>2. worker[m.of] = "running"
        BY <1>0, <1>1, <1>3, <2>1 DEF Posting
    <2> QED
        BY <2>1, <2>2 DEF Live
<1>4. CASE Hits(box', RepliesTo(m))
    <2>1. CASE srv.status # "up"
        BY <1>1, <1>4, <2>1 DEF Posting, Live
    <2>2. CASE srv.status = "up"
        <3>1. Hits(Append(box, x), RepliesTo(m)) <=> Hits(box, RepliesTo(m)) \/ x \in RepliesTo(m)
            BY <1>0, HitsAppend
        <3>2. box' = Append(box, x) /\ x.request \in srv.refs /\ x.request.of = r
            BY <1>1, <2>2 DEF Posting
        <3>3. CASE x \in RepliesTo(m)
            <4>1. x.kind = "response" /\ x.request = m
                BY <3>3 DEF RepliesTo
            <4> QED
                BY <1>1, <3>2, <4>1 DEF Live
        <3>4. CASE Hits(box, RepliesTo(m))
            BY <3>4 DEF Live
        <3> QED
            BY <1>4, <3>1, <3>2, <3>3, <3>4
    <2> QED
        BY <2>1, <2>2
<1> QED
    BY <1>2, <1>3, <1>4 DEF Live

LEMMA ResponsesLive ==
    ASSUME TypeInv, JobInv, ServerResponses, NEW m \in Msg, m.op = "Request", Live(m)'
    PROVE  Live(m)
<1>0. /\ srv \in Server /\ box \in Seq(Mail) /\ fromServer \in Seq(Msg) /\ TypeOK
      /\ DOMAIN box = 1 .. Len(box) /\ \A i \in 1 .. Len(box) : box[i] \in Mail
    BY DEF TypeInv, TypeOK, ServerTypeOK
<1>1. PICK frames \in Seq(Msg) :
        /\ ServerSend(frames) /\ srv' = [srv EXCEPT !.answers = Answered(frames)]
        /\ Carry(frames)
    BY ResponsesFacts
<1>2. UNCHANGED <<packets, toServer, worker>> /\ srv'.refs = srv.refs
    BY <1>0, <1>1 DEF ServerResponses, clientVars, Server
<1>3. Hits(box', RepliesTo(m)) => Hits(box, RepliesTo(m))
    <2>1. Left(box')
        BY ResponsesFacts
    <2> QED
        BY <1>0, <2>1 DEF Left, Hits
<1>4. Hits(frames, {AsResponse(m)}) => Hits(box, RepliesTo(m))
    <2>1. ASSUME NEW i \in Due, FrameOf(box[i]) \in {AsResponse(m)} PROVE box[i] \in RepliesTo(m)
        <3>1. box[i] \in Mail /\ box[i].kind \in {"response", "goAway"} /\ i \in 1 .. Len(box)
            BY <1>0 DEF Due
        <3>2. box[i].request.op = "Request" /\ box[i].request \in Msg
            <4>1. box[i] \notin Odd
                BY <3>1 DEF JobInv, Sound, Hits
            <4> QED
                BY <3>1, <4>1 DEF Odd, Mail
        <3>3. AsResponse(m).op = "Response"
            BY AsResponseFacts
        <3>4. box[i].kind = "response"
            BY <2>1, <3>1, <3>3 DEF FrameOf, Plain, Frame
        <3>5. AsResponse(box[i].request) = AsResponse(m)
            BY <2>1, <3>4 DEF FrameOf, AsResponse
        <3>6. box[i].request = m
            BY <3>2, <3>5, AsResponseFacts
        <3> QED
            BY <3>1, <3>4, <3>6 DEF RepliesTo
    <2> QED
        BY <1>1, <2>1 DEF Carry
<1>5. Hits(fromServer', {AsResponse(m)}) => Hits(fromServer, {AsResponse(m)}) \/ Hits(frames, {AsResponse(m)})
    BY <1>0, <1>1, HitsConcat DEF ServerSend
<1> QED
    BY <1>2, <1>3, <1>4, <1>5 DEF Live, AsResponse

LEMMA DownLive ==
    ASSUME TypeInv, ServerDown, NEW m \in Msg, m.op = "Request", Live(m)'
    PROVE  Live(m)
<1>0. /\ srv \in Server /\ box \in Seq(Mail) /\ fromServer \in Seq(Msg) /\ TypeOK
      /\ box # <<>> /\ box' = Tail(box) /\ UNCHANGED <<packets, toServer, worker>>
    BY DEF TypeInv, TypeOK, ServerTypeOK, ServerDown, clientVars
<1>1. srv'.refs \subseteq srv.refs
    BY <1>0 DEF ServerDown, Server
<1>2. \A M : Hits(box', M) => Hits(box, M)
    BY <1>0, HitsTail
<1>3. Hits(fromServer', {AsResponse(m)}) => Hits(fromServer, {AsResponse(m)})
    <2>1. Head(box) \in Mail
        BY <1>0, QueueTypes
    <2> DEFINE e == [Head(box).request EXCEPT !.op = "Error"]
    <2>2. e \in Msg /\ e.op = "Error"
        BY <2>1 DEF Mail, Msg
    <2>3. ServerSend(<<e>>) \/ ServerSend(<<>>)
        BY DEF ServerDown
    <2> HIDE DEF e
    <2>4. <<e>> \in Seq(Msg) /\ <<>> \in Seq(Msg)
        BY <2>2, QueueTypes
    <2>5. ~Hits(<<e>>, {AsResponse(m)}) /\ ~Hits(<<>>, {AsResponse(m)})
        BY <2>2, AsResponseFacts, HitsOne, HitsEmpty
    <2>6. Fewer(fromServer', fromServer, {AsResponse(m)})
        BY <1>0, <2>3, <2>4, <2>5, ServerSendFewer
    <2> QED
        BY <2>6 DEF Fewer
<1> QED
    BY <1>0, <1>1, <1>2, <1>3 DEF Live, AsResponse

(* The pings the server answers. *)
LEMMA ServerEcho ==
    ASSUME TypeInv, ServerStep \/ LinkFails, NEW s \in 0 .. MaxSequence, Echo(s)'
    PROVE  Echo(s)
<1>0. /\ TypeOK /\ toServer \in Seq(Msg) /\ fromServer \in Seq(Msg) /\ srv \in Server
      /\ box \in Seq(Mail) /\ packets' = packets
    BY DEF TypeInv, TypeOK, ServerTypeOK, ServerStep, LinkFails, Mailbox, ServerData, ServerResponses,
           ServerDown, ReplyRaises, ServerPing, ServerTcpClosed, WorkerStep, WorkerReturns, WorkerExits, clientVars
<1> DEFINE P == Echoes("Ping", s)
           Q == Echoes("Pong", s)
<1>1. ASSUME toServer' = toServer \/ (toServer # <<>> /\ toServer' = Tail(toServer)),
             Hits(fromServer', Q) => Hits(fromServer, Q) \/ Hits(toServer, P)
      PROVE  Echo(s)
    <2>1. Hits(toServer', P) => Hits(toServer, P)
        BY <1>0, <1>1, HitsTail
    <2> QED
        BY <1>0, <1>1, <2>1, EchoFacts
<1>2. ASSUME NEW ms \in Seq(Msg), ServerSend(ms), ~Hits(ms, Q) PROVE Hits(fromServer', Q) => Hits(fromServer, Q)
    BY <1>0, <1>2, ServerSendFewer DEF Fewer
<1>3. ASSUME NEW m \in Msg, ServerSend(<<m>>), m.op # "Pong" PROVE Hits(fromServer', Q) => Hits(fromServer, Q)
    <2>1. <<m>> \in Seq(Msg) /\ ~Hits(<<m>>, Q)
        BY <1>3, HitsOne DEF Echoes
    <2> QED
        BY <1>2, <1>3, <2>1
<1>4. ASSUME GoAway PROVE Hits(fromServer', Q) => Hits(fromServer, Q)
    <2>1. Plain("GoAway", 0) \in Msg /\ Plain("GoAway", 0).op = "GoAway"
        BY FramesBuilt, BoundAssumption DEF Plain, Frame
    <2> QED
        BY <1>3, <1>4, <2>1 DEF GoAway
<1>5. CASE ServerData
    <2> DEFINE m == Head(toServer)
    <2>1. toServer # <<>> /\ toServer' = Tail(toServer) /\ m \in Msg /\ m.seq \in 0 .. MaxSequence
        <3>1. toServer # <<>> /\ toServer' = Tail(toServer)
            BY <1>5 DEF ServerData
        <3>2. m \in Msg
            BY <1>0, <3>1, QueueTypes
        <3> QED
            BY <3>1, <3>2 DEF Msg
    <2>2. CASE HandleHello
        <3>1. Plain("HelloAck", 0) \in Msg /\ Plain("HelloAck", 0).op = "HelloAck"
            BY FramesBuilt, BoundAssumption DEF Plain, Frame
        <3> QED
            BY <1>1, <1>3, <1>4, <2>1, <2>2, <3>1 DEF HandleHello
    <2>3. CASE m.op = "Ping" /\ ServerSend(<<Plain("Pong", m.seq)>>)
        <3>1. Plain("Pong", m.seq) \in Msg /\ Plain("Pong", m.seq).seq = m.seq
            BY <2>1, FramesBuilt DEF Plain, Frame
        <3>2. CASE m.seq = s
            <4>1. m \in P
                BY <2>1, <2>3, <3>2 DEF Echoes
            <4>2. Hits(toServer, P)
                BY <1>0, <2>1, <4>1, HitsTail
            <4> QED
                BY <4>2, EchoFacts
        <3>3. CASE m.seq # s
            <4>1. ~Hits(<<Plain("Pong", m.seq)>>, Q)
                BY <3>1, <3>3, HitsOne DEF Echoes
            <4>2. <<Plain("Pong", m.seq)>> \in Seq(Msg)
                BY <3>1, QueueTypes
            <4> QED
                BY <1>1, <1>2, <2>1, <2>3, <4>1, <4>2
        <3> QED
            BY <3>2, <3>3
    <2>4. CASE UNCHANGED fromServer
        BY <1>1, <2>1, <2>4
    <2> HIDE DEF m
    <2> QED
        BY <1>5, <2>2, <2>3, <2>4 DEF ServerData, m
<1>6. CASE ServerResponses
    <2>1. PICK frames \in Seq(Msg) : ServerSend(frames) /\ Carry(frames)
        BY <1>6, ResponsesFacts
    <2>2. ~Hits(frames, Q)
        <3>1. ASSUME NEW i \in Due PROVE FrameOf(box[i]) \notin Q
            <4>1. box[i] \in Mail
                BY <1>0 DEF Due
            <4>2. [box[i].request EXCEPT !.op = "Response"].op = "Response"
                BY <4>1 DEF Mail, Msg
            <4>3. Plain("GoAway", 0).op = "GoAway"
                BY DEF Plain, Frame
            <4> QED
                BY <4>2, <4>3 DEF FrameOf, Echoes
        <3>2. Hits(frames, Q) => Hits(box, {})
            BY <2>1, <3>1 DEF Carry
        <3> QED
            BY <3>2 DEF Hits
    <2> QED
        BY <1>1, <1>2, <1>6, <2>1, <2>2 DEF ServerResponses
<1>7. CASE ServerDown
    <2>1. Head(box) \in Mail
        BY <1>0, <1>7, QueueTypes DEF ServerDown
    <2> DEFINE e == [Head(box).request EXCEPT !.op = "Error"]
    <2>2. e \in Msg /\ e.op = "Error"
        BY <2>1 DEF Mail, Msg
    <2>3. ServerSend(<<e>>) \/ ServerSend(<<>>)
        BY <1>7 DEF ServerDown
    <2> HIDE DEF e
    <2>4. <<>> \in Seq(Msg) /\ ~Hits(<<>>, Q)
        BY QueueTypes, HitsEmpty
    <2> QED
        BY <1>1, <1>2, <1>3, <1>7, <2>2, <2>3, <2>4 DEF ServerDown
<1>8. CASE ServerPing
    <2> DEFINE n == Plain("Ping", IF srv.seq >= MaxSequence THEN 1 ELSE srv.seq)
    <2>1. (IF srv.seq >= MaxSequence THEN 1 ELSE srv.seq) \in 0 .. MaxSequence
        BY <1>0, BoundAssumption DEF Server
    <2>2. n \in Msg /\ n.op = "Ping"
        BY <2>1, FramesBuilt DEF Plain, Frame
    <2>3. GoAway \/ ServerSend(<<n>>)
        BY <1>8 DEF ServerPing
    <2> HIDE DEF n
    <2> QED
        BY <1>1, <1>3, <1>4, <1>8, <2>2, <2>3 DEF ServerPing
<1>9. CASE UNCHANGED <<toServer, fromServer>>
    BY <1>1, <1>9
<1>11. ASSUME ReplyRaises PROVE UNCHANGED <<toServer, fromServer>>
    BY <1>11 DEF ReplyRaises
<1>10. ASSUME NEW r \in Requests, WorkerStep(r) PROVE UNCHANGED <<toServer, fromServer>>
    BY <1>10 DEF WorkerStep, WorkerReturns, WorkerExits, netVars
<1> HIDE DEF P, Q
<1> QED
    BY <1>5, <1>6, <1>7, <1>8, <1>9, <1>10, <1>11 DEF ServerStep, Mailbox, ServerTcpClosed, LinkFails

(* The server leaves the client alone. *)
LEMMA ServerOnward ==
    ASSUME TypeInv, JobInv, ServerStep \/ LinkFails
    PROVE  Onward /\ UNCHANGED <<clientVars, callVars>>
<1>1. UNCHANGED <<clientVars, callVars>>
    BY DEF ServerStep, LinkFails, Mailbox, ServerData, ServerResponses, ServerDown, ReplyRaises, ServerPing,
           ServerTcpClosed, WorkerStep, WorkerReturns, WorkerExits
<1>2. ASSUME NEW m \in Msg, m.op = "Request", Live(m)' PROVE Live(m)
    BY <1>2, DataSteps, QuietLive, SpawnLive, ResponsesLive, DownLive, PingSteps, WorkerLive
       DEF ServerStep, Mailbox
<1>3. ASSUME NEW s \in 0 .. MaxSequence, Echo(s)' PROVE Echo(s)
    BY <1>3, ServerEcho
<1> QED
    BY <1>1, <1>2, <1>3 DEF Onward

(* Steps of the client. *)
LEMMA FlushMoves ==
    ASSUME TypeInv, FlushPackets, NEW M
    PROVE  /\ Hits(toServer', M) => Hits(toServer, M) \/ Hits(packets, M)
           /\ ~Hits(packets', M)
<1>1. packets \in Seq(Msg) /\ toServer \in Seq(Msg)
    BY DEF TypeInv, TypeOK
<1>2. /\ packets' = <<>>
      /\ toServer' = toServer \o packets \/ toServer' = toServer
    BY DEF FlushPackets, Send
<1>3. Hits(toServer \o packets, M) <=> Hits(toServer, M) \/ Hits(packets, M)
    BY <1>1, HitsConcat
<1> QED
    BY <1>2, <1>3, HitsEmpty

LEMMA ClientLive ==
    ASSUME TypeInv, OfClient(ClientStep), NEW m \in Msg, m.op = "Request", Live(m)'
    PROVE  \/ Live(m)
           \/ \E c \in Requests : HandleRequest(c) /\ m = Payload("Request", NextId, c)
<1>0. /\ packets \in Seq(Msg) /\ toServer \in Seq(Msg) /\ fromServer \in Seq(Msg) /\ TypeOK
      /\ UNCHANGED <<srv, worker, box>>
    BY DEF TypeInv, TypeOK, OfClient, serverVars
<1>1. CASE Asksless
    <2>1. /\ Fewer(packets', packets, {m}) /\ Fewer(toServer', toServer, {m})
          /\ Fewer(fromServer', fromServer, {AsResponse(m)})
        BY <1>1 DEF Asksless
    <2> QED
        BY <1>0, <2>1 DEF Live, Fewer, AsResponse
<1>2. ASSUME NEW c \in Call, HandleRequest(c)
      PROVE  Live(m) \/ (c \in Requests /\ m = Payload("Request", NextId, c))
    <2> DEFINE f == Payload("Request", NextId, c)
    <2>1. f \in Msg
        BY <1>0, NextIdType, FramesBuilt DEF Id
    <2>2. packets' = <<f>> \o packets /\ UNCHANGED <<toServer, fromServer>> /\ c \in Requests
        BY <1>2 DEF HandleRequest, netVars
    <2> HIDE DEF f
    <2>3. <<f>> \in Seq(Msg)
        BY <2>1
    <2>4. Hits(packets', {m}) => Hits(packets, {m}) \/ f = m
        BY <1>0, <2>2, <2>3, HitsConcat, HitsOne
    <2>5. Live(m) \/ f = m
        BY <1>0, <2>2, <2>4 DEF Live
    <2> QED
        BY <2>2, <2>5 DEF f
<1>3. CASE FlushPackets
    <2>1. UNCHANGED fromServer
        BY <1>3 DEF FlushPackets
    <2>2. ~Hits(packets', {m}) /\ (Hits(toServer', {m}) => Hits(toServer, {m}) \/ Hits(packets, {m}))
        BY <1>3, FlushMoves
    <2> QED
        BY <1>0, <2>1, <2>2 DEF Live
<1>4. \/ Asksless \/ FlushPackets
      \/ \E c \in Call : HandleRequest(c)
    BY <1>0, CallMoves, PacketMoves, ProcessMoves DEF OfClient, ClientStep
<1> QED
    BY <1>1, <1>2, <1>3, <1>4

(* A ping is sent. *)
Pinging == (\E p \in Pings : HandlePingCall(p)) \/ (SendPing /\ lastPing = 0)

LEMMA ClientEcho ==
    ASSUME TypeInv, ClientStep, NEW s \in 0 .. MaxSequence, Echo(s)'
    PROVE  Echo(s) \/ (Pinging /\ s = NextId)
<1> USE DEF clientVars, callVars, netVars
<1> DEFINE P == Echoes("Ping", s)
           Q == Echoes("Pong", s)
<1>0. packets \in Seq(Msg) /\ toServer \in Seq(Msg) /\ fromServer \in Seq(Msg) /\ TypeOK
    BY DEF TypeInv, TypeOK
<1>1. ASSUME Hits(packets', P) \/ Hits(toServer', P) => Hits(packets, P) \/ Hits(toServer, P),
             fromServer' = fromServer \/ (fromServer # <<>> /\ fromServer' = Tail(fromServer))
      PROVE  Echo(s)
    <2>1. Hits(fromServer', Q) => Hits(fromServer, Q)
        BY <1>0, <1>1, HitsTail
    <2> QED
        BY <1>1, <2>1, EchoFacts
<1>2. ASSUME NEW m \in Msg, m \notin P, Send(<<m>>) PROVE Hits(toServer', P) => Hits(toServer, P)
    BY <1>0, <1>2, SendFewer DEF Fewer
<1>3. ASSUME NEW m \in Msg, m \notin P, packets' = <<m>> \o packets PROVE Hits(packets', P) => Hits(packets, P)
    <2>1. <<m>> \in Seq(Msg) /\ ~Hits(<<m>>, P)
        BY <1>3, HitsOne
    <2> QED
        BY <1>0, <1>3, <2>1, HitsConcat
<1>4. NextId \in 0 .. MaxSequence
    BY <1>0, NextIdType DEF Id
<1>5. ASSUME Send(<<Plain("Ping", NextId)>>), UNCHANGED <<packets, fromServer>>, s # NextId PROVE Echo(s)
    <2>1. Plain("Ping", NextId) \in Msg /\ Plain("Ping", NextId) \notin P
        BY <1>4, <1>5, FramesBuilt DEF Plain, Frame, Echoes
    <2> QED
        BY <1>1, <1>2, <1>5, <2>1
<1>6. ASSUME NEW c \in Call, CallStep(c) PROVE Echo(s) \/ (Pinging /\ s = NextId)
    <2>1. CASE HandlePingCall(c)
        BY <1>5, <2>1 DEF HandlePingCall, Pinging
    <2>2. CASE HandleRequest(c)
        <3>1. Payload("Request", NextId, c) \in Msg /\ Payload("Request", NextId, c) \notin P
            BY <1>4, FramesBuilt DEF Payload, Frame, Echoes
        <3> QED
            BY <1>1, <1>3, <2>2, <3>1 DEF HandleRequest
    <2>3. CASE HandlePush(c)
        <3>1. Payload("Push", 0, c) \in Msg /\ Payload("Push", 0, c) \notin P
            BY BoundAssumption, FramesBuilt DEF Payload, Frame, Echoes
        <3> QED
            BY <1>1, <1>3, <2>3, <3>1 DEF HandlePush
    <2>4. CASE HandleCallGoneAway(c) \/ HandleClose(c) \/ CallRaises(c) \/ CallStopped(c) \/ TimeOut(c)
        <3>1. UNCHANGED <<packets, toServer, fromServer>>
            BY <2>4 DEF HandleCallGoneAway, HandleClose, CallRaises, CallStopped, TimeOut
        <3> QED
            BY <1>1, <3>1
    <2> QED
        BY <1>6, <2>1, <2>2, <2>3, <2>4 DEF CallStep
<1>7. CASE PacketStep
    <2>1. fromServer # <<>> /\ fromServer' = Tail(fromServer) /\ packets' = packets
        BY <1>7 DEF PacketStep, HandlePing, HandlePong, HandleHelloAck, HandleResponse, HandleGoAway,
                    HandleUnknown, Take
    <2>2. CASE HandlePing
        <3>1. Head(fromServer) \in Msg
            BY <1>0, <2>1, QueueTypes
        <3>2. Head(fromServer).seq \in 0 .. MaxSequence
            BY <3>1 DEF Msg
        <3>3. /\ Plain("Pong", Head(fromServer).seq) \in Msg
              /\ Plain("Pong", Head(fromServer).seq) \notin P
            BY <3>2, FramesBuilt DEF Plain, Frame, Echoes
        <3> QED
            BY <1>1, <1>2, <2>1, <2>2, <3>3 DEF HandlePing
    <2>3. CASE ~HandlePing
        <3>1. UNCHANGED toServer
            BY <1>7, <2>3 DEF PacketStep, HandlePong, HandleHelloAck, HandleResponse, HandleGoAway,
                              HandleUnknown
        <3> QED
            BY <1>1, <2>1, <3>1
    <2> QED
        BY <2>2, <2>3
<1>8. CASE Connect
    <2>1. Plain("Hello", 0) \in Msg /\ Plain("Hello", 0) \notin P
        BY FramesBuilt, BoundAssumption DEF Plain, Frame, Echoes
    <2> QED
        BY <1>1, <1>2, <1>8, <2>1 DEF Connect
<1>9. CASE FlushPackets
    <2>1. UNCHANGED fromServer
        BY <1>9 DEF FlushPackets
    <2>2. ~Hits(packets', P) /\ (Hits(toServer', P) => Hits(toServer, P) \/ Hits(packets, P))
        BY <1>9, FlushMoves
    <2> QED
        BY <1>1, <2>1, <2>2
<1>10. CASE TcpClosed \/ CloseGoAway
    BY <1>1, <1>10 DEF TcpClosed, CloseGoAway
<1>11. CASE SendPing
    BY <1>1, <1>5, <1>11 DEF SendPing, Pinging
<1> HIDE DEF P, Q
<1> QED
    BY <1>6, <1>7, <1>8, <1>9, <1>10, <1>11 DEF ClientStep
-----------------------------------------------------------------------------
(* What the client does to its callers.                                    *)

(* The callers after a step: nobody waits or is done unless he called. *)
Callers ==
    \A c \in Call :
        /\ call'[c] # "idle" => call[c] # "idle" \/ c \in scenario.calls
        /\ call'[c] = "waiting" => call[c] = "waiting" \/ c \in Requests \cup Pings
        /\ call'[c] = "idle" => call[c] = "idle"

LEMMA CallCallers ==
    ASSUME TypeOK, NEW c \in Call, CallStep(c)
    PROVE  Callers
<1> USE DEF clientVars, callVars, netVars
<1>1. CASE HandlePingCall(c)
    BY <1>1 DEF HandlePingCall, Called, Callers, TypeOK
<1>2. CASE HandleRequest(c)
    BY <1>2 DEF HandleRequest, Called, Callers, TypeOK
<1>3. CASE HandleClose(c) \/ CallRaises(c)
    <2>1. PICK o, why_ : c \in scenario.calls /\ Stop(why_, {c}, o)
        BY <1>3 DEF HandleClose, CallRaises, Called
    <2> QED
        BY <2>1 DEF Stop, Callers, TypeOK
<1>4. CASE HandleCallGoneAway(c) \/ HandlePush(c) \/ CallStopped(c)
    <2>1. c \in scenario.calls /\ call' = [call EXCEPT ![c] = "done"]
        BY <1>4 DEF HandleCallGoneAway, HandlePush, CallStopped, Called
    <2> QED
        BY <2>1 DEF Callers, TypeOK
<1>5. CASE TimeOut(c)
    BY <1>5 DEF TimeOut, Callers, TypeOK
<1> QED
    BY <1>1, <1>2, <1>3, <1>4, <1>5 DEF CallStep

LEMMA ClientCallers ==
    ASSUME TypeOK, ClientStep
    PROVE  Callers
<1> USE DEF clientVars, callVars, netVars
<1>1. ASSUME NEW reason, NEW o, Stop(reason, {}, o) PROVE Callers
    BY <1>1 DEF Stop, Callers, TypeOK
<1>2. ASSUME NEW d, NEW o, Reply(d, o) PROVE Callers
    BY <1>2 DEF Reply, Callers, TypeOK
<1>3. ASSUME UNCHANGED call PROVE Callers
    BY <1>3 DEF Callers
<1>4. CASE Connect \/ TcpClosed \/ SendPing \/ FlushPackets
    BY <1>1, <1>3, <1>4 DEF Connect, TcpClosed, SendPing, FlushPackets
<1>5. CASE CloseGoAway
    <2>1. \/ Stop("crash", {}, Outcome("none", None))
          \/ Stop("went_away", {c \in Registered : call[c] = "waiting"}, Outcome("went_away", None))
        BY <1>5 DEF CloseGoAway
    <2>2. CASE Stop("went_away", {c \in Registered : call[c] = "waiting"}, Outcome("went_away", None))
        BY <2>2 DEF Stop, Callers, TypeOK
    <2> QED
        BY <1>1, <2>1, <2>2
<1>6. CASE PacketStep
    <2>1. \/ UNCHANGED call \/ \E d, o : Reply(d, o)
          \/ Stop("crash", {}, Outcome("none", None))
        BY <1>6 DEF PacketStep, HandlePing, HandlePong, HandleHelloAck, HandleResponse, HandleGoAway,
                    HandleUnknown
    <2> QED
        BY <1>1, <1>2, <1>3, <2>1
<1> QED
    BY <1>4, <1>5, <1>6, CallCallers DEF ClientStep

(* Whom a step leaves in waiters. *)
LEMMA ClientWaiters ==
    ASSUME TypeOK, ClientStep, NEW s \in Id
    PROVE  \/ waiters'[s] \in {waiters[s], None}
           \/ waiters'[s] \in Requests \cup Pings /\ call'[waiters'[s]] # "idle"
<1> USE DEF clientVars, callVars, netVars
<1>1. ASSUME NEW c \in Call, CallStep(c)
      PROVE  \/ waiters'[s] = waiters[s]
             \/ waiters'[s] = c /\ c \in Requests \cup Pings /\ call'[c] # "idle"
    <2>1. CASE HandlePingCall(c)
        BY <2>1 DEF HandlePingCall, TypeOK
    <2>2. CASE HandleRequest(c)
        BY <2>2 DEF HandleRequest, TypeOK
    <2>3. CASE \/ HandleClose(c) \/ CallRaises(c) \/ HandleCallGoneAway(c) \/ HandlePush(c)
               \/ CallStopped(c) \/ TimeOut(c)
        BY <2>3 DEF HandleClose, CallRaises, HandleCallGoneAway, HandlePush, CallStopped, TimeOut
    <2> QED
        BY <1>1, <2>1, <2>2, <2>3 DEF CallStep
<1>2. CASE Connect \/ TcpClosed \/ SendPing \/ FlushPackets \/ CloseGoAway
    BY <1>2 DEF Connect, TcpClosed, SendPing, FlushPackets, CloseGoAway
<1>3. CASE PacketStep
    <2>1. \/ UNCHANGED waiters
          \/ waiters' = [waiters EXCEPT ![Head(fromServer).seq] = None]
        BY <1>3 DEF PacketStep, HandlePing, HandlePong, HandleHelloAck, HandleResponse, HandleGoAway,
                    HandleUnknown
    <2> QED
        BY <2>1 DEF TypeOK
<1> QED
    BY <1>1, <1>2, <1>3 DEF ClientStep

LEMMA CalledStep ==
    ASSUME TypeInv, CallersCalled, OfClient(ClientStep)
    PROVE  CallersCalled'
<1>0. TypeOK /\ ClientStep /\ UNCHANGED scenario
    BY DEF TypeInv, OfClient
<1>1. Callers
    BY <1>0, ClientCallers
<1>2. Requests \cup Pings \subseteq Call /\ Pushes \cup Closes \subseteq Call
    BY DEF Call
<1>3. ASSUME NEW c \in Requests \cup Pings, call'[c] # "idle" PROVE c \in scenario'.calls
    BY <1>0, <1>1, <1>2, <1>3 DEF Callers, CallersCalled
<1>4. ASSUME NEW c \in Pushes \cup Closes PROVE call'[c] # "waiting"
    BY <1>1, <1>2, <1>4, CallAssumption DEF Callers, CallersCalled
<1>5. ASSUME NEW s \in Id, waiters'[s] # None
      PROVE  waiters'[s] \in Requests \cup Pings /\ call'[waiters'[s]] # "idle"
    <2>1. CASE waiters'[s] = waiters[s]
        BY <1>1, <1>2, <1>5, <2>1 DEF Callers, CallersCalled
    <2> QED
        BY <1>0, <1>5, <2>1, ClientWaiters
<1> QED
    BY <1>3, <1>4, <1>5 DEF CallersCalled
-----------------------------------------------------------------------------
(* Ids that are drawn are new, and kept.                                   *)

(* Who has drawn an id is one of those who may. *)
LEMMA DrawnFacts ==
    ASSUME TypeOK, IdsSuffice, Drawing(scenario) # {}, NEW D \in SUBSET Drawing(scenario)
    PROVE  /\ IsFiniteSet(D) /\ Cardinality(D) \in Nat
           /\ Cardinality(D) + scenario.keepalives + 1 < MaxSequence
           /\ \A E \in SUBSET D : Cardinality(E) \in Nat /\ Cardinality(E) <= Cardinality(D)
           /\ \A c \in Drawing(scenario) \ D :
                 /\ Cardinality(D \cup {c}) = Cardinality(D) + 1
                 /\ Cardinality(D) + scenario.keepalives + 2 < MaxSequence
<1> DEFINE W == Drawing(scenario)
<1>1. scenario \in Scenarios /\ scenario.keepalives \in Nat
    BY ScenarioAssumption DEF TypeOK, Surroundings
<1>2. IsFiniteSet(W) /\ Cardinality(W) + scenario.keepalives + 1 < MaxSequence
    BY <1>1 DEF IdsSuffice
<1>3. Cardinality(W) \in Nat
    BY <1>2, FS_CardinalityType
<1>4. ASSUME NEW E \in SUBSET W PROVE IsFiniteSet(E) /\ Cardinality(E) \in Nat /\ Cardinality(E) <= Cardinality(W)
    BY <1>2, FS_Subset, FS_CardinalityType
<1>5. ASSUME NEW E \in SUBSET D PROVE Cardinality(E) \in Nat /\ Cardinality(E) <= Cardinality(D)
    <2>1. IsFiniteSet(D)
        BY <1>4
    <2> QED
        BY <2>1, FS_Subset, FS_CardinalityType
<1>6. Cardinality(D) + scenario.keepalives + 1 < MaxSequence
    BY <1>1, <1>2, <1>3, <1>4, BoundAssumption
<1>7. ASSUME NEW c \in W \ D
      PROVE  /\ Cardinality(D \cup {c}) = Cardinality(D) + 1
             /\ Cardinality(D) + scenario.keepalives + 2 < MaxSequence
    <2>1. IsFiniteSet(D) /\ c \notin D
        BY <1>4, <1>7
    <2>2. Cardinality(D \cup {c}) = Cardinality(D) + 1
        BY <2>1, FS_AddElement
    <2>3. D \cup {c} \in SUBSET W
        BY <1>7
    <2>4. Cardinality(D) + 1 <= Cardinality(W) /\ Cardinality(D) \in Nat
        BY <1>4, <2>2, <2>3
    <2> QED
        BY <1>1, <1>2, <1>3, <2>2, <2>4, BoundAssumption
<1> HIDE DEF W
<1>8. IsFiniteSet(D) /\ Cardinality(D) \in Nat
    BY <1>4 DEF W
<1> QED
    BY <1>5, <1>6, <1>7, <1>8 DEF W

LEMMA DrawnIsDrawing == CallersCalled => Drawn \in SUBSET Drawing(scenario)
BY DEF CallersCalled, Drawn, Drawing

LEMMA NobodyDraws ==
    ASSUME CallersCalled, Drawing(scenario) = {}
    PROVE  \A s \in Id : waiters[s] = None
BY DEF CallersCalled, Drawing

(* The id that is drawn next was never drawn. *)
LEMMA FreshId ==
    ASSUME TypeOK, IdsSuffice, CallersCalled, IdsAreNew, sequence # GoAwaySequence,
           Drawing(scenario) # {},
           \/ keepalives <= scenario.keepalives
           \/ \E c \in Requests \cup Pings : Called(c)
    PROVE  /\ sequence \in Id /\ sequence < MaxSequence
           /\ NextId = sequence /\ AfterNextId = sequence + 1
<1>1. /\ sequence \in Nat /\ keepalives \in Nat /\ scenario.keepalives \in Nat
      /\ keepalives <= scenario.keepalives + 1 /\ sequence >= 1
    <2>1. scenario.keepalives \in Nat
        BY ScenarioAssumption DEF TypeOK, Surroundings
    <2> QED
        BY <2>1, BoundAssumption DEF TypeOK, GoAwaySequence
<1>2. sequence <= 1 + Cardinality(Drawn) + keepalives
    BY DEF IdsAreNew
<1>3. Drawn \in SUBSET Drawing(scenario)
    BY DrawnIsDrawing
<1>4. Cardinality(Drawn) \in Nat /\ Cardinality(Drawn) + scenario.keepalives + 1 < MaxSequence
    BY <1>3, DrawnFacts
<1>5. CASE \E c \in Requests \cup Pings : Called(c)
    <2>1. PICK c \in Requests \cup Pings : Called(c)
        BY <1>5
    <2>2. c \in Drawing(scenario) \ Drawn
        BY <2>1 DEF Called, Drawing, Drawn
    <2>3. Cardinality(Drawn) + scenario.keepalives + 2 < MaxSequence
        BY <1>3, <2>2, DrawnFacts
    <2>4. sequence < MaxSequence
        BY <1>1, <1>2, <1>4, <2>3, BoundAssumption
    <2> QED
        BY <1>1, <2>4, BoundAssumption DEF NextId, AfterNextId, Id
<1>6. CASE keepalives <= scenario.keepalives
    <2>1. sequence < MaxSequence
        BY <1>1, <1>2, <1>4, <1>6, BoundAssumption
    <2> QED
        BY <1>1, <2>1, BoundAssumption DEF NextId, AfterNextId, Id
<1> QED
    BY <1>5, <1>6

(* A step that draws no id, after which the callers that wait are where they   *)
(* were in waiters, and so are the requests on their way.                    *)
Steady ==
    /\ UNCHANGED <<scenario, keepalives>>
    /\ sequence' \in {sequence, GoAwaySequence}
    /\ goAwayTimer' => goAwayTimer \/ sequence' = GoAwaySequence
    /\ \A s \in Id : waiters'[s] \in {waiters[s], None}
    /\ \A c \in Call : /\ call'[c] = "idle" => call[c] = "idle"
                       /\ call'[c] = "waiting" =>
                            call[c] = "waiting" /\ \A s \in Id : waiters[s] = c => waiters'[s] = c
    /\ \A m \in Msg : m.op = "Request" /\ Live(m)' =>
          Live(m) /\ \A s \in Id : m.seq = s => waiters'[s] = waiters[s]
    /\ \A s \in 0 .. MaxSequence : Echo(s)' => Echo(s)

LEMMA SteadyNew ==
    ASSUME TypeOK, IdsSuffice, CallersCalled, CallersCalled', IdsAreNew, Steady
    PROVE  IdsAreNew'
<1>1. ASSUME sequence' # GoAwaySequence, Drawing(scenario') # {}
      PROVE  sequence' <= 1 + Cardinality(Drawn') + keepalives'
    <2>1. sequence' = sequence /\ scenario' = scenario /\ keepalives' = keepalives
        BY <1>1 DEF Steady
    <2>2. Drawn' \in SUBSET Drawing(scenario)
        BY <2>1 DEF CallersCalled, Drawn, Drawing
    <2>3. Drawn \in SUBSET Drawn'
        BY DEF Steady, Drawn, Call
    <2>4. /\ Cardinality(Drawn) \in Nat /\ Cardinality(Drawn') \in Nat
          /\ Cardinality(Drawn) <= Cardinality(Drawn')
        BY <1>1, <2>1, <2>2, <2>3, DrawnFacts
    <2>5. sequence <= 1 + Cardinality(Drawn) + keepalives
        BY <1>1, <2>1 DEF IdsAreNew
    <2>6. keepalives \in Nat /\ sequence \in Nat
        <3>1. scenario.keepalives \in Nat
            BY ScenarioAssumption DEF TypeOK, Surroundings
        <3> QED
            BY <3>1, BoundAssumption DEF TypeOK, GoAwaySequence
    <2> QED
        BY <2>1, <2>4, <2>5, <2>6
<1>2. goAwayTimer' => sequence' = GoAwaySequence
    BY DEF Steady, IdsAreNew
<1>3. ASSUME NEW s \in Id, waiters'[s] # None PROVE s < sequence'
    <2>1. waiters[s] # None /\ s < sequence
        BY <1>3 DEF Steady, IdsAreNew
    <2>2. s < GoAwaySequence
        BY BoundAssumption DEF Id, GoAwaySequence
    <2> QED
        BY <2>1, <2>2 DEF Steady
<1> QED
    BY <1>1, <1>2, <1>3 DEF IdsAreNew, GoAwaySequence, Drawing

LEMMA SteadyKept ==
    ASSUME TypeOK, IdsAreNew, IdsAreKept, Steady
    PROVE  IdsAreKept'
<1>1. ASSUME NEW s \in Id, NEW t \in Id, waiters'[s] # None, waiters'[s] = waiters'[t] PROVE s = t
    BY <1>1 DEF Steady, IdsAreKept
<1>2. ASSUME NEW c \in Call, call'[c] = "waiting" PROVE \E s \in Id : waiters'[s] = c
    BY <1>2 DEF Steady, IdsAreKept
<1>3. ASSUME NEW m \in Msg, m.op = "Request", Live(m)' PROVE Held(m)'
    BY <1>3 DEF Steady, IdsAreKept, Held
<1>4. ASSUME NEW s \in 0 .. MaxSequence, Echo(s)'
      PROVE  /\ s \in Id /\ waiters'[s] \notin Requests
             /\ Drawing(scenario') # {} => s < sequence'
    <2>1. Echo(s)
        BY <1>4 DEF Steady
    <2>2. s \in Id /\ waiters[s] \notin Requests /\ (Drawing(scenario) # {} => s < sequence)
        BY <2>1 DEF IdsAreKept
    <2>3. waiters'[s] \notin Requests
        BY <2>2, CallAssumption DEF Steady
    <2>4. s < GoAwaySequence
        BY <2>2, BoundAssumption DEF Id, GoAwaySequence
    <2> QED
        BY <2>2, <2>3, <2>4 DEF Steady
<1> QED
    BY <1>1, <1>2, <1>3, <1>4 DEF IdsAreKept, Drawing, Id

(* A caller that draws an id is the one under that id. *)
LEMMA DrawCall ==
    ASSUME TypeInv, Sound, IdsSuffice, CallersCalled, IdsAreNew, IdsAreKept, UNCHANGED scenario,
           NEW c \in Requests \cup Pings, Called(c), sequence # GoAwaySequence,
           sequence' = AfterNextId, waiters' = [waiters EXCEPT ![NextId] = c],
           call' = [call EXCEPT ![c] = "waiting"], UNCHANGED <<keepalives, goAwayTimer>>,
           \A m \in Msg : m.op = "Request" /\ Live(m)' => Live(m) \/ (m.of = c /\ m.seq = NextId),
           \A s \in 0 .. MaxSequence : Echo(s)' => Echo(s) \/ (s = NextId /\ c \in Pings)
    PROVE  IdsAreNew' /\ IdsAreKept'
<1>0. TypeOK /\ c \in Call /\ c # None /\ call[c] = "idle" /\ c \in scenario.calls
    BY CallAssumption DEF TypeInv, Called, Call
<1>1. Drawing(scenario) # {} /\ c \in Drawing(scenario) \ Drawn
    BY <1>0 DEF Drawing, Drawn
<1>2. /\ sequence \in Id /\ sequence < MaxSequence
      /\ NextId = sequence /\ AfterNextId = sequence + 1
    BY <1>0, <1>1, FreshId
<1>3. /\ waiters'[sequence] = c /\ \A s \in Id : s # sequence => waiters'[s] = waiters[s]
      /\ \A d \in Call : d # c => call'[d] = call[d]
      /\ call'[c] = "waiting"
      /\ sequence' = sequence + 1 /\ sequence' # GoAwaySequence /\ sequence \in Nat
    BY <1>0, <1>2, BoundAssumption DEF TypeOK, Id, GoAwaySequence
<1>4. waiters[sequence] = None /\ \A s \in Id : waiters[s] # c
    <2>1. ~(sequence < sequence)
        BY <1>3
    <2> QED
        BY <1>0, <1>2, <2>1 DEF IdsAreNew, CallersCalled
<1>5. IdsAreNew'
    <2>0. \A d \in Requests \cup Pings : call'[d] # "idle" <=> call[d] # "idle" \/ d = c
        BY <1>0, <1>3 DEF Call
    <2>1. Drawn' = Drawn \cup {c}
        BY <2>0 DEF Drawn
    <2>2. Cardinality(Drawn') = Cardinality(Drawn) + 1 /\ Cardinality(Drawn) \in Nat
        BY <1>0, <1>1, <2>1, DrawnIsDrawing, DrawnFacts
    <2>3. sequence <= 1 + Cardinality(Drawn) + keepalives
        BY <1>1, <1>2, BoundAssumption DEF IdsAreNew, Id, GoAwaySequence
    <2>4. keepalives \in Nat
        <3>1. scenario.keepalives \in Nat
            BY <1>0, ScenarioAssumption DEF TypeOK, Surroundings
        <3> QED
            BY <1>0, <3>1 DEF TypeOK
    <2>5. sequence' <= 1 + Cardinality(Drawn') + keepalives'
        BY <1>3, <2>2, <2>3, <2>4
    <2>6. ~goAwayTimer'
        BY DEF IdsAreNew
    <2>7. ASSUME NEW s \in Id, waiters'[s] # None PROVE s < sequence'
        <3>1. s = sequence \/ s < sequence
            BY <1>3, <2>7 DEF IdsAreNew
        <3> QED
            BY <1>3, <3>1 DEF Id
    <2> QED
        BY <2>5, <2>6, <2>7 DEF IdsAreNew, Id
<1>6. IdsAreKept'
    <2>1. ASSUME NEW s \in Id, NEW t \in Id, waiters'[s] # None, waiters'[s] = waiters'[t] PROVE s = t
        BY <1>3, <1>4, <2>1 DEF IdsAreKept
    <2>2. ASSUME NEW d \in Call, call'[d] = "waiting" PROVE \E s \in Id : waiters'[s] = d
        <3>1. CASE d = c
            BY <1>2, <1>3, <3>1
        <3>2. CASE d # c
            <4>1. PICK s \in Id : waiters[s] = d
                BY <1>3, <2>2, <3>2 DEF IdsAreKept
            <4>2. d # None
                BY CallAssumption DEF Call
            <4> QED
                BY <1>3, <1>4, <4>1, <4>2
        <3> QED
            BY <3>1, <3>2
    <2>3. ASSUME NEW m \in Msg, m.op = "Request", Live(m)' PROVE Held(m)'
        <3>1. CASE Live(m)
            <4>1. Held(m) /\ m.of \in Requests
                BY <2>3, <3>1, LiveOf DEF IdsAreKept
            <4>2. m.seq # sequence
                BY <1>4, <4>1, CallAssumption DEF Held
            <4> QED
                BY <1>3, <4>1, <4>2 DEF Held
        <3>2. CASE m.of = c /\ m.seq = NextId
            BY <1>2, <1>3, <3>2 DEF Held
        <3> QED
            BY <2>3, <3>1, <3>2
    <2>4. ASSUME NEW s \in 0 .. MaxSequence, Echo(s)'
          PROVE  s \in Id /\ waiters'[s] \notin Requests /\ s < sequence'
        <3>1. CASE Echo(s)
            <4>1. s \in Id /\ waiters[s] \notin Requests /\ s < sequence
                BY <1>1, <3>1 DEF IdsAreKept
            <4>2. s # sequence /\ s < sequence + 1
                BY <1>3, <4>1
            <4> QED
                BY <1>3, <4>1, <4>2
        <3>2. CASE s = NextId /\ c \in Pings
            <4>1. sequence < sequence + 1
                BY <1>3
            <4> QED
                BY <1>2, <1>3, <3>2, <4>1, CallAssumption
        <3> QED
            BY <2>4, <3>1, <3>2
    <2> QED
        BY <2>1, <2>2, <2>3, <2>4 DEF IdsAreKept, Id
<1> QED
    BY <1>5, <1>6

(* A keepalive ping draws an id that is nobody's. *)
LEMMA DrawPing ==
    ASSUME TypeInv, Sound, IdsSuffice, CallersCalled, IdsAreNew, IdsAreKept, UNCHANGED scenario,
           sequence # GoAwaySequence, keepalives <= scenario.keepalives,
           sequence' = AfterNextId, keepalives' = keepalives + 1,
           UNCHANGED <<waiters, call, goAwayTimer>>,
           \A m \in Msg : m.op = "Request" /\ Live(m)' => Live(m),
           \A s \in 0 .. MaxSequence : Echo(s)' => Echo(s) \/ s = NextId
    PROVE  IdsAreNew' /\ IdsAreKept'
<1>0. TypeOK /\ NextId \in Id /\ keepalives \in Nat
    <2>1. TypeOK
        BY DEF TypeInv
    <2>2. scenario.keepalives \in Nat
        BY <2>1, ScenarioAssumption DEF TypeOK, Surroundings
    <2> QED
        BY <2>1, <2>2, NextIdType DEF TypeOK
<1>1. \A s, t \in Id : waiters'[s] # None /\ waiters'[s] = waiters'[t] => s = t
    BY DEF IdsAreKept
<1>2. \A c \in Call : call'[c] = "waiting" => \E s \in Id : waiters'[s] = c
    BY DEF IdsAreKept
<1>3. ASSUME NEW m \in Msg, m.op = "Request", Live(m)' PROVE Held(m)'
    BY <1>3 DEF IdsAreKept, Held
<1>4. ~goAwayTimer'
    BY DEF IdsAreNew
<1>5. CASE Drawing(scenario) = {}
    <2>1. \A s \in Id : waiters'[s] = None
        BY <1>5, NobodyDraws
    <2>2. ASSUME NEW s \in 0 .. MaxSequence, Echo(s)' PROVE s \in Id /\ waiters'[s] \notin Requests
        BY <1>0, <2>1, <2>2, CallAssumption DEF IdsAreKept
    <2> QED
        BY <1>1, <1>2, <1>3, <1>4, <1>5, <2>1, <2>2 DEF IdsAreNew, IdsAreKept, Id
<1>6. CASE Drawing(scenario) # {}
    <2>1. /\ sequence \in Id /\ sequence < MaxSequence
          /\ NextId = sequence /\ AfterNextId = sequence + 1
        BY <1>0, <1>6, FreshId
    <2>2. sequence \in Nat /\ sequence' = sequence + 1 /\ waiters[sequence] = None
        <3>1. sequence \in Nat /\ ~(sequence < sequence)
            BY <2>1 DEF Id
        <3> QED
            BY <2>1, <3>1 DEF IdsAreNew
    <2>3. sequence' <= 1 + Cardinality(Drawn') + keepalives'
        <3>1. Drawn' = Drawn
            BY DEF Drawn
        <3>2. Cardinality(Drawn) \in Nat
            BY <1>0, <1>6, DrawnIsDrawing, DrawnFacts
        <3>3. sequence <= 1 + Cardinality(Drawn) + keepalives
            BY <1>6 DEF IdsAreNew
        <3> QED
            BY <1>0, <2>2, <3>1, <3>2, <3>3
    <2>4. ASSUME NEW s \in Id, waiters'[s] # None PROVE s < sequence'
        <3>1. s < sequence
            BY <2>4 DEF IdsAreNew
        <3> QED
            BY <2>2, <3>1 DEF Id
    <2>5. ASSUME NEW s \in 0 .. MaxSequence, Echo(s)'
          PROVE  s \in Id /\ waiters'[s] \notin Requests /\ s < sequence'
        <3>1. CASE Echo(s)
            <4>1. s \in Id /\ waiters[s] \notin Requests /\ s < sequence
                BY <1>6, <3>1 DEF IdsAreKept
            <4> QED
                BY <2>2, <4>1 DEF Id
        <3>2. CASE s = NextId
            <4>1. sequence < sequence + 1
                BY <2>2
            <4> QED
                BY <2>1, <2>2, <3>2, <4>1, CallAssumption
        <3> QED
            BY <2>5, <3>1, <3>2
    <2> QED
        BY <1>1, <1>2, <1>3, <1>4, <2>3, <2>4, <2>5 DEF IdsAreNew, IdsAreKept, Id
<1> QED
    BY <1>5, <1>6

(* Who draws an id waits then, or is a keepalive ping. *)
LEMMA DrawsNone ==
    ASSUME TypeInv, OfClient(ClientStep), UNCHANGED keepalives,
           \A c \in Call : call'[c] = "waiting" => call[c] = "waiting"
    PROVE  Onward
<1>0. TypeOK /\ ClientStep /\ keepalives \in Nat
    <2>1. TypeOK
        BY DEF TypeInv
    <2>2. scenario.keepalives \in Nat
        BY <2>1, ScenarioAssumption DEF TypeOK, Surroundings
    <2> QED
        BY <2>1, <2>2 DEF TypeOK, OfClient
<1>1. ASSUME NEW c \in Call, HandleRequest(c) \/ HandlePingCall(c) PROVE FALSE
    <2>1. call[c] = "idle" /\ call' = [call EXCEPT ![c] = "waiting"]
        BY <1>1 DEF HandleRequest, HandlePingCall, Called
    <2>2. call'[c] = "waiting"
        BY <1>0, <2>1 DEF TypeOK
    <2> QED
        BY <2>1, <2>2
<1>2. ~Pinging
    <2>1. ~(SendPing /\ lastPing = 0)
        BY <1>0 DEF SendPing
    <2> QED
        BY <1>1, <2>1 DEF Pinging, Call
<1>3. ASSUME NEW m \in Msg, m.op = "Request", Live(m)' PROVE Live(m)
    BY <1>1, <1>3, ClientLive DEF Call
<1>4. ASSUME NEW s \in 0 .. MaxSequence, Echo(s)' PROVE Echo(s)
    BY <1>0, <1>2, <1>4, ClientEcho
<1> QED
    BY <1>3, <1>4 DEF Onward

(* A step that leaves waiters alone. *)
LEMMA UntouchedIsSteady ==
    ASSUME Onward, UNCHANGED <<scenario, keepalives, waiters>>,
           sequence' \in {sequence, GoAwaySequence},
           goAwayTimer' => goAwayTimer \/ sequence' = GoAwaySequence,
           \A c \in Call : /\ call'[c] = "idle" => call[c] = "idle"
                           /\ call'[c] = "waiting" => call[c] = "waiting"
    PROVE  Steady
BY DEF Steady, Onward

(* The answer that is taken is the one that its caller waits for. *)
LEMMA ResponseIsHeld ==
    ASSUME TypeInv, Sound, IdsAreKept, Take("Response")
    PROVE  /\ Head(fromServer) \in Responses(Head(fromServer).of) /\ Head(fromServer).of \in Requests
           /\ Head(fromServer).seq \in Id /\ waiters[Head(fromServer).seq] = Head(fromServer).of
<1> DEFINE h == Head(fromServer)
           m == [h EXCEPT !.op = "Request"]
<1>1. fromServer \in Seq(Msg) /\ fromServer # <<>> /\ h \in Msg /\ h.op = "Response"
    BY QueueTypes DEF TypeInv, TypeOK, Take
<1>2. m \in Msg /\ m.op = "Request" /\ AsResponse(m) = h /\ m.seq = h.seq /\ m.of = h.of
    BY <1>1 DEF AsResponse, Msg
<1> HIDE DEF m, h
<1>3. Hits(fromServer, {h})
    BY <1>1, HitsTail DEF h
<1>4. Live(m)
    BY <1>2, <1>3 DEF Live, AsResponse
<1>5. Held(m) /\ m.of \in Requests
    BY <1>2, <1>4, LiveOf DEF IdsAreKept
<1>6. h \in Responses(h.of)
    BY <1>1 DEF Responses
<1> QED
    BY <1>2, <1>5, <1>6 DEF Held, h

(* Once the answer of a request is taken, none of its frames is on its way. *)
LEMMA AnswerIsLast ==
    ASSUME TypeInv, NEW r \in Requests, Job(r), UNCHANGED <<packets, toServer, srv, worker, box>>,
           fromServer # <<>>, fromServer' = Tail(fromServer), Head(fromServer) \in Responses(r),
           NEW m \in Msg, m.op = "Request", m.of = r
    PROVE  ~Live(m)'
<1>1. fromServer \in Seq(Msg)
    BY DEF TypeInv, TypeOK
<1>2. Hits(fromServer, Responses(r)) /\ ~Hits(fromServer', Responses(r))
    BY <1>1, HitsTail DEF Job, Answering
<1>3. /\ srv.answers[r] = 1 /\ worker[r] # "none" /\ worker[r] # "running"
      /\ ~Hits(box, Said(r))
    BY <1>2 DEF Job, Answering
<1>4. ~Hits(packets, Asks(r)) /\ ~Hits(toServer, Asks(r))
    BY <1>3 DEF Job, Asking
<1>5. m \in Asks(r) /\ AsResponse(m) \in Responses(r)
    BY AsResponseFacts DEF Asks, Responses
<1>6. RepliesTo(m) \subseteq Said(r)
    BY DEF Said, RepliesTo
<1>7. ~Hits(packets, {m}) /\ ~Hits(toServer, {m})
    BY <1>4, <1>5 DEF Hits
<1>8. ~Hits(box, RepliesTo(m))
    BY <1>3, <1>6 DEF Hits
<1>9. ~Hits(fromServer', {AsResponse(m)})
    BY <1>2, <1>5 DEF Hits
<1> QED
    BY <1>3, <1>7, <1>8, <1>9 DEF Live, AsResponse

(* A caller whose answer comes leaves the books, and nobody else. *)
LEMMA TakenOut ==
    ASSUME TypeOK, CallersCalled, IdsAreKept, NEW s \in Id, NEW o, Onward,
           waiters' = [waiters EXCEPT ![s] = None],
           IF waiters[s] = None THEN UNCHANGED call ELSE Reply(waiters[s], o),
           UNCHANGED <<scenario, keepalives, sequence, goAwayTimer>>,
           \A m \in Msg : m.op = "Request" /\ Live(m)' => m.seq # s
    PROVE  Steady
<1>1. \A t \in Id : waiters'[t] = IF t = s THEN None ELSE waiters[t]
    BY DEF TypeOK
<1>2. \A c \in Call : /\ call'[c] = "idle" => call[c] = "idle"
                      /\ call'[c] = "waiting" => call[c] = "waiting" /\ c # waiters[s]
    <2>1. CASE waiters[s] = None
        BY <2>1, CallAssumption DEF Call
    <2>2. CASE waiters[s] # None
        <3>1. Reply(waiters[s], o) /\ waiters[s] \in Call
            BY <2>2 DEF CallersCalled, Call
        <3> QED
            BY <3>1 DEF Reply, TypeOK
    <2> QED
        BY <2>1, <2>2
<1>3. \A t \in Id : waiters'[t] \in {waiters[t], None}
    BY <1>1
<1>4. ASSUME NEW c \in Call, call'[c] = "waiting", NEW t \in Id, waiters[t] = c PROVE waiters'[t] = c
    BY <1>1, <1>2, <1>4
<1>5. ASSUME NEW m \in Msg, m.op = "Request", Live(m)'
      PROVE  Live(m) /\ \A t \in Id : m.seq = t => waiters'[t] = waiters[t]
    BY <1>1, <1>5 DEF Onward
<1> QED
    BY <1>2, <1>3, <1>4, <1>5 DEF Steady, Onward

LEMMA PongIsSteady ==
    ASSUME TypeInv, Sound, CallersCalled, IdsAreKept, OfClient(ClientStep), HandlePong
    PROVE  Steady
<1>0. TypeOK /\ UNCHANGED <<scenario, keepalives, sequence, goAwayTimer>>
    BY DEF TypeInv, OfClient, HandlePong
<1>1. Callers /\ \A c \in Call : call'[c] = "waiting" => call[c] = "waiting"
    <2>1. UNCHANGED call \/ \E d, o : Reply(d, o)
        BY DEF HandlePong, callVars
    <2> QED
        BY <1>0, <2>1, ClientCallers DEF OfClient, Reply, TypeOK
<1>2. Onward
    BY <1>0, <1>1, DrawsNone
<1>3. CASE UNCHANGED waiters
    BY <1>0, <1>1, <1>2, <1>3, UntouchedIsSteady DEF Callers
<1>4. CASE ~UNCHANGED waiters
    <2> DEFINE s == Head(fromServer).seq
    <2>1. /\ waiters' = [waiters EXCEPT ![s] = None]
          /\ IF waiters[s] = None THEN UNCHANGED call ELSE Reply(waiters[s], Outcome("pong", None))
        BY <1>4 DEF HandlePong, callVars
    <2>2. /\ fromServer \in Seq(Msg) /\ fromServer # <<>> /\ Head(fromServer) \in Msg
          /\ Head(fromServer).op = "Pong"
        BY <1>0, QueueTypes DEF TypeOK, HandlePong, Take
    <2>3. s \in 0 .. MaxSequence /\ Head(fromServer) \in Echoes("Pong", s)
        BY <2>2 DEF Msg, Echoes
    <2>4. Echo(s)
        BY <2>2, <2>3, HitsTail, EchoFacts
    <2> HIDE DEF s
    <2>5. s \in Id /\ waiters[s] \notin Requests
        BY <2>3, <2>4 DEF IdsAreKept
    <2>6. ASSUME NEW m \in Msg, m.op = "Request", Live(m)' PROVE m.seq # s
        <3>1. Held(m) /\ m.of \in Requests
            BY <1>2, <2>6, LiveOf DEF Onward, IdsAreKept
        <3> QED
            BY <2>5, <3>1 DEF Held
    <2> QED
        BY <1>0, <1>2, <2>1, <2>5, <2>6, TakenOut
<1> QED
    BY <1>3, <1>4

LEMMA ResponseIsSteady ==
    ASSUME TypeInv, JobInv, CallersCalled, IdsAreKept, OfClient(ClientStep), HandleResponse
    PROVE  /\ Steady /\ UNCHANGED <<status, why>>
           /\ Reply(Head(fromServer).of, Outcome("ok", Head(fromServer).of))
           /\ Head(fromServer).of \in Requests
<1> DEFINE s == Head(fromServer).seq
           r == Head(fromServer).of
<1>0. TypeOK /\ UNCHANGED <<scenario, keepalives, sequence, goAwayTimer, packets, toServer, srv, worker, box>>
    BY DEF TypeInv, OfClient, HandleResponse, serverVars
<1>1. /\ Head(fromServer) \in Responses(r) /\ r \in Requests
      /\ s \in Id /\ waiters[s] = r /\ fromServer # <<>> /\ fromServer' = Tail(fromServer)
    BY ResponseIsHeld DEF HandleResponse, JobInv, Take
<1>2. waiters[s] # None
    BY <1>1, CallAssumption
<1>3. /\ Reply(r, Outcome("ok", r)) /\ waiters' = [waiters EXCEPT ![s] = None]
      /\ UNCHANGED <<status, why>>
    BY <1>1, <1>2 DEF HandleResponse
<1> HIDE DEF s, r
<1>4. \A c \in Call : call'[c] = "waiting" => call[c] = "waiting"
    BY <1>0, <1>3 DEF Reply, TypeOK
<1>5. Onward
    BY <1>0, <1>4, DrawsNone
<1>6. ASSUME NEW m \in Msg, m.op = "Request", Live(m)' PROVE m.seq # s
    <2>1. Held(m) /\ Job(r)
        BY <1>1, <1>5, <1>6 DEF Onward, IdsAreKept, JobInv
    <2>2. m.of # r
        BY <1>0, <1>1, <1>6, <2>1, AnswerIsLast
    <2> QED
        BY <1>1, <2>1, <2>2 DEF Held
<1>7. Steady
    BY <1>0, <1>1, <1>2, <1>3, <1>5, <1>6, TakenOut
<1> QED
    BY <1>1, <1>3, <1>7 DEF r

(* The process does not start again, and a ping after a GoAway stays in the     *)
(* history.                                                                  *)
LEMMA CountingBefore ==
    ASSUME TypeOK, ClientStep, Counting'
    PROVE  Counting /\ status # "stopped" /\ ~reset /\ status' # "stopped" /\ ~reset'
<1> USE DEF clientVars, callVars, netVars
<1>1. ASSUME NEW c \in Call, CallStep(c) PROVE Counting
    BY <1>1 DEF CallStep, HandlePingCall, HandleCallGoneAway, HandleClose, CallRaises, HandleRequest, HandlePush,
                CallStopped, TimeOut, Stop, Counting, TypeOK
<1>2. CASE Connect \/ TcpClosed \/ CloseGoAway \/ SendPing \/ FlushPackets
    BY <1>2 DEF Connect, TcpClosed, CloseGoAway, SendPing, FlushPackets, Stop, Counting, TypeOK
<1>3. CASE PacketStep
    BY <1>3 DEF PacketStep, HandlePing, HandlePong, HandleHelloAck, HandleResponse, HandleGoAway,
                HandleUnknown, Take, Counting, TypeOK
<1> QED
    BY <1>1, <1>2, <1>3 DEF ClientStep, Counting

(* A caller's message, and a keepalive ping. *)
LEMMA CallIds ==
    ASSUME TypeInv, JobInv, IdsSuffice, CallersCalled, CallersCalled', IdsAreNew, IdsAreKept,
           OfClient(ClientStep), Counting', NEW c \in Call, CallStep(c)
    PROVE  IdsAreNew' /\ IdsAreKept'
<1> USE DEF clientVars, callVars, netVars
<1>0. TypeOK /\ ClientStep /\ UNCHANGED scenario /\ Sound
    BY DEF TypeInv, OfClient, JobInv
<1>1. ~reset' /\ status # "stopped" /\ status' # "stopped" /\ Callers
    BY <1>0, CountingBefore, ClientCallers
<1>2. NextId \in 0 .. MaxSequence
    BY <1>0, NextIdType DEF Id
<1>3. CASE HandlePingCall(c)
    <2>1. c \in Pings /\ sequence # GoAwaySequence
        BY <1>1, <1>3 DEF HandlePingCall
    <2>2. \A m \in Msg : m.op = "Request" /\ Live(m)' => Live(m)
        <3>1. ASSUME NEW d \in Requests, HandleRequest(d) PROVE FALSE
            <4>1. /\ d \in Call /\ d # c /\ call[d] = "idle" /\ call' = [call EXCEPT ![c] = "waiting"]
                  /\ call' = [call EXCEPT ![d] = "waiting"]
                BY <1>3, <2>1, <3>1, CallAssumption DEF HandleRequest, HandlePingCall, Called, Call
            <4>2. call'[d] = "idle" /\ call'[d] = "waiting"
                BY <1>0, <4>1 DEF TypeOK
            <4> QED
                BY <4>2
        <3> QED
            BY <3>1, ClientLive
    <2>3. \A s \in 0 .. MaxSequence : Echo(s)' => Echo(s) \/ (s = NextId /\ c \in Pings)
        BY <1>0, <2>1, ClientEcho
    <2> QED
        BY <1>0, <1>3, <2>1, <2>2, <2>3, DrawCall DEF HandlePingCall
<1>4. CASE HandleRequest(c)
    <2>1. c \in Requests /\ sequence # GoAwaySequence
        BY <1>4 DEF HandleRequest
    <2>2. ~Pinging
        <3>1. ASSUME NEW d \in Pings, HandlePingCall(d) PROVE FALSE
            <4>1. /\ d \in Call /\ d # c /\ call[d] = "idle" /\ call' = [call EXCEPT ![c] = "waiting"]
                  /\ call' = [call EXCEPT ![d] = "waiting"]
                BY <1>4, <2>1, <3>1, CallAssumption DEF HandleRequest, HandlePingCall, Called, Call
            <4>2. call'[d] = "idle" /\ call'[d] = "waiting"
                BY <1>0, <4>1 DEF TypeOK
            <4> QED
                BY <4>2
        <3>2. ~(SendPing /\ lastPing = 0)
            <4>1. lastPing' = lastPing
                BY <1>4 DEF HandleRequest
            <4>2. NextId # 0
                BY <1>0, NextIdType DEF Id
            <4> QED
                BY <4>1, <4>2 DEF SendPing
        <3> QED
            BY <3>1, <3>2 DEF Pinging
    <2>3. \A s \in 0 .. MaxSequence : Echo(s)' => Echo(s)
        BY <1>0, <2>2, ClientEcho
    <2>4. ASSUME NEW m \in Msg, m.op = "Request", Live(m)', ~Live(m) PROVE m.of = c /\ m.seq = NextId
        <3>1. PICK d \in Requests : HandleRequest(d) /\ m = Payload("Request", NextId, d)
            BY <2>4, ClientLive
        <3>2. d = c
            <4>1. /\ d \in Call /\ call[d] = "idle" /\ call' = [call EXCEPT ![c] = "waiting"]
                  /\ call' = [call EXCEPT ![d] = "waiting"]
                BY <1>4, <3>1 DEF HandleRequest, Called, Call
            <4>2. call'[d] = "waiting" /\ (d # c => call'[d] = "idle")
                BY <1>0, <4>1 DEF TypeOK
            <4> QED
                BY <4>2
        <3> QED
            BY <1>2, <3>1, <3>2, FramesBuilt
    <2>5. /\ sequence' = AfterNextId /\ waiters' = [waiters EXCEPT ![NextId] = c] /\ Called(c)
          /\ call' = [call EXCEPT ![c] = "waiting"] /\ UNCHANGED <<keepalives, goAwayTimer>>
        BY <1>4 DEF HandleRequest
    <2> QED
        BY <1>0, <2>1, <2>3, <2>4, <2>5, DrawCall
<1>5. CASE HandleCallGoneAway(c) \/ HandlePush(c) \/ TimeOut(c)
    <2>1. /\ UNCHANGED <<keepalives, waiters, sequence, goAwayTimer>>
          /\ call' = [call EXCEPT ![c] = "done"]
        BY <1>5 DEF HandleCallGoneAway, HandlePush, TimeOut
    <2>2. \A d \in Call : call'[d] = "waiting" => call[d] = "waiting"
        BY <1>0, <2>1 DEF TypeOK
    <2>3. Onward
        BY <2>1, <2>2, DrawsNone
    <2>4. Steady
        BY <1>0, <1>1, <2>1, <2>2, <2>3, UntouchedIsSteady DEF Callers
    <2> QED
        BY <1>0, <2>4, SteadyNew, SteadyKept
<1>6. CASE HandleClose(c) \/ CallRaises(c) \/ CallStopped(c)
    BY <1>1, <1>6 DEF HandleClose, CallRaises, CallStopped, Stop
<1> QED
    BY <1>3, <1>4, <1>5, <1>6 DEF CallStep

LEMMA ClientIds ==
    ASSUME TypeInv, JobInv, IdsSuffice, CallersCalled, CallersCalled', IdsAreNew, IdsAreKept,
           OfClient(ClientStep), Counting'
    PROVE  IdsAreNew' /\ IdsAreKept'
<1> USE DEF clientVars, callVars, netVars
<1>0. TypeOK /\ ClientStep /\ UNCHANGED scenario /\ Sound
    BY DEF TypeInv, OfClient, JobInv
<1>1. ~reset' /\ status # "stopped" /\ status' # "stopped" /\ Callers
    BY <1>0, CountingBefore, ClientCallers
<1>2. ASSUME Steady PROVE IdsAreNew' /\ IdsAreKept'
    BY <1>0, <1>2, SteadyNew, SteadyKept
<1>3. CASE SendPing
    <2>1. /\ lastPing = 0 /\ MaySendPing /\ sequence' = AfterNextId /\ keepalives' = keepalives + 1
          /\ sequence # GoAwaySequence /\ UNCHANGED <<waiters, call, goAwayTimer>>
        BY <1>1, <1>3 DEF SendPing, Stop
    <2>2. keepalives <= scenario.keepalives
        <3>1. scenario.keepalives \in Nat
            BY <1>0, ScenarioAssumption DEF TypeOK, Surroundings
        <3>2. keepalives \in Nat
            BY <1>0, <3>1 DEF TypeOK
        <3> QED
            BY <2>1, <3>1, <3>2 DEF MaySendPing
    <2>3. \A m \in Msg : m.op = "Request" /\ Live(m)' => Live(m)
        <3>1. ASSUME NEW d \in Requests, HandleRequest(d) PROVE FALSE
            <4>1. d \in Call /\ call[d] = "idle" /\ call' = [call EXCEPT ![d] = "waiting"] /\ call' = call
                BY <2>1, <3>1 DEF HandleRequest, Called, Call
            <4> QED
                BY <1>0, <4>1 DEF TypeOK
        <3> QED
            BY <3>1, ClientLive
    <2>4. \A s \in 0 .. MaxSequence : Echo(s)' => Echo(s) \/ s = NextId
        BY <1>0, ClientEcho
    <2> QED
        BY <1>0, <2>1, <2>2, <2>3, <2>4, DrawPing
<1>4. CASE HandlePong
    BY <1>0, <1>2, <1>4, PongIsSteady
<1>5. CASE HandleResponse
    BY <1>2, <1>5, ResponseIsSteady
<1>6. CASE Connect \/ FlushPackets \/ HandlePing \/ HandleHelloAck \/ HandleGoAway \/ HandleUnknown
    <2>1. /\ UNCHANGED <<keepalives, waiters, call>>
          /\ sequence' \in {sequence, GoAwaySequence}
          /\ goAwayTimer' => goAwayTimer \/ sequence' = GoAwaySequence
        BY <1>1, <1>6 DEF Connect, FlushPackets, HandlePing, HandleHelloAck, HandleGoAway,
                          HandleUnknown, Stop
    <2>2. Onward
        BY <2>1, DrawsNone
    <2> QED
        BY <1>0, <1>2, <2>1, <2>2, UntouchedIsSteady
<1>7. CASE TcpClosed \/ CloseGoAway
    BY <1>1, <1>7 DEF TcpClosed, CloseGoAway, Stop
<1> QED
    BY <1>0, <1>3, <1>4, <1>5, <1>6, <1>7, CallIds DEF ClientStep, PacketStep

(* The server's steps leave the books of the client as they are. *)
LEMMA ServerIds ==
    ASSUME TypeInv, JobInv, IdsSuffice, CallersCalled, IdsAreNew, IdsAreKept,
           ServerStep \/ LinkFails, UNCHANGED scenario
    PROVE  IdsAreNew' /\ IdsAreKept'
<1>1. Onward /\ UNCHANGED <<clientVars, callVars>>
    BY ServerOnward
<1>2. TypeOK /\ CallersCalled'
    BY <1>1 DEF TypeInv, CallersCalled, clientVars, callVars
<1>3. Steady
    BY <1>1, UntouchedIsSteady DEF clientVars, callVars
<1> QED
    BY <1>2, <1>3, SteadyNew, SteadyKept
-----------------------------------------------------------------------------
(* Answers reach their callers, and nothing crashes.                       *)

(* Only a response makes a call return an answer. *)
LEMMA OnlyResponseAnswers ==
    ASSUME TypeOK, ClientStep, ~HandleResponse, NEW c \in Call, result'[c].kind = "ok"
    PROVE  result'[c] = result[c]
<1> USE DEF clientVars, callVars, netVars
<1>1. ASSUME NEW reason, NEW replied, NEW o, o.kind # "ok", Stop(reason, replied, o)
      PROVE  result'[c] = result[c]
    <2>1. Outcome("exit", None).kind # "ok"
        BY DEF Outcome
    <2>2. result'[c] \in {o, Outcome("exit", None), result[c]}
        BY <1>1 DEF Stop
    <2> QED
        BY <1>1, <2>1, <2>2
<1>2. \A k : Outcome(k, None).kind = k
    BY DEF Outcome
<1>3. ASSUME NEW d \in Call, CallStep(d) PROVE result'[c] = result[c]
    <2>1. CASE HandleClose(d) \/ CallRaises(d)
        BY <1>1, <1>2, <2>1 DEF HandleClose, CallRaises
    <2>2. CASE HandlePingCall(d) \/ HandleRequest(d)
        BY <2>2 DEF HandlePingCall, HandleRequest
    <2>3. CASE HandleCallGoneAway(d) \/ HandlePush(d) \/ TimeOut(d) \/ CallStopped(d)
        <3>1. PICK k \in {"went_away", "sent", "timeout", "exit"} :
                  result' = [result EXCEPT ![d] = Outcome(k, None)]
            BY <2>3 DEF HandleCallGoneAway, HandlePush, TimeOut, CallStopped
        <3> QED
            BY <1>2, <3>1 DEF TypeOK
    <2> QED
        BY <1>3, <2>1, <2>2, <2>3 DEF CallStep
<1>4. CASE Connect \/ FlushPackets \/ TcpClosed \/ CloseGoAway \/ SendPing
    BY <1>1, <1>2, <1>4 DEF Connect, FlushPackets, TcpClosed, CloseGoAway, SendPing
<1>5. CASE HandlePong
    <2>1. UNCHANGED result \/ \E d : Reply(d, Outcome("pong", None))
        BY <1>5 DEF HandlePong
    <2> QED
        BY <1>2, <2>1 DEF Reply, TypeOK
<1>6. CASE HandlePing \/ HandleHelloAck \/ HandleGoAway \/ HandleUnknown
    BY <1>6 DEF HandlePing, HandleHelloAck, HandleGoAway, HandleUnknown
<1> QED
    BY <1>3, <1>4, <1>5, <1>6 DEF ClientStep, PacketStep

(* The history does not forget a ping that fell between GoAway and close. *)
LEMMA ResetStays ==
    ASSUME ClientStep
    PROVE  reset => reset'
<1> USE DEF clientVars, callVars, netVars
<1>1. ASSUME NEW d \in Call, CallStep(d) PROVE reset => reset'
    BY <1>1 DEF CallStep, HandlePingCall, HandleCallGoneAway, HandleClose, CallRaises, HandleRequest, HandlePush,
                CallStopped, TimeOut
<1>2. CASE PacketStep
    BY <1>2 DEF PacketStep, HandlePing, HandlePong, HandleHelloAck, HandleResponse, HandleGoAway,
                HandleUnknown
<1> QED
    BY <1>1, <1>2 DEF ClientStep, Connect, FlushPackets, TcpClosed, CloseGoAway, SendPing

LEMMA ClientAnswers ==
    ASSUME TypeInv, JobInv, CallersCalled, Counting => IdsAreNew /\ IdsAreKept, AnswerIsOwn,
           OfClient(ClientStep)
    PROVE  AnswerIsOwn'
<1>0. TypeOK /\ ClientStep /\ (reset => reset')
    BY ResetStays DEF TypeInv, OfClient
<1> SUFFICES ASSUME ~reset'
             PROVE  /\ \A r \in Requests : result'[r].kind = "ok" => result'[r].of = r
                    /\ \A c \in Call \ Requests : result'[c].kind # "ok"
    BY DEF AnswerIsOwn
<1>1. /\ \A r \in Requests : result[r].kind = "ok" => result[r].of = r
      /\ \A c \in Call \ Requests : result[c].kind # "ok"
    BY <1>0 DEF AnswerIsOwn
<1>2. CASE ~HandleResponse
    BY <1>0, <1>1, <1>2, OnlyResponseAnswers DEF Call
<1>3. CASE HandleResponse
    <2> DEFINE r == Head(fromServer).of
    <2>1. Counting
        BY <1>0, <1>3 DEF HandleResponse, Take, Counting
    <2>2. Reply(r, Outcome("ok", r)) /\ r \in Requests
        BY <1>3, <2>1, ResponseIsSteady
    <2> HIDE DEF r
    <2>3. result' = result \/ result' = [result EXCEPT ![r] = Outcome("ok", r)]
        BY <2>2 DEF Reply
    <2>4. Outcome("ok", r).of = r
        BY DEF Outcome
    <2>5. \A c \in Call : result'[c] = result[c] \/ (c = r /\ result'[c] = Outcome("ok", r))
        BY <1>0, <2>3 DEF TypeOK
    <2> QED
        BY <1>1, <2>2, <2>4, <2>5 DEF Call
<1> QED
    BY <1>2, <1>3

LEMMA ClientNeverCrashes ==
    ASSUME TypeInv, JobInv, CallersCalled, Counting => IdsAreNew /\ IdsAreKept, NeverCrashes,
           OfClient(ClientStep)
    PROVE  NeverCrashes'
<1> USE DEF clientVars, callVars, netVars
<1>0. TypeOK /\ ClientStep /\ (reset => reset') /\ UNCHANGED <<scenario, srv, box>>
    BY ResetStays DEF TypeInv, OfClient, serverVars
<1>1. UNCHANGED link /\ (status = "stopped" => status' = "stopped")
    <2>1. ASSUME NEW c \in Call, CallStep(c)
          PROVE  UNCHANGED link /\ (status = "stopped" => status' = "stopped")
        BY <2>1 DEF CallStep, HandlePingCall, HandleCallGoneAway, HandleClose, CallRaises, HandleRequest,
                    HandlePush, CallStopped, TimeOut, Stop
    <2>2. CASE PacketStep
        BY <2>2 DEF PacketStep, HandlePing, HandlePong, HandleHelloAck, HandleResponse, HandleGoAway,
                    HandleUnknown, Take
    <2>3. CASE Connect \/ FlushPackets \/ TcpClosed \/ CloseGoAway \/ SendPing
        BY <2>3 DEF Connect, FlushPackets, TcpClosed, CloseGoAway, SendPing
    <2> QED
        BY <1>0, <2>1, <2>2, <2>3 DEF ClientStep
<1>2. ASSUME ~reset', "oddPayload" \notin scenario.faults, why' = "crash" PROVE FALSE
    <2>0. why # "crash" /\ ~reset
        BY <1>0, <1>2 DEF NeverCrashes
    <2>1. ASSUME NEW c \in Call, CallStep(c) PROVE FALSE
        BY <1>2, <2>0, <2>1 DEF CallStep, HandlePingCall, HandleCallGoneAway, HandleClose, CallRaises, HandleRequest,
                    HandlePush, CallStopped, TimeOut, Stop
    <2>2. CASE HandleResponse
        <3>1. Counting
            BY <2>0, <2>2 DEF HandleResponse, Take, Counting
        <3> QED
            BY <1>2, <2>0, <2>2, <3>1, ResponseIsSteady
    <2>3. CASE CloseGoAway
        <3>1. Counting /\ goAwayTimer
            BY <2>0, <2>3 DEF CloseGoAway, Counting
        <3>2. sequence = GoAwaySequence
            BY <3>1 DEF IdsAreNew
        <3> QED
            BY <1>2, <2>3, <3>2 DEF CloseGoAway, Stop
    <2>4. CASE HandlePing \/ HandlePong \/ HandleHelloAck \/ HandleGoAway \/ HandleUnknown
        BY <1>2, <2>0, <2>4 DEF HandlePing, HandlePong, HandleHelloAck, HandleGoAway, HandleUnknown
    <2>5. CASE Connect \/ FlushPackets \/ TcpClosed \/ SendPing
        BY <1>2, <2>0, <2>5 DEF Connect, FlushPackets, TcpClosed, SendPing, Stop
    <2> QED
        BY <1>0, <2>1, <2>2, <2>3, <2>4, <2>5 DEF ClientStep, PacketStep
<1> QED
    BY <1>0, <1>1, <1>2 DEF NeverCrashes, OddInMailbox

(* The server crashes of a codec, or of a socket that is gone. *)
LEMMA ServerNeverCrashes ==
    ASSUME TypeInv, Sound, NeverCrashes, ServerStep \/ LinkFails, UNCHANGED scenario
    PROVE  NeverCrashes'
<1> USE DEF clientVars
<1> DEFINE Gone == link \in {"broken", "silent"} \/ status = "stopped"
<1>0. srv \in Server /\ link \in {"up", "closed", "broken", "silent"}
    BY DEF TypeInv, TypeOK, ServerTypeOK
<1>1. UNCHANGED <<status, why, reset>>
    BY DEF ServerStep, LinkFails, Mailbox, ServerData, ServerResponses, ServerDown, ReplyRaises, ServerPing,
           ServerTcpClosed, WorkerStep, WorkerReturns, WorkerExits
<1>2. ASSUME NEW how, End(how)
      PROVE  srv'.status = how /\ (link \in {"broken", "silent"} => link' = link)
    BY <1>0, <1>2 DEF End, Server
<1>3. ASSUME GoAway, srv.status = "up" PROVE srv'.status = "crashed" => Gone /\ Gone'
    <2>1. link # "closed"
        BY <1>3 DEF Sound
    <2> QED
        BY <1>0, <1>1, <1>2, <1>3, <2>1 DEF GoAway
<1>4. ASSUME srv'.status = srv.status, link' = link \/ link = "up", srv.status # "up" => box' = box
      PROVE  NeverCrashes'
    BY <1>1, <1>4 DEF NeverCrashes, OddInMailbox
<1>5. ASSUME srv'.status = "crashed" => "recode" \in scenario.faults \/ Gone' \/ OddInMailbox'
      PROVE  NeverCrashes'
    BY <1>1, <1>5 DEF NeverCrashes
<1>6. CASE ServerData
    <2>1. PICK m : ServerData /\ m = Head(toServer)
        BY <1>6
    <2>2. srv.status = "up" /\ link = "up"
        BY <1>6 DEF ServerData
    <2>3. \/ HandleHello
          \/ UNCHANGED <<srv, link>>
          \/ srv' = [srv EXCEPT !.ponged = TRUE] /\ UNCHANGED link
          \/ Undecodable(m) /\ End("crashed")
          \/ SpawnWorker(m) /\ UNCHANGED link
        BY <2>1 DEF ServerData
    <2>4. CASE HandleHello
        <3>1. GoAway \/ UNCHANGED <<srv, link>>
            BY <2>4 DEF HandleHello
        <3> QED
            BY <1>3, <1>4, <1>5, <2>2, <3>1
    <2>5. CASE UNCHANGED <<srv, link>>
        BY <1>4, <2>2, <2>5
    <2>6. CASE (srv' = [srv EXCEPT !.ponged = TRUE] \/ SpawnWorker(m)) /\ UNCHANGED link
        <3>1. srv'.status = srv.status
            BY <1>0, <2>6 DEF SpawnWorker, Server
        <3> QED
            BY <1>4, <2>2, <2>6, <3>1
    <2>7. CASE Undecodable(m)
        BY <1>5, <2>7 DEF Undecodable
    <2> QED
        BY <2>3, <2>4, <2>5, <2>6, <2>7
<1>7. CASE ServerResponses \/ ServerDown
    <2>1. UNCHANGED link /\ srv.status = "up"
        BY <1>7 DEF ServerResponses, ServerDown
    <2>2. srv'.status = srv.status
        BY <1>0, <1>7 DEF ServerResponses, ServerDown, Server
    <2> QED
        BY <1>4, <2>1, <2>2
<1>11. CASE ReplyRaises
    <2>1. PICK i \in DOMAIN box : box[i].odd
        <3>1. box \in Seq(Mail)
            BY DEF TypeInv, ServerTypeOK
        <3>2. CASE \E i \in DOMAIN box : box[i].kind = "response" /\ box[i].odd
            BY <3>2
        <3>3. CASE box # <<>> /\ Head(box).odd
            BY <3>1, <3>3
        <3> QED
            BY <1>11, <3>2, <3>3 DEF ReplyRaises
    <2>2. box' = box
        BY <1>11 DEF ReplyRaises
    <2> QED
        BY <1>5, <2>1, <2>2 DEF OddInMailbox
<1>8. CASE ServerPing
    <2>1. CASE GoAway
        BY <1>3, <1>5, <1>8, <2>1 DEF ServerPing
    <2>2. CASE ~GoAway
        <3>1. UNCHANGED link /\ srv' = [srv EXCEPT !.ponged = FALSE, !.seq = IF @ >= MaxSequence THEN 2 ELSE @ + 1]
            BY <1>8, <2>2 DEF ServerPing
        <3>2. srv'.status = srv.status /\ srv.status = "up"
            BY <1>0, <1>8, <3>1 DEF Server, ServerPing
        <3> QED
            BY <1>4, <3>1, <3>2
    <2> QED
        BY <2>1, <2>2
<1>9. CASE ServerTcpClosed
    <2>1. End("closed") \/ (End("crashed") /\ link = "broken")
        BY <1>9 DEF ServerTcpClosed
    <2> QED
        BY <1>2, <1>5, <2>1
<1>10. CASE LinkFails \/ \E r \in Requests : WorkerStep(r)
    <2>1. UNCHANGED srv /\ (link' = link \/ link = "up") /\ (srv.status # "up" => box' = box)
        BY <1>10 DEF LinkFails, WorkerStep, WorkerReturns, WorkerExits, Post, serverVars, netVars
    <2> QED
        BY <1>4, <2>1
<1> QED
    BY <1>6, <1>7, <1>8, <1>9, <1>10, <1>11 DEF ServerStep, Mailbox
-----------------------------------------------------------------------------
LEMMA InitBooks == Init => ClientBooks
<1> SUFFICES ASSUME Init PROVE ClientBooks
    OBVIOUS
<1> USE DEF Init, ClientInit
<1>0. /\ \A s \in Id : waiters[s] = None
      /\ \A c \in Call : call[c] = "idle" /\ result[c].kind = "none"
      /\ Requests \cup Pings \subseteq Call /\ Pushes \cup Closes \subseteq Call
    BY DEF Outcome, Call
<1>1. CallersCalled
    BY <1>0 DEF CallersCalled
<1>2. IdsAreNew
    <2>1. Drawn = {}
        BY <1>0 DEF Drawn
    <2>2. sequence <= 1 + Cardinality(Drawn) + keepalives
        BY <2>1, FS_EmptySet
    <2> QED
        BY <1>0, <2>2 DEF IdsAreNew
<1>3. IdsAreKept
    <2>1. \A m : ~Live(m)
        <3>1. srv.refs = {}
            OBVIOUS
        <3> QED
            BY <3>1, HitsEmpty DEF Live
    <2>2. \A s : ~Echo(s)
        BY HitsEmpty DEF Echo
    <2> QED
        BY <1>0, <2>1, <2>2 DEF IdsAreKept
<1>4. AnswerIsOwn
    BY <1>0 DEF AnswerIsOwn, Call
<1>5. NeverCrashes
    BY DEF NeverCrashes
<1> QED
    BY <1>1, <1>2, <1>3, <1>4, <1>5 DEF ClientBooks

LEMMA BooksStep ==
    ASSUME IdsSuffice, TypeInv, JobInv, ClientBooks, [Next]_vars
    PROVE  ClientBooks'
<1> USE DEF ClientBooks
<1>1. CASE OfClient(ClientStep)
    <2>1. CallersCalled'
        BY <1>1, CalledStep
    <2>2. ASSUME Counting' PROVE IdsAreNew' /\ IdsAreKept'
        <3>1. Counting
            BY <1>1, <2>2, CountingBefore DEF TypeInv, OfClient
        <3> QED
            BY <1>1, <2>1, <2>2, <3>1, ClientIds
    <2>3. AnswerIsOwn' /\ NeverCrashes'
        BY <1>1, ClientAnswers, ClientNeverCrashes
    <2> QED
        BY <2>1, <2>2, <2>3
<1>2. CASE OfServer(ServerStep) \/ OfServer(LinkFails)
    <2>0. (ServerStep \/ LinkFails) /\ UNCHANGED scenario
        BY <1>2 DEF OfServer
    <2>1. UNCHANGED <<clientVars, callVars, scenario>>
        BY <2>0, ServerOnward
    <2>2. CallersCalled'
        BY <2>1 DEF CallersCalled, clientVars, callVars
    <2>3. ASSUME Counting' PROVE IdsAreNew' /\ IdsAreKept'
        <3>1. Counting
            BY <2>1, <2>3 DEF Counting, clientVars
        <3> QED
            BY <2>0, <3>1, ServerIds
    <2>4. AnswerIsOwn'
        BY <2>1 DEF AnswerIsOwn, clientVars, callVars
    <2>5. NeverCrashes'
        BY <2>0, ServerNeverCrashes DEF JobInv
    <2> QED
        BY <2>2, <2>3, <2>4, <2>5
<1>3. CASE UNCHANGED vars
    <2> USE <1>3 DEF vars, clientVars, callVars, netVars, serverVars
    <2>1. CallersCalled' /\ AnswerIsOwn' /\ NeverCrashes'
        BY DEF CallersCalled, AnswerIsOwn, NeverCrashes, OddInMailbox
    <2>2. (Counting' => Counting) /\ (IdsAreNew => IdsAreNew')
        BY DEF Counting, IdsAreNew, Drawn
    <2>3. IdsAreKept => IdsAreKept'
        BY DEF IdsAreKept, Live, Echo, Held
    <2> QED
        BY <2>1, <2>2, <2>3
<1> QED
    BY <1>1, <1>2, <1>3 DEF Next

(* Under one id each, and under the monitors of their workers. *)
LEMMA BooksAreRight ==
    ASSUME TypeInv, JobInv, ClientBooks
    PROVE  BooksInv
<1>1. WaitingIsRegistered
    <2> SUFFICES ASSUME status = "up", ~reset, NEW c \in Call, call[c] = "waiting"
                 PROVE  Cardinality({s \in Id : waiters[s] = c}) = 1
        BY DEF WaitingIsRegistered
    <2>1. IdsAreKept /\ c # None
        BY CallAssumption DEF ClientBooks, Counting, Call
    <2>2. PICK s \in Id : waiters[s] = c
        BY <2>1 DEF IdsAreKept
    <2>3. {t \in Id : waiters[t] = c} = {s}
        BY <2>1, <2>2 DEF IdsAreKept
    <2> QED
        BY <2>3, FS_Singleton
<1>2. RefsAreDue
    <2> SUFFICES ASSUME srv.status = "up"
                 PROVE  {m.of : m \in srv.refs} =
                            {r \in Requests : \/ worker[r] \in {"running", "returned"}
                                              \/ \E i \in DOMAIN box : /\ box[i].request.of = r
                                                                       /\ box[i].kind \in {"normal", "crash"}}
        BY DEF RefsAreDue
    <2>1. box \in Seq(Mail) /\ DOMAIN box = 1 .. Len(box) /\ \A i \in DOMAIN box : box[i] \in Mail
        BY DEF TypeInv, ServerTypeOK
    <2>2. ASSUME NEW r \in Requests
          PROVE  Hits(box, Down(r)) <=> \E i \in DOMAIN box : /\ box[i].request.of = r
                                                              /\ box[i].kind \in {"normal", "crash"}
        BY <2>1 DEF Hits, Down
    <2>3. \A m \in srv.refs : m.of \in Requests
        BY DEF JobInv, Sound
    <2>4. \A r \in Requests : Watched(r) <=> worker[r] \in {"running", "returned"} \/ Hits(box, Down(r))
        BY DEF JobInv, Job, Watching
    <2> QED
        BY <2>2, <2>3, <2>4 DEF Watched
<1> QED
    BY <1>1, <1>2 DEF BooksInv, TypeInv

(* Where ids suffice, both processes keep their books: every caller that waits *)
(* is under one id of waiters, however pushes, pings, timeouts and a GoAway    *)
(* fall between, and monitor_refs holds the workers that are due.             *)
THEOREM BooksAreKept == ASSUME IdsSuffice PROVE Spec => []BooksInv
<1>1. Init => TypeInv /\ JobInv /\ ClientBooks
    BY InitType, InitJob, InitBooks
<1>2. TypeInv /\ JobInv /\ ClientBooks /\ [Next]_vars => (TypeInv /\ JobInv /\ ClientBooks)'
    BY JobStep, BooksStep
<1>3. TypeInv /\ JobInv /\ ClientBooks => BooksInv
    BY BooksAreRight
<1> QED
    BY <1>1, <1>2, <1>3, PTL DEF Spec

(* Where ids suffice, what a request returns is the answer to that request:    *)
(* its id is nobody else's until the response has come, though callers time   *)
(* out and pongs come between.                                               *)
THEOREM AnswersReachTheirCallers == ASSUME IdsSuffice PROVE Spec => []AnswerIsOwn
<1>1. Init => TypeInv /\ JobInv /\ ClientBooks
    BY InitType, InitJob, InitBooks
<1>2. TypeInv /\ JobInv /\ ClientBooks /\ [Next]_vars => (TypeInv /\ JobInv /\ ClientBooks)'
    BY JobStep, BooksStep
<1>3. ClientBooks => AnswerIsOwn
    BY DEF ClientBooks
<1> QED
    BY <1>1, <1>2, <1>3, PTL DEF Spec

(* Where ids suffice and callers send what the codec can represent, no         *)
(* callback of the client meets what it has no clause for: the response that   *)
(* comes is waited for, and :close_go_away finds the sequence :go_away.  On a  *)
(* connection that works the server crashes of a codec only: a scenario that  *)
(* changes it after the first payload, or a term in its mailbox that it cannot *)
(* represent.                                                                 *)
THEOREM ProcessesDoNotCrash == ASSUME IdsSuffice PROVE Spec => []NeverCrashes
<1>1. Init => TypeInv /\ JobInv /\ ClientBooks
    BY InitType, InitJob, InitBooks
<1>2. TypeInv /\ JobInv /\ ClientBooks /\ [Next]_vars => (TypeInv /\ JobInv /\ ClientBooks)'
    BY JobStep, BooksStep
<1>3. ClientBooks => NeverCrashes
    BY DEF ClientBooks
<1> QED
    BY <1>1, <1>2, <1>3, PTL DEF Spec
=============================================================================
