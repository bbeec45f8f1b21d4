------------------------ MODULE RustConnection_proofs ------------------------
(***************************************************************************)
(* Proofs about RustConnection, for every set of calls and pushes, every   *)
(* id width and every socket capacity.                                     *)
(***************************************************************************)
EXTENDS RustConnection, TLAPS
-----------------------------------------------------------------------------
(* Frames, queues and outcomes.                                            *)

(* The frames and events the two event loops build are messages. *)
LEMMA FramesBuilt ==
    /\ Nothing \in Msg
    /\ Frame("GoAway", 0, None) \in Msg
    /\ Frame("Close", 0, None) \in Msg
    /\ \A r \in Req : Frame("Request", 0, r) \in Msg
    /\ \A p \in Push : Frame("Push", 0, p) \in Msg
    /\ \A i \in Id : Frame("Ping", i, None) \in Msg /\ Frame("Pong", i, None) \in Msg
    /\ \A i \in Id, r \in Req : /\ Frame("Request", i, r) \in Msg
                                /\ Frame("Response", i, r) \in Msg
                                /\ Frame("Error", i, r) \in Msg
BY IdAssumption DEF Frame, Msg, Id, Nothing

(* What the fields of a message range over, and what its opcode says of them. *)
LEMMA MsgFields ==
    ASSUME NEW m \in Msg
    PROVE  /\ m.seq \in Id /\ m.of \in Body
           /\ m.op \in {"Request", "Response", "Error"} => m.of \in Req
           /\ m.op = "Push" => m.of \in Push
           /\ m.of \in Req => m.op \in {"Request", "Response", "Error"}
BY NoneAssumption, DisjointAssumption DEF Msg, Body

(* A queue that grew by one message. *)
LEMMA AppendType ==
    ASSUME NEW q \in Queues, NEW s \in Side, NEW m \in Msg
    PROVE  [q EXCEPT ![s] = Append(@, m)] \in Queues
<1>1. Append(q[s], m) \in Seq(Msg)
    BY DEF Queues
<1>2. QED
    BY <1>1 DEF Queues

(* A queue whose oldest message was taken. *)
LEMMA TailType ==
    ASSUME NEW q \in Queues, NEW s \in Side, q[s] # <<>>
    PROVE  /\ [q EXCEPT ![s] = Tail(@)] \in Queues
           /\ [q EXCEPT ![s] = Tail(q[s])] \in Queues
           /\ Head(q[s]) \in Msg
           /\ Len(q[s]) \in Nat
           /\ Len(q[s]) > 0
           /\ Head(q[s]) = q[s][1]
<1>1. q[s] \in Seq(Msg)
    BY DEF Queues
<1>2. /\ Tail(q[s]) \in Seq(Msg)
      /\ Head(q[s]) \in Msg
      /\ Len(q[s]) \in Nat /\ Len(q[s]) > 0
      /\ Head(q[s]) = q[s][1]
    BY <1>1
<1>3. QED
    BY <1>2 DEF Queues

(* A queue that was dropped. *)
LEMMA EmptyType ==
    ASSUME NEW q \in Queues, NEW s \in Side
    PROVE  [q EXCEPT ![s] = <<>>] \in Queues
<1>1. <<>> \in Seq(Msg)
    OBVIOUS
<1>2. QED
    BY <1>1 DEF Queues

(* The outcomes the model uses are outcomes. *)
LEMMA OutcomesBuilt ==
    /\ Is("open") \in Outcome /\ Is("dropped") \in Outcome /\ Is("cancelled") \in Outcome
    /\ Is("RequestTimeout") \in Outcome /\ Is("ConnectionClosed") \in Outcome
    /\ \A r \in Req : /\ [kind |-> "ok", of |-> r] \in Outcome
                      /\ [kind |-> "error", of |-> r] \in Outcome
BY DEF Is, Outcome, Kind
-----------------------------------------------------------------------------
(* The helpers of the loop keep the types.                                 *)

(* Dropping senders keeps the channels well typed. *)
LEMMA DroppedType ==
    ASSUME TypeOK, NEW rs PROVE Dropped(rs) \in [Req -> Outcome]
BY OutcomesBuilt DEF TypeOK, Dropped

(* Drawing an id keeps the ids well typed. *)
LEMMA DrawIdType ==
    ASSUME TypeOK, NEW s \in Side, NEW b \in Req \cup {None}, DrawId(s, b)
    PROVE  /\ idNext' \in [Side -> Id]
           /\ idsDrawn' \in [Side -> Nat]
           /\ owner' \in [Id -> Req \cup {None}]
<1>1. idNext[s] \in Id /\ idsDrawn[s] \in Nat
    BY DEF TypeOK
<1>2. (IF idNext[s] + 1 = IdModulus THEN 0 ELSE idNext[s] + 1) \in Id
    BY <1>1, IdAssumption DEF Id
<1>3. idNext' \in [Side -> Id]
    BY <1>2 DEF DrawId, TypeOK
<1>4. idsDrawn' \in [Side -> Nat]
    BY <1>1 DEF DrawId, TypeOK
<1>5. owner' \in [Id -> Req \cup {None}]
    BY DEF DrawId, TypeOK
<1>6. QED
    BY <1>3, <1>4, <1>5

(* Handing a frame to the writer. *)
LEMMA EmitType ==
    ASSUME TypeOK, NEW s \in Side, NEW f \in Msg, Emit(s, f)
    PROVE  /\ phase' \in [Side -> {"running", "writing", "closing", "closed"}]
           /\ outbox' \in [Side -> Msg]
BY DEF TypeOK, Emit

(* A loop that returns. *)
LEMMA StopType ==
    ASSUME TypeOK, NEW s \in Side, Stop(s)
    PROVE  /\ phase' \in [Side -> {"running", "writing", "closing", "closed"}]
           /\ outbox' \in [Side -> Msg]
           /\ selfRx' \in Queues
           /\ waiters' \in [Id -> Req \cup {None}]
           /\ tx' \in [Req -> Outcome]
<1>1. selfRx' \in Queues
    BY EmptyType DEF Stop, TypeOK
<1>2. waiters' \in [Id -> Req \cup {None}] /\ tx' \in [Req -> Outcome]
    BY DroppedType DEF Stop, TypeOK
<1>3. QED
    BY <1>1, <1>2, FramesBuilt DEF Stop, TypeOK

(* A loop that closes its connection after an error. *)
LEMMA CloseConnType ==
    ASSUME TypeOK, NEW s \in Side, NEW q, CloseConn(s, q),
           [selfRx EXCEPT ![s] = q] \in Queues
    PROVE  /\ phase' \in [Side -> {"running", "writing", "closing", "closed"}]
           /\ outbox' \in [Side -> Msg]
           /\ selfRx' \in Queues
           /\ waiters' \in [Id -> Req \cup {None}]
           /\ tx' \in [Req -> Outcome]
<1>1. CASE s = "server"
    BY <1>1, FramesBuilt DEF CloseConn, TypeOK
<1>2. CASE s # "server"
    BY <1>2, StopType DEF CloseConn
<1>3. QED
    BY <1>1, <1>2

(* The oldest frame, or event, of a queue carries a payload of its kind. *)
LEMMA HeadFields ==
    ASSUME TypeOK, NEW q \in {net, selfRx}, NEW s \in Side, q[s] # <<>>
    PROVE  /\ Head(q[s]) \in Msg /\ Head(q[s]).seq \in Id
           /\ Head(q[s]).op \in {"Request", "Response", "Error"} => Head(q[s]).of \in Req
           /\ Head(q[s]).op = "Push" => Head(q[s]).of \in Push
<1>1. Head(q[s]) \in Msg
    BY TailType DEF TypeOK
<1> QED
    BY <1>1, MsgFields

(* The oldest frame, or event, of a queue carries what its id stands for. *)
LEMMA HeadCarries ==
    ASSUME TypeOK, FramesCarryTheirOwn
    PROVE  /\ \A s \in Side : net[s] # <<>> => /\ Head(net[s]) \in Msg
                                               /\ Carries(Head(net[s]), owner, runs)
           /\ selfRx["server"] # <<>> => /\ Head(selfRx["server"]) \in Msg
                                         /\ Carries(Head(selfRx["server"]), owner, runs)
           /\ selfRx["client"] # <<>> =>
                /\ Head(selfRx["client"]) \in Msg
                /\ Head(selfRx["client"]).op = "Request" => Head(selfRx["client"]).of \in Req
                /\ Head(selfRx["client"]).op = "Push" => Head(selfRx["client"]).of \in Push
<1>1. net \in Queues /\ selfRx \in Queues /\ "client" \in Side /\ "server" \in Side
    BY DEF TypeOK, Side
<1>2. ASSUME NEW s \in Side, net[s] # <<>>
      PROVE  Head(net[s]) \in Msg /\ Carries(Head(net[s]), owner, runs)
    BY <1>1, <1>2, TailType, 1 \in 1 .. Len(net[s]) 
    DEF FramesCarryTheirOwn, SocketsCarry, QueuesCarry, AllCarry, AllKnown, Known
<1>3. ASSUME selfRx["server"] # <<>>
      PROVE  Head(selfRx["server"]) \in Msg /\ Carries(Head(selfRx["server"]), owner, runs)
    BY <1>1, <1>3, TailType, 1 \in 1 .. Len(selfRx["server"]) 
    DEF FramesCarryTheirOwn, SocketsCarry, QueuesCarry, AllCarry, AllKnown, Known
<1>4. ASSUME selfRx["client"] # <<>>
      PROVE  /\ Head(selfRx["client"]) \in Msg
             /\ Head(selfRx["client"]).op = "Request" => Head(selfRx["client"]).of \in Req
             /\ Head(selfRx["client"]).op = "Push" => Head(selfRx["client"]).of \in Push
    BY <1>1, <1>4, TailType, 1 \in 1 .. Len(selfRx["client"]) 
    DEF FramesCarryTheirOwn, SocketsCarry, QueuesCarry, AllCarry, AllKnown, Known
<1>5. QED
    BY <1>2, <1>3, <1>4
-----------------------------------------------------------------------------

(* Every step keeps the type invariant. *)
LEMMA TypeStep == TypeOK /\ [Next]_vars => TypeOK'
<1> SUFFICES ASSUME TypeOK, [Next]_vars PROVE TypeOK'
    OBVIOUS
<1>0. TypeOK /\ "client" \in Side /\ "server" \in Side
    BY DEF Side
<1> USE <1>0 DEF loopVars, idVars, callVars, serverVars
<1>1. ASSUME NEW r \in Req, Request(r) PROVE TypeOK'
  <2>1. selfRx' \in Queues
    BY <1>1, AppendType, FramesBuilt DEF Request, TypeOK
  <2>2. tx' \in [Req -> Outcome] /\ result' \in [Req -> Outcome]
    BY <1>1, OutcomesBuilt DEF Request, TypeOK
  <2>3. QED
    BY <1>1, <2>1, <2>2 DEF Request, TypeOK
<1>2. ASSUME NEW r \in Req, Await(r) PROVE TypeOK'
    BY <1>2, OutcomesBuilt DEF Await, TypeOK
<1>3. ASSUME NEW r \in Req, Abandon(r) PROVE TypeOK'
    BY <1>3, OutcomesBuilt DEF Abandon, TypeOK
<1>4. ASSUME NEW r \in Req, DeadlinePasses(r) PROVE TypeOK'
    BY <1>4 DEF DeadlinePasses, TypeOK
<1>5. ASSUME NEW p \in Push, PushCall(p) PROVE TypeOK'
  <2>1. selfRx' \in Queues
    BY <1>5, AppendType, FramesBuilt DEF PushCall, TypeOK
  <2>2. QED
    BY <1>5, <2>1 DEF PushCall, TypeOK
<1>6. CASE SendRequest
  <2> DEFINE r == Head(selfRx["client"]).of
             i == idNext["client"]
  <2>1. r \in Req /\ i \in Id
    BY <1>6, HeadFields DEF SendRequest, TakeEvent, TypeOK
  <2>2. selfRx' \in Queues
    BY <1>6, TailType DEF SendRequest, TakeEvent, TypeOK
  <2>3. DrawId("client", r)
    BY <1>6 DEF SendRequest
  <2>4. CASE r \in expired
    <3>1. tx' \in [Req -> Outcome]
      BY <1>6, <2>1, <2>4, OutcomesBuilt DEF SendRequest, Notify, TypeOK
    <3>2. QED
      BY <1>6, <2>1, <2>2, <2>3, <2>4, <3>1, DrawIdType DEF SendRequest, TypeOK
  <2>5. CASE r \notin expired
    <3>1. Frame("Request", i, r) \in Msg
      BY <2>1, FramesBuilt
    <3>2. Emit("client", Frame("Request", i, r)) /\ waiters' = [waiters EXCEPT ![i] = r]
      BY <1>6, <2>5 DEF SendRequest
    <3>3. tx' \in [Req -> Outcome]
      BY <1>6, <2>5, DroppedType DEF SendRequest
    <3>4. waiters' \in [Id -> Req \cup {None}]
      BY <2>1, <3>2 DEF TypeOK
    <3>5. QED
      BY <1>6, <2>1, <2>2, <2>3, <3>1, <3>2, <3>3, <3>4, DrawIdType, EmitType DEF SendRequest, TypeOK
  <2>6. QED
    BY <2>4, <2>5
<1>7. CASE SendPush
  <2>1. Frame("Push", 0, Head(selfRx["client"]).of) \in Msg
    BY <1>7, HeadFields, FramesBuilt DEF SendPush, TakeEvent
  <2>2. selfRx' \in Queues
    BY <1>7, TailType DEF SendPush, TakeEvent, TypeOK
  <2>3. QED
    BY <1>7, <2>1, <2>2, EmitType DEF SendPush, TypeOK
<1>8. CASE ResponseComplete
  <2>1. selfRx' \in Queues
    BY <1>8, TailType DEF ResponseComplete, TakeEvent, TypeOK
  <2>2. Head(selfRx["server"]) \in Msg
    BY <1>8, HeadFields DEF ResponseComplete, TakeEvent
  <2>3. QED
    BY <1>8, <2>1, <2>2, EmitType DEF ResponseComplete, TypeOK
<1>9. ASSUME NEW s \in Side, SendPing(s) PROVE TypeOK'
  <2>1. Frame("Ping", idNext[s], None) \in Msg
    BY FramesBuilt DEF TypeOK
  <2>2. DrawId(s, None) /\ Emit(s, Frame("Ping", idNext[s], None))
    BY <1>9 DEF SendPing
  <2>3. pong_received' \in [Side -> BOOLEAN]
    BY <1>9 DEF SendPing, TypeOK
  <2>4. QED
    BY <1>9, <2>1, <2>2, <2>3, DrawIdType, EmitType DEF SendPing, TypeOK
<1>10. ASSUME NEW s \in Side, PingTimeout(s) PROVE TypeOK'
  <2>1. [selfRx EXCEPT ![s] = selfRx[s]] \in Queues
    BY DEF TypeOK, Queues
  <2>2. QED
    BY <1>10, <2>1, CloseConnType DEF PingTimeout, TypeOK
<1>11. ASSUME NEW s \in Side, Close(s) PROVE TypeOK'
  <2>1. selfRx' \in Queues
    BY <1>11, AppendType, FramesBuilt DEF Close, TypeOK
  <2>2. QED
    BY <1>11, <2>1 DEF Close, TypeOK
<1>12. ASSUME NEW s \in Side, CloseRequested(s) PROVE TypeOK'
  <2>1. [selfRx EXCEPT ![s] = Tail(selfRx[s])] \in Queues
    BY <1>12, TailType DEF CloseRequested, TypeOK
  <2>2. QED
    BY <1>12, <2>1, CloseConnType DEF CloseRequested, TypeOK
<1>13. CASE ReceiveReply
  <2> DEFINE f == Head(net["client"])
  <2>1. f.op \in {"Response", "Error"} /\ f.of \in Req /\ f.seq \in Id
    BY <1>13, HeadFields DEF ReceiveReply, TakeFrame
  <2>2. net' \in Queues
    BY <1>13, TailType DEF ReceiveReply, TakeFrame, TypeOK
  <2>3. waiters' \in [Id -> Req \cup {None}]
    BY <1>13, <2>1 DEF ReceiveReply, TypeOK
  <2>4. [kind |-> IF f.op = "Response" THEN "ok" ELSE "error", of |-> f.of] \in Outcome
    BY <2>1, OutcomesBuilt
  <2>5. tx' \in [Req -> Outcome]
    BY <1>13, <2>1, <2>4 DEF ReceiveReply, Notify, TypeOK
  <2>6. QED
    BY <1>13, <2>2, <2>3, <2>5 DEF ReceiveReply, TypeOK
<1>14. CASE ReceiveGoAway
  <2>1. net' \in Queues
    BY <1>14, TailType DEF ReceiveGoAway, TakeFrame, TypeOK
  <2>2. [selfRx EXCEPT !["client"] = selfRx["client"]] \in Queues
    BY DEF TypeOK, Queues
  <2>3. QED
    BY <1>14, <2>1, <2>2, CloseConnType DEF ReceiveGoAway, TypeOK
<1>15. CASE ReceiveRequest
  <2>1. net' \in Queues
    BY <1>15, TailType DEF ReceiveRequest, TakeFrame, TypeOK
  <2>2. Head(net["server"]).of \in Req /\ Head(net["server"]).seq \in Id
    BY <1>15, HeadFields DEF ReceiveRequest, TakeFrame
  <2>3. runs' \in [Req \cup Push -> Nat]
    BY <1>15, <2>2 DEF ReceiveRequest, TypeOK
  <2>4. tasks' \subseteq [seq : Id, of : Req]
    BY <1>15, <2>2 DEF ReceiveRequest, TypeOK
  <2>5. QED
    BY <1>15, <2>1, <2>3, <2>4 DEF ReceiveRequest, TypeOK
<1>16. CASE ReceivePush
  <2>1. net' \in Queues
    BY <1>16, TailType DEF ReceivePush, TakeFrame, TypeOK
  <2>2. Head(net["server"]).of \in Push
    BY <1>16, HeadFields DEF ReceivePush, TakeFrame
  <2>3. runs' \in [Req \cup Push -> Nat]
    BY <1>16, <2>2 DEF ReceivePush, TypeOK
  <2>4. QED
    BY <1>16, <2>1, <2>3 DEF ReceivePush, TypeOK
<1>17. ASSUME NEW s \in Side, ReceivePing(s) PROVE TypeOK'
  <2>1. net' \in Queues
    BY <1>17, TailType DEF ReceivePing, TakeFrame, TypeOK
  <2>2. Frame("Pong", Head(net[s]).seq, None) \in Msg
    BY <1>17, HeadFields, FramesBuilt DEF ReceivePing, TakeFrame
  <2>3. waiters' \in [Id -> Req \cup {None}] /\ tx' \in [Req -> Outcome]
    BY <1>17, DroppedType DEF ReceivePing, TypeOK
  <2>4. QED
    BY <1>17, <2>1, <2>2, <2>3, EmitType DEF ReceivePing, TypeOK
<1>18. ASSUME NEW s \in Side, ReceivePong(s) PROVE TypeOK'
  <2>1. net' \in Queues
    BY <1>18, TailType DEF ReceivePong, TakeFrame, TypeOK
  <2>2. QED
    BY <1>18, <2>1 DEF ReceivePong, TypeOK
<1>19. CASE GoAwayWritten
  <2>1. net' \in Queues
    <3>1. net \in Queues /\ outbox["server"] \in Msg
      BY DEF TypeOK
    <3>2. [net EXCEPT !["client"] = Append(@, outbox["server"])] \in Queues
      BY <3>1, AppendType
    <3>3. QED
      BY <1>19, <3>1, <3>2 DEF GoAwayWritten
  <2>2. QED
    BY <1>19, <2>1, StopType DEF GoAwayWritten, TypeOK
<1>20. ASSUME NEW s \in Side, ReadEof(s) PROVE TypeOK'
    BY <1>20, StopType DEF ReadEof, TypeOK
<1>21. ASSUME NEW s \in Side, WriteFrame(s) PROVE TypeOK'
  <2>1. net' \in Queues
    <3>1. net \in Queues /\ outbox[s] \in Msg /\ Peer(s) \in Side
      BY DEF TypeOK, Peer, Side
    <3>2. [net EXCEPT ![Peer(s)] = Append(@, outbox[s])] \in Queues
      BY <3>1, AppendType
    <3>3. QED
      BY <1>21, <3>1, <3>2 DEF WriteFrame
  <2>2. QED
    BY <1>21, <2>1, FramesBuilt DEF WriteFrame, TypeOK
<1>22. ASSUME NEW s \in Side, SocketError(s) PROVE TypeOK'
    BY <1>22, StopType DEF SocketError, TypeOK
<1>23. ASSUME NEW t \in tasks, HandlerReturns(t) PROVE TypeOK'
  <2>1. t.seq \in Id /\ t.of \in Req
    BY DEF TypeOK
  <2>2. selfRx' \in Queues
    <3>1. selfRx \in Queues
      BY DEF TypeOK
    <3>2. /\ Frame("Response", t.seq, t.of) \in Msg
          /\ Frame("Error", t.seq, t.of) \in Msg
      BY <2>1, FramesBuilt
    <3>3. /\ [selfRx EXCEPT !["server"] = Append(@, Frame("Response", t.seq, t.of))] \in Queues
          /\ [selfRx EXCEPT !["server"] = Append(@, Frame("Error", t.seq, t.of))] \in Queues
      BY <3>1, <3>2, AppendType
    <3>4. QED
      BY <1>23, <3>1, <3>3 DEF HandlerReturns
  <2>3. QED
    BY <1>23, <2>2 DEF HandlerReturns, TypeOK
<1>24. ASSUME NEW t \in tasks, HandlerPanics(t) PROVE TypeOK'
    BY <1>24 DEF HandlerPanics, TypeOK
<1>25. CASE UNCHANGED vars
    BY <1>25 DEF vars, TypeOK
<1>26. QED
    BY <1>1, <1>2, <1>3, <1>4, <1>5, <1>6, <1>7, <1>8, <1>9, <1>10, <1>11, <1>12, <1>13,
       <1>14, <1>15, <1>16, <1>17, <1>18, <1>19, <1>20, <1>21, <1>22, <1>23, <1>24, <1>25
    DEF Next, ClientCalls, OwnEvents, Frames, Socket, Handlers
-----------------------------------------------------------------------------
(* Ids are drawn once, and histories only grow.                            *)

(* The id a client draws next was never given to a request before. *)
LEMMA NextIdIsFresh ==
    ASSUME IdsDoNotWrap, TypeOK, IdsAreFresh, idsDrawn["client"] < MaxIds
    PROVE  ~Drawn(idNext["client"]) /\ owner[idNext["client"]] = None
<1>1. idsDrawn["client"] \in Nat /\ idNext["client"] \in Id
    BY DEF TypeOK, Side
<1>2. idsDrawn["client"] < IdModulus
    BY <1>1, IdAssumption DEF IdsDoNotWrap
<1>3. ~Drawn(idNext["client"])
    BY <1>1, <1>2, IdAssumption DEF IdsAreFresh, Drawn
<1>4. QED
    BY <1>1, <1>3 DEF IdsAreFresh

(* Drawing an id keeps the ids that are left fresh and forgets no owner. *)
LEMMA DrawIdStep ==
    ASSUME IdsDoNotWrap, TypeOK, IdsAreFresh,
           NEW s \in Side, NEW b \in Req \cup {None}, DrawId(s, b)
    PROVE  /\ IdsAreFresh'
           /\ \A i \in Id : owner[i] # None => owner'[i] = owner[i]
<1>1. CASE s = "server"
  <2>1. /\ idsDrawn'["client"] = idsDrawn["client"]
        /\ idNext'["client"] = idNext["client"]
        /\ owner' = owner
    BY <1>1 DEF DrawId, TypeOK, Side
  <2>2. QED
    BY <2>1 DEF IdsAreFresh, Drawn
<1>2. CASE s = "client"
  <2> DEFINE i == idNext["client"]
             n == idsDrawn["client"]
  <2>1. n \in Nat /\ i \in Id /\ n < MaxIds /\ n < IdModulus
    BY <1>2, IdAssumption DEF DrawId, TypeOK, Side, IdsDoNotWrap
  <2>2. owner[i] = None
    BY <2>1, NextIdIsFresh
  <2>3. i = IF n + 1 = IdModulus THEN 0 ELSE n + 1
    BY <2>1 DEF IdsAreFresh
  <2>4. /\ idsDrawn'["client"] = n + 1
        /\ idNext'["client"] = IF i + 1 = IdModulus THEN 0 ELSE i + 1
        /\ owner' = [owner EXCEPT ![i] = b]
    BY <1>2 DEF DrawId, TypeOK, Side
  <2>5. n + 1 < IdModulus =>
          idNext'["client"] = IF n + 2 = IdModulus THEN 0 ELSE n + 2
    BY <2>1, <2>3, <2>4, IdAssumption
  <2>6. ASSUME NEW j \in Id, ~Drawn(j)' PROVE owner'[j] = None
    <3>1. ~Drawn(j) /\ j # i
      BY <2>1, <2>3, <2>4, <2>6, IdAssumption DEF Drawn, Id
    <3>2. QED
      BY <2>4, <3>1 DEF IdsAreFresh, TypeOK
  <2>7. IdsAreFresh'
    BY <2>1, <2>4, <2>5, <2>6, IdAssumption DEF IdsAreFresh
  <2>8. \A j \in Id : owner[j] # None => owner'[j] = owner[j]
    BY <2>2, <2>4 DEF TypeOK
  <2>9. QED
    BY <2>7, <2>8
<1>3. QED
    BY <1>1, <1>2 DEF Side

(* A step draws an id or leaves the ids alone. *)
LEMMA IdSteps ==
    ASSUME IInv, [Next]_vars
    PROVE  \/ UNCHANGED idVars
           \/ \E s \in Side, b \in Req \cup {None} : DrawId(s, b)
<1> USE DEF vars, loopVars, idVars, callVars, serverVars
<1>1. CASE SendRequest
  <2>1. Head(selfRx["client"]).of \in Req
    BY <1>1, HeadCarries DEF IInv, SendRequest, TakeEvent
  <2>2. QED
    BY <1>1, <2>1 DEF SendRequest, Side
<1>2. ASSUME NEW s \in Side, SendPing(s)
      PROVE  \E q \in Side, b \in Req \cup {None} : DrawId(q, b)
    BY <1>2 DEF SendPing
<1>3. CASE ClientCalls
    BY <1>3 DEF ClientCalls, Request, Await, Abandon, DeadlinePasses, PushCall
<1>4. CASE OwnEvents
    BY <1>1, <1>2, <1>4
    DEF OwnEvents, SendPush, ResponseComplete, PingTimeout, Close, CloseRequested
<1>5. CASE Frames
    BY <1>5 DEF Frames, ReceiveReply, ReceiveGoAway, ReceiveRequest, ReceivePush,
                ReceivePing, ReceivePong
<1>6. CASE Socket
    BY <1>6 DEF Socket, GoAwayWritten, ReadEof, WriteFrame, SocketError
<1>7. CASE Handlers
    BY <1>7 DEF Handlers, HandlerReturns, HandlerPanics
<1>8. QED
    BY <1>3, <1>4, <1>5, <1>6, <1>7 DEF Next

(* No step gives an id to a second request, and the fresh ids stay fresh. *)
LEMMA IdsStep ==
    ASSUME IdsDoNotWrap, IInv, [Next]_vars
    PROVE  /\ IdsAreFresh'
           /\ \A i \in Id : owner[i] # None => owner'[i] = owner[i]
<1>1. TypeOK /\ IdsAreFresh
    BY DEF IInv
<1>2. CASE UNCHANGED idVars
    BY <1>1, <1>2 DEF idVars, IdsAreFresh, Drawn
<1>3. CASE \E s \in Side, b \in Req \cup {None} : DrawId(s, b)
    BY <1>1, <1>3, DrawIdStep
<1>4. QED
    BY <1>2, <1>3, IdSteps

(* No step takes back the execution of a request or of a push. *)
LEMMA RunsStep ==
    ASSUME IInv, [Next]_vars
    PROVE  \A b \in Req \cup Push : runs[b] > 0 => runs'[b] > 0
<1> USE DEF vars, loopVars, idVars, callVars, serverVars
<1>0. TypeOK
    BY DEF IInv
<1>1. CASE ReceiveRequest
    BY <1>0, <1>1 DEF ReceiveRequest, TypeOK
<1>2. CASE ReceivePush
    BY <1>0, <1>2 DEF ReceivePush, TypeOK
<1>3. CASE ClientCalls
    BY <1>3 DEF ClientCalls, Request, Await, Abandon, DeadlinePasses, PushCall
<1>4. CASE OwnEvents
    BY <1>4 DEF OwnEvents, SendRequest, SendPush, ResponseComplete, SendPing,
                PingTimeout, Close, CloseRequested
<1>5. CASE Frames
    BY <1>1, <1>2, <1>5 DEF Frames, ReceiveReply, ReceiveGoAway, ReceivePing, ReceivePong
<1>6. CASE Socket
    BY <1>6 DEF Socket, GoAwayWritten, ReadEof, WriteFrame, SocketError
<1>7. CASE Handlers
    BY <1>7 DEF Handlers, HandlerReturns, HandlerPanics
<1>8. QED
    BY <1>3, <1>4, <1>5, <1>6, <1>7 DEF Next
-----------------------------------------------------------------------------
(* Frames carry the payload that their id stands for.                      *)

(* What a message carries stays true as owners and executions accumulate. *)
LEMMA CarriesGrows ==
    ASSUME NEW own1 \in [Id -> Req \cup {None}], NEW own2, NEW run1, NEW run2,
           \A i \in Id : own1[i] # None => own2[i] = own1[i],
           \A b \in Req \cup Push : run1[b] > 0 => run2[b] > 0,
           NEW m \in Msg, Carries(m, own1, run1)
    PROVE  Carries(m, own2, run2)
BY NoneAssumption, MsgFields DEF Carries

(* The same for all the messages of a queue. *)
LEMMA AllCarryGrows ==
    ASSUME NEW own1 \in [Id -> Req \cup {None}], NEW own2, NEW run1, NEW run2,
           \A i \in Id : own1[i] # None => own2[i] = own1[i],
           \A b \in Req \cup Push : run1[b] > 0 => run2[b] > 0,
           NEW q \in Seq(Msg), AllCarry(q, own1, run1)
    PROVE  AllCarry(q, own2, run2)
<1> SUFFICES ASSUME NEW k \in 1 .. Len(q) PROVE Carries(q[k], own2, run2)
    BY DEF AllCarry
<1>1. q[k] \in Msg /\ Carries(q[k], own1, run1)
    BY DEF AllCarry
<1>2. QED
    BY <1>1, CarriesGrows

(* A queue of frames that gains a message, loses its oldest or is dropped. *)
LEMMA AllCarryQueue ==
    ASSUME NEW own, NEW run, NEW q \in Seq(Msg)
    PROVE  /\ \A m \in Msg : AllCarry(q, own, run) /\ Carries(m, own, run)
                                => AllCarry(Append(q, m), own, run)
           /\ q # <<>> /\ AllCarry(q, own, run) => AllCarry(Tail(q), own, run)
           /\ AllCarry(<<>>, own, run)
BY DEF AllCarry

(* The client's queue of events, likewise. *)
LEMMA AllKnownQueue ==
    ASSUME NEW q \in Seq(Msg)
    PROVE  /\ \A m \in Msg : AllKnown(q) /\ Known(m) => AllKnown(Append(q, m))
           /\ q # <<>> /\ AllKnown(q) => AllKnown(Tail(q))
           /\ AllKnown(<<>>)
BY DEF AllKnown, Known

(* The outbox of s takes f. *)
LEMMA OutboxSet ==
    ASSUME NEW out \in [Side -> Msg], NEW own, NEW run, OutboxesCarry(out, own, run),
           NEW s \in Side, NEW f, Carries(f, own, run)
    PROVE  OutboxesCarry([out EXCEPT ![s] = f], own, run)
BY DEF OutboxesCarry

(* The socket towards s takes a frame, or delivers one. *)
LEMMA SocketAppend ==
    ASSUME NEW n \in Queues, NEW own, NEW run, SocketsCarry(n, own, run),
           NEW s \in Side, NEW m \in Msg, Carries(m, own, run)
    PROVE  SocketsCarry([n EXCEPT ![s] = Append(@, m)], own, run)
<1>1. n[s] \in Seq(Msg) /\ AllCarry(Append(n[s], m), own, run)
    BY AllCarryQueue DEF SocketsCarry, Queues
<1>2. QED
    BY <1>1 DEF SocketsCarry, Queues

(* The socket towards s delivers its oldest frame. *)
LEMMA SocketTail ==
    ASSUME NEW n \in Queues, NEW own, NEW run, SocketsCarry(n, own, run),
           NEW s \in Side, n[s] # <<>>
    PROVE  SocketsCarry([n EXCEPT ![s] = Tail(@)], own, run)
<1>1. n[s] \in Seq(Msg) /\ AllCarry(Tail(n[s]), own, run)
    BY AllCarryQueue DEF SocketsCarry, Queues
<1>2. QED
    BY <1>1 DEF SocketsCarry, Queues

(* The queue of s gains an event, or changes to some other queue. *)
LEMMA QueueSet ==
    ASSUME NEW q \in Queues, NEW own, NEW run, QueuesCarry(q, own, run),
           NEW s \in Side, NEW new,
           s = "server" => AllCarry(new, own, run), s = "client" => AllKnown(new)
    PROVE  QueuesCarry([q EXCEPT ![s] = new], own, run)
BY DEF QueuesCarry, Queues, Side

(* The queue of s gains an event that carries what its id stands for. *)
LEMMA QueueAppend ==
    ASSUME NEW q \in Queues, NEW own, NEW run, QueuesCarry(q, own, run),
           NEW s \in Side, NEW m \in Msg,
           s = "server" => Carries(m, own, run), s = "client" => Known(m)
    PROVE  QueuesCarry([q EXCEPT ![s] = Append(@, m)], own, run)
<1>1. q[s] \in Seq(Msg)
    BY DEF Queues
<1>2. s = "server" => AllCarry(Append(q[s], m), own, run)
    BY <1>1, AllCarryQueue DEF QueuesCarry
<1>3. s = "client" => AllKnown(Append(q[s], m))
    BY <1>1, AllKnownQueue DEF QueuesCarry
<1>4. QED
    BY <1>2, <1>3, QueueSet

(* The queue of s gives its oldest event to the loop. *)
LEMMA QueueTail ==
    ASSUME NEW q \in Queues, NEW own, NEW run, QueuesCarry(q, own, run),
           NEW s \in Side
    PROVE  /\ QueuesCarry([q EXCEPT ![s] = <<>>], own, run)
           /\ QueuesCarry([q EXCEPT ![s] = q[s]], own, run)
           /\ q[s] # <<>> => QueuesCarry([q EXCEPT ![s] = Tail(@)], own, run)
<1>1. q[s] \in Seq(Msg)
    BY DEF Queues
<1>2. s = "server" => /\ AllCarry(q[s], own, run) /\ AllCarry(<<>>, own, run)
                      /\ q[s] # <<>> => AllCarry(Tail(q[s]), own, run)
    BY <1>1, AllCarryQueue DEF QueuesCarry
<1>3. s = "client" => /\ AllKnown(q[s]) /\ AllKnown(<<>>)
                      /\ q[s] # <<>> => AllKnown(Tail(q[s]))
    BY <1>1, AllKnownQueue DEF QueuesCarry
<1>4. QED
    BY <1>2, <1>3, QueueSet

(* The frames that belong to no request carry nothing. *)
LEMMA PlainFrames ==
    ASSUME NEW own, NEW run
    PROVE  /\ Carries(Nothing, own, run)
           /\ Carries(Frame("GoAway", 0, None), own, run)
           /\ Carries(Frame("Close", 0, None), own, run)
           /\ \A i : Carries(Frame("Ping", i, None), own, run)
           /\ \A i : Carries(Frame("Pong", i, None), own, run)
           /\ \A p \in Push : Carries(Frame("Push", 0, p), own, run)
           /\ Known(Frame("Close", 0, None))
           /\ \A r \in Req : Known(Frame("Request", 0, r))
           /\ \A p \in Push : Known(Frame("Push", 0, p))
BY DEF Carries, Known, Nothing, Frame

(* A loop that returns, or that starts to close, loses frames but makes none. *)
LEMMA StopCarries ==
    ASSUME TypeOK, NEW own, NEW run, OutboxesCarry(outbox, own, run),
           QueuesCarry(selfRx, own, run), NEW s \in Side, Stop(s)
    PROVE  OutboxesCarry(outbox', own, run) /\ QueuesCarry(selfRx', own, run)
<1>1. OutboxesCarry([outbox EXCEPT ![s] = Nothing], own, run)
    BY PlainFrames, OutboxSet DEF TypeOK
<1>2. QueuesCarry([selfRx EXCEPT ![s] = <<>>], own, run)
    BY QueueTail DEF TypeOK
<1>3. QED
    BY <1>1, <1>2 DEF Stop

(* The same for a loop whose event failed (Writer::close). *)
LEMMA CloseConnCarries ==
    ASSUME TypeOK, NEW own, NEW run, OutboxesCarry(outbox, own, run),
           QueuesCarry(selfRx, own, run), NEW s \in Side, NEW q, CloseConn(s, q),
           QueuesCarry([selfRx EXCEPT ![s] = q], own, run)
    PROVE  OutboxesCarry(outbox', own, run) /\ QueuesCarry(selfRx', own, run)
<1>1. CASE s = "server"
  <2>1. OutboxesCarry([outbox EXCEPT ![s] = Frame("GoAway", 0, None)], own, run)
    BY PlainFrames, OutboxSet DEF TypeOK
  <2>2. QED
    BY <1>1, <2>1 DEF CloseConn
<1>2. CASE s # "server"
    BY <1>2, StopCarries DEF CloseConn
<1>3. QED
    BY <1>1, <1>2

(* Every step keeps the frames, the handler tasks and the queues honest. *)
LEMMA FramesStep ==
    ASSUME IdsDoNotWrap, IInv, [Next]_vars PROVE FramesCarryTheirOwn'
<1>0. /\ TypeOK /\ FramesCarryTheirOwn /\ "client" \in Side /\ "server" \in Side
      /\ net \in Queues /\ selfRx \in Queues /\ outbox \in [Side -> Msg]
      /\ owner \in [Id -> Req \cup {None}]
    BY DEF IInv, Side, TypeOK
<1>1. /\ \A i \in Id : owner[i] # None => owner'[i] = owner[i]
      /\ \A b \in Req \cup Push : runs[b] > 0 => runs'[b] > 0
    BY IdsStep, RunsStep
<1>2. \A s \in Side : outbox[s] \in Msg /\ net[s] \in Seq(Msg) /\ selfRx[s] \in Seq(Msg)
    BY <1>0 DEF Queues
<1>3. OutboxesCarry(outbox, owner', runs')
    BY <1>0, <1>1, <1>2, CarriesGrows DEF FramesCarryTheirOwn, OutboxesCarry
<1>4. SocketsCarry(net, owner', runs')
    BY <1>0, <1>1, <1>2, AllCarryGrows DEF FramesCarryTheirOwn, SocketsCarry
<1>5. QueuesCarry(selfRx, owner', runs')
    BY <1>0, <1>1, <1>2, AllCarryGrows DEF FramesCarryTheirOwn, QueuesCarry
<1>6. TasksCarry(tasks, owner', runs')
  <2> SUFFICES ASSUME NEW t \in tasks PROVE owner'[t.seq] = t.of /\ runs'[t.of] > 0
    BY DEF TasksCarry
  <2>1. t.seq \in Id /\ t.of \in Req /\ owner[t.seq] = t.of /\ runs[t.of] > 0
    BY <1>0 DEF TypeOK, FramesCarryTheirOwn, TasksCarry
  <2>2. QED
    BY <1>1, <2>1, NoneAssumption
<1> USE <1>0, <1>3, <1>4, <1>5, <1>6
    DEF loopVars, idVars, callVars, serverVars, FramesCarryTheirOwn
<1>11. ASSUME NEW r \in Req, Request(r) PROVE FramesCarryTheirOwn'
  <2>1. QueuesCarry([selfRx EXCEPT !["client"] = Append(@, Frame("Request", 0, r))], owner', runs')
    BY QueueAppend, FramesBuilt, PlainFrames
  <2>2. QED
    BY <1>11, <2>1 DEF Request
<1>12. ASSUME NEW r \in Req, Await(r) PROVE FramesCarryTheirOwn'
    BY <1>12 DEF Await
<1>13. ASSUME NEW r \in Req, Abandon(r) PROVE FramesCarryTheirOwn'
    BY <1>13 DEF Abandon
<1>14. ASSUME NEW r \in Req, DeadlinePasses(r) PROVE FramesCarryTheirOwn'
    BY <1>14 DEF DeadlinePasses
<1>15. ASSUME NEW p \in Push, PushCall(p) PROVE FramesCarryTheirOwn'
  <2>1. QueuesCarry([selfRx EXCEPT !["client"] = Append(@, Frame("Push", 0, p))], owner', runs')
    BY QueueAppend, FramesBuilt, PlainFrames
  <2>2. QED
    BY <1>15, <2>1 DEF PushCall
<1>16. CASE SendRequest
  <2> DEFINE r == Head(selfRx["client"]).of
             i == idNext["client"]
  <2>1. QueuesCarry(selfRx', owner', runs')
    BY <1>16, QueueTail DEF SendRequest, TakeEvent
  <2>2. r \in Req /\ i \in Id
    BY <1>16, HeadCarries DEF SendRequest, TakeEvent, TypeOK
  <2>3. owner'[i] = r
    BY <1>16, <2>2 DEF SendRequest, DrawId
  <2>4. Carries(Frame("Request", i, r), owner', runs')
    BY <2>2, <2>3 DEF Carries, Frame
  <2>5. OutboxesCarry([outbox EXCEPT !["client"] = Frame("Request", i, r)], owner', runs')
    BY <2>4, OutboxSet
  <2>6. QED
    BY <1>16, <2>1, <2>5 DEF SendRequest, Emit
<1>17. CASE SendPush
  <2>1. QueuesCarry(selfRx', owner', runs')
    BY <1>17, QueueTail DEF SendPush, TakeEvent
  <2>2. Head(selfRx["client"]).of \in Push
    BY <1>17, HeadCarries DEF SendPush, TakeEvent
  <2>3. OutboxesCarry([outbox EXCEPT !["client"] = Frame("Push", 0, Head(selfRx["client"]).of)],
                      owner', runs')
    BY <2>2, OutboxSet, PlainFrames
  <2>4. QED
    BY <1>17, <2>1, <2>3 DEF SendPush, Emit
<1>18. CASE ResponseComplete
  <2>1. QueuesCarry(selfRx', owner', runs')
    BY <1>18, QueueTail DEF ResponseComplete, TakeEvent
  <2>2. Head(selfRx["server"]) \in Msg /\ Carries(Head(selfRx["server"]), owner, runs)
    BY <1>18, HeadCarries DEF ResponseComplete, TakeEvent
  <2>3. Carries(Head(selfRx["server"]), owner', runs')
    BY <1>1, <2>2, CarriesGrows
  <2>4. OutboxesCarry([outbox EXCEPT !["server"] = Head(selfRx["server"])], owner', runs')
    BY <2>3, OutboxSet
  <2>5. QED
    BY <1>18, <2>1, <2>4 DEF ResponseComplete, Emit
<1>19. ASSUME NEW s \in Side, SendPing(s) PROVE FramesCarryTheirOwn'
  <2>1. OutboxesCarry([outbox EXCEPT ![s] = Frame("Ping", idNext[s], None)], owner', runs')
    BY OutboxSet, PlainFrames
  <2>2. QED
    BY <1>19, <2>1 DEF SendPing, Emit
<1>20. ASSUME NEW s \in Side, PingTimeout(s) PROVE FramesCarryTheirOwn'
  <2>1. QueuesCarry([selfRx EXCEPT ![s] = selfRx[s]], owner', runs')
    BY QueueTail
  <2>2. QED
    BY <1>20, <2>1, CloseConnCarries DEF PingTimeout
<1>21. ASSUME NEW s \in Side, Close(s) PROVE FramesCarryTheirOwn'
  <2>1. QueuesCarry([selfRx EXCEPT ![s] = Append(@, Frame("Close", 0, None))], owner', runs')
    BY QueueAppend, FramesBuilt, PlainFrames
  <2>2. QED
    BY <1>21, <2>1 DEF Close
<1>22. ASSUME NEW s \in Side, CloseRequested(s) PROVE FramesCarryTheirOwn'
  <2>1. QueuesCarry([selfRx EXCEPT ![s] = Tail(selfRx[s])], owner', runs')
    BY <1>22, QueueTail DEF CloseRequested
  <2>2. QED
    BY <1>22, <2>1, CloseConnCarries DEF CloseRequested
<1>23. CASE ReceiveReply
  <2>1. SocketsCarry(net', owner', runs')
    BY <1>23, SocketTail DEF ReceiveReply, TakeFrame
  <2>2. QED
    BY <1>23, <2>1 DEF ReceiveReply
<1>24. CASE ReceiveGoAway
  <2>1. SocketsCarry(net', owner', runs')
    BY <1>24, SocketTail DEF ReceiveGoAway, TakeFrame
  <2>2. QueuesCarry([selfRx EXCEPT !["client"] = selfRx["client"]], owner', runs')
    BY QueueTail
  <2>3. QED
    BY <1>24, <2>1, <2>2, CloseConnCarries DEF ReceiveGoAway
<1>25. CASE ReceiveRequest
  <2> DEFINE f == Head(net["server"])
  <2>1. SocketsCarry(net', owner', runs')
    BY <1>25, SocketTail DEF ReceiveRequest, TakeFrame
  <2>2. f.of \in Req /\ owner[f.seq] = f.of
    BY <1>25, HeadCarries DEF ReceiveRequest, TakeFrame, Carries
  <2>3. owner' = owner /\ runs'[f.of] > 0
    BY <1>25, <2>2 DEF ReceiveRequest, TypeOK
  <2>4. TasksCarry(tasks', owner', runs')
    BY <1>25, <2>2, <2>3 DEF ReceiveRequest, TasksCarry
  <2>5. QED
    BY <1>25, <2>1, <2>4 DEF ReceiveRequest
<1>26. CASE ReceivePush
  <2>1. SocketsCarry(net', owner', runs')
    BY <1>26, SocketTail DEF ReceivePush, TakeFrame
  <2>2. QED
    BY <1>26, <2>1 DEF ReceivePush
<1>27. ASSUME NEW s \in Side, ReceivePing(s) PROVE FramesCarryTheirOwn'
  <2>1. SocketsCarry(net', owner', runs')
    BY <1>27, SocketTail DEF ReceivePing, TakeFrame
  <2>2. OutboxesCarry([outbox EXCEPT ![s] = Frame("Pong", Head(net[s]).seq, None)], owner', runs')
    BY OutboxSet, PlainFrames
  <2>3. QED
    BY <1>27, <2>1, <2>2 DEF ReceivePing, Emit
<1>28. ASSUME NEW s \in Side, ReceivePong(s) PROVE FramesCarryTheirOwn'
  <2>1. SocketsCarry(net', owner', runs')
    BY <1>28, SocketTail DEF ReceivePong, TakeFrame
  <2>2. QED
    BY <1>28, <2>1 DEF ReceivePong
<1>29. CASE GoAwayWritten
  <2>1. outbox["server"] \in Msg /\ Carries(outbox["server"], owner', runs')
    BY DEF OutboxesCarry
  <2>2. SocketsCarry([net EXCEPT !["client"] = Append(@, outbox["server"])], owner', runs')
    BY <2>1, SocketAppend
  <2>3. QED
    BY <1>29, <2>2, StopCarries DEF GoAwayWritten
<1>30. ASSUME NEW s \in Side, ReadEof(s) PROVE FramesCarryTheirOwn'
    BY <1>30, StopCarries DEF ReadEof
<1>31. ASSUME NEW s \in Side, WriteFrame(s) PROVE FramesCarryTheirOwn'
  <2>1. /\ outbox[s] \in Msg /\ Carries(outbox[s], owner', runs')
        /\ Peer(s) \in Side
    BY DEF OutboxesCarry, Peer
  <2>2. SocketsCarry([net EXCEPT ![Peer(s)] = Append(@, outbox[s])], owner', runs')
    BY <2>1, SocketAppend
  <2>3. OutboxesCarry([outbox EXCEPT ![s] = Nothing], owner', runs')
    BY OutboxSet, PlainFrames
  <2>4. QED
    BY <1>31, <2>2, <2>3 DEF WriteFrame
<1>32. ASSUME NEW s \in Side, SocketError(s) PROVE FramesCarryTheirOwn'
    BY <1>32, StopCarries DEF SocketError
<1>33. ASSUME NEW t \in tasks, HandlerReturns(t) PROVE FramesCarryTheirOwn'
  <2>1. t.seq \in Id /\ t.of \in Req /\ owner'[t.seq] = t.of /\ runs'[t.of] > 0
    BY DEF TypeOK, TasksCarry
  <2>2. ASSUME NEW op \in {"Response", "Error"}
        PROVE  QueuesCarry([selfRx EXCEPT !["server"] = Append(@, Frame(op, t.seq, t.of))],
                           owner', runs')
    <3>1. Frame(op, t.seq, t.of) \in Msg
      BY <2>1, <2>2, FramesBuilt
    <3>2. Carries(Frame(op, t.seq, t.of), owner', runs')
      BY <2>1, <2>2 DEF Carries, Frame
    <3>3. QED
      BY <3>1, <3>2, QueueAppend
  <2>3. TasksCarry(tasks', owner', runs')
    BY <1>33 DEF HandlerReturns, TasksCarry
  <2>4. QED
    BY <1>33, <2>2, <2>3 DEF HandlerReturns
<1>34. ASSUME NEW t \in tasks, HandlerPanics(t) PROVE FramesCarryTheirOwn'
  <2>1. TasksCarry(tasks', owner', runs')
    BY <1>34 DEF HandlerPanics, TasksCarry
  <2>2. QED
    BY <1>34, <2>1 DEF HandlerPanics
<1>35. CASE UNCHANGED vars
    BY <1>35 DEF vars
<1>36. QED
    BY <1>11, <1>12, <1>13, <1>14, <1>15, <1>16, <1>17, <1>18, <1>19, <1>20, <1>21, <1>22,
       <1>23, <1>24, <1>25, <1>26, <1>27, <1>28, <1>29, <1>30, <1>31, <1>32, <1>33, <1>34, <1>35
    DEF Next, ClientCalls, OwnEvents, Frames, Socket, Handlers
-----------------------------------------------------------------------------
(* Waiters and results.                                                    *)

(* What dropping senders does to a channel. *)
LEMMA DroppedFacts ==
    ASSUME TypeOK, NEW rs, NEW r \in Req
    PROVE  /\ Dropped(rs)[r].kind = "unused" <=> tx[r].kind = "unused"
           /\ Dropped(rs)[r] = tx[r] \/ Dropped(rs)[r].kind = "dropped"
BY DEF Dropped, Is

(* A loop that returns, or starts to close, takes waiters away and adds none. *)
LEMMA StopCalls ==
    ASSUME TypeOK, NEW s \in Side, NEW q, Stop(s) \/ CloseConn(s, q)
    PROVE  /\ \A i \in Id : waiters'[i] = None \/ waiters'[i] = waiters[i]
           /\ \A r \in Req : /\ tx'[r].kind = "unused" <=> tx[r].kind = "unused"
                             /\ tx'[r] = tx[r] \/ tx'[r].kind = "dropped"
BY DroppedFacts DEF Stop, CloseConn

(* Every step keeps the waiters registered under ids of their own, and the  *)
(* replies that were passed on with the calls they answer.                  *)
LEMMA CallsStep ==
    ASSUME IdsDoNotWrap, IInv, [Next]_vars PROVE WaitersOwnTheirIds' /\ RepliesAreOwn'
<1>0. /\ TypeOK /\ FramesCarryTheirOwn /\ WaitersOwnTheirIds /\ RepliesAreOwn
      /\ "client" \in Side /\ "server" \in Side
      /\ waiters \in [Id -> Req \cup {None}] /\ tx \in [Req -> Outcome]
      /\ result \in [Req -> Outcome] /\ runs \in [Req \cup Push -> Nat]
    BY DEF IInv, Side, TypeOK
<1>1. /\ \A i \in Id : owner[i] # None => owner'[i] = owner[i]
      /\ \A b \in Req \cup Push : runs[b] > 0 => runs'[b] > 0
    BY IdsStep, RunsStep
<1> DEFINE TxKept(r) == tx'[r] = tx[r] \/ tx'[r].kind \in {"open", "dropped", "RequestTimeout"}
<1>2. ASSUME \A i \in Id : waiters'[i] = None \/ waiters'[i] = waiters[i],
             \A r \in Req : TxKept(r), UNCHANGED result
      PROVE  WaitersOwnTheirIds' /\ RepliesAreOwn'
  <2>1. WaitersOwnTheirIds'
    BY <1>0, <1>1, <1>2 DEF WaitersOwnTheirIds
  <2>2. RepliesAreOwn'
    BY <1>0, <1>1, <1>2 DEF RepliesAreOwn
  <2>3. QED
    BY <2>1, <2>2
<1> USE <1>0 DEF loopVars, idVars, callVars, serverVars
<1>3. CASE UNCHANGED <<waiters, tx, result>>
    BY <1>2, <1>3
<1>11. ASSUME NEW r \in Req, Request(r) PROVE WaitersOwnTheirIds' /\ RepliesAreOwn'
  <2>1. CASE UNCHANGED result
    BY <1>2, <1>11, <2>1 DEF Request, Is
  <2>2. CASE result' = [result EXCEPT ![r] = Is("ConnectionClosed")] /\ UNCHANGED tx
    BY <1>1, <1>11, <2>2 DEF Request, Is, WaitersOwnTheirIds, RepliesAreOwn
  <2>3. QED
    BY <1>11, <2>1, <2>2 DEF Request
<1>12. ASSUME NEW r \in Req, Await(r) PROVE WaitersOwnTheirIds' /\ RepliesAreOwn'
    BY <1>1, <1>12 DEF Await, Is, WaitersOwnTheirIds, RepliesAreOwn
<1>13. ASSUME NEW r \in Req, Abandon(r) PROVE WaitersOwnTheirIds' /\ RepliesAreOwn'
    BY <1>1, <1>13 DEF Abandon, Is, WaitersOwnTheirIds, RepliesAreOwn
<1>14. CASE SendRequest
  <2> DEFINE r == Head(selfRx["client"]).of
             i == idNext["client"]
  <2>1. r \in Req /\ i \in Id
    BY <1>14, HeadCarries DEF SendRequest, TakeEvent, TypeOK
  <2>2. CASE r \in expired
    BY <1>2, <1>14, <2>1, <2>2 DEF SendRequest, Notify, Is
  <2>3. CASE r \notin expired
    <3>1. /\ waiters' = [waiters EXCEPT ![i] = r]
          /\ tx' = Dropped({waiters[i]})
          /\ UNCHANGED result
      BY <1>14, <2>3 DEF SendRequest
    <3>2. owner'[i] = r
      BY <1>14, <2>1 DEF SendRequest, DrawId, TypeOK
    <3>3. \A q \in Req : /\ tx'[q].kind = "unused" <=> tx[q].kind = "unused"
                         /\ tx'[q] = tx[q] \/ tx'[q].kind = "dropped"
      BY <3>1, DroppedFacts
    <3>4. tx[r].kind # "unused"
      <4>1. Outgoing(Head(selfRx["client"]), r)
        BY <1>14 DEF SendRequest, TakeEvent, Outgoing
      <4>2. In(selfRx["client"], r)
        BY <1>14, <4>1, TailType, 1 \in 1 .. Len(selfRx["client"])
        DEF SendRequest, TakeEvent, In, TypeOK
      <4>3. QED
        BY <2>1, <4>2 DEF IInv, InOnePlace, Place, Made
    <3>5. WaitersOwnTheirIds'
      <4> SUFFICES ASSUME NEW j \in Id, waiters'[j] # None
                   PROVE  owner'[j] = waiters'[j] /\ tx'[waiters'[j]].kind # "unused"
        BY DEF WaitersOwnTheirIds
      <4>1. CASE j = i
        BY <2>1, <3>1, <3>2, <3>3, <3>4, <4>1
      <4>2. CASE j # i
        <5>1. /\ waiters'[j] = waiters[j] /\ waiters[j] \in Req
              /\ owner[j] = waiters[j] /\ tx[waiters[j]].kind # "unused"
          BY <3>1, <4>2 DEF WaitersOwnTheirIds
        <5>2. QED
          BY <1>1, <3>3, <5>1, NoneAssumption
      <4>3. QED
        BY <4>1, <4>2
    <3>6. RepliesAreOwn'
      BY <1>1, <3>1, <3>3 DEF RepliesAreOwn
    <3>7. QED
      BY <3>5, <3>6
  <2>4. QED
    BY <2>2, <2>3
<1>15. CASE ReceiveReply
  <2> DEFINE f == Head(net["client"])
             r == waiters[f.seq]
  <2>1. /\ f.op \in {"Response", "Error"} /\ f.of \in Req /\ f.seq \in Id
        /\ owner[f.seq] = f.of /\ runs[f.of] > 0
    BY <1>15, HeadCarries, MsgFields DEF ReceiveReply, TakeFrame, Carries
  <2>2. CASE r = None
    BY <1>3, <1>15, <2>2 DEF ReceiveReply
  <2>3. CASE r # None
    <3>1. r = f.of /\ r \in Req /\ tx[r].kind # "unused"
      BY <2>1, <2>3 DEF WaitersOwnTheirIds
    <3>2. /\ waiters' = [waiters EXCEPT ![f.seq] = None]
          /\ tx' = [tx EXCEPT ![r] = [kind |-> IF f.op = "Response" THEN "ok" ELSE "error",
                                      of |-> f.of]]
          /\ UNCHANGED <<owner, runs, result>>
      BY <1>15, <2>3 DEF ReceiveReply, Notify
    <3>3. tx'[r].of = r /\ tx'[r].kind \in {"ok", "error"} /\ \A q \in Req : q # r => tx'[q] = tx[q]
      BY <3>1, <3>2
    <3>4. WaitersOwnTheirIds'
      BY <2>1, <3>2, <3>3 DEF WaitersOwnTheirIds
    <3>5. RepliesAreOwn'
      BY <2>1, <3>1, <3>2, <3>3 DEF RepliesAreOwn
    <3>6. QED
      BY <3>4, <3>5
  <2>4. QED
    BY <2>2, <2>3
<1>16. ASSUME NEW s \in Side, ReceivePing(s) PROVE WaitersOwnTheirIds' /\ RepliesAreOwn'
  <2>1. CASE s = "client"
    <3>1. \A i \in Id : waiters'[i] = None \/ waiters'[i] = waiters[i]
      BY <1>16, <2>1 DEF ReceivePing
    <3>2. \A r \in Req : TxKept(r)
      BY <1>16, <2>1, DroppedFacts DEF ReceivePing
    <3>3. QED
      BY <1>2, <1>16, <3>1, <3>2 DEF ReceivePing
  <2>2. CASE s # "client"
    BY <1>3, <1>16, <2>2 DEF ReceivePing
  <2>3. QED
    BY <2>1, <2>2
<1>17. ASSUME NEW s \in Side, NEW q, Stop(s) \/ CloseConn(s, q), UNCHANGED result
       PROVE  WaitersOwnTheirIds' /\ RepliesAreOwn'
    BY <1>2, <1>17, StopCalls
<1>20. CASE ClientCalls
    BY <1>3, <1>11, <1>12, <1>13, <1>20 DEF ClientCalls, DeadlinePasses, PushCall
<1>21. CASE OwnEvents
  <2>1. ASSUME NEW s \in Side, PingTimeout(s) \/ CloseRequested(s)
        PROVE  WaitersOwnTheirIds' /\ RepliesAreOwn'
    BY <1>17, <2>1 DEF PingTimeout, CloseRequested
  <2>2. QED
    BY <1>3, <1>14, <1>21, <2>1 DEF OwnEvents, SendPush, ResponseComplete, SendPing, Close
<1>22. CASE Frames
  <2>1. CASE ReceiveGoAway
    BY <1>17, <2>1 DEF ReceiveGoAway
  <2>2. QED
    BY <1>3, <1>15, <1>16, <1>22, <2>1 DEF Frames, ReceiveRequest, ReceivePush, ReceivePong
<1>23. CASE Socket
  <2>1. CASE GoAwayWritten
    BY <1>17, <2>1 DEF GoAwayWritten
  <2>2. ASSUME NEW s \in Side, ReadEof(s) \/ SocketError(s)
        PROVE  WaitersOwnTheirIds' /\ RepliesAreOwn'
    BY <1>17, <2>2 DEF ReadEof, SocketError
  <2>3. QED
    BY <1>3, <1>23, <2>1, <2>2 DEF Socket, WriteFrame
<1>24. CASE Handlers
    BY <1>3, <1>24 DEF Handlers, HandlerReturns, HandlerPanics
<1>25. CASE UNCHANGED vars
    BY <1>3, <1>25 DEF vars
<1>26. QED
    BY <1>20, <1>21, <1>22, <1>23, <1>24, <1>25 DEF Next
-----------------------------------------------------------------------------
(* A request, or a push, is in one place at a time.                        *)

(* How a queue's contents change when it gains or loses a message. *)
LEMMA InAppend ==
    ASSUME NEW q \in Seq(Msg), NEW m \in Msg, NEW b
    PROVE  /\ In(Append(q, m), b) <=> In(q, b) \/ Outgoing(m, b)
           /\ OneOf(q, b) /\ ~(In(q, b) /\ Outgoing(m, b)) => OneOf(Append(q, m), b)
<1> DEFINE a == Append(q, m)
<1>1. /\ Len(q) \in Nat /\ Len(a) = Len(q) + 1 /\ a[Len(q) + 1] = m
      /\ \A k \in 1 .. Len(q) : a[k] = q[k]
    OBVIOUS
<1> HIDE DEF a
<1>2. In(a, b) <=> In(q, b) \/ Outgoing(m, b)
  <2>1. ASSUME In(a, b) PROVE In(q, b) \/ Outgoing(m, b)
    <3>1. PICK k \in 1 .. Len(a) : Outgoing(a[k], b)
      BY <2>1 DEF In
    <3>2. QED
      BY <1>1, <3>1 DEF In
  <2>2. ASSUME In(q, b) PROVE In(a, b)
    <3>1. PICK k \in 1 .. Len(q) : Outgoing(q[k], b)
      BY <2>2 DEF In
    <3>2. k \in 1 .. Len(a) /\ Outgoing(a[k], b)
      BY <1>1, <3>1
    <3>3. QED
      BY <3>2 DEF In
  <2>3. ASSUME Outgoing(m, b) PROVE In(a, b)
    <3>1. Len(q) + 1 \in 1 .. Len(a) /\ Outgoing(a[Len(q) + 1], b)
      BY <1>1, <2>3
    <3>2. QED
      BY <3>1 DEF In
  <2>4. QED
    BY <2>1, <2>2, <2>3
<1>3. ASSUME OneOf(q, b), ~(In(q, b) /\ Outgoing(m, b)) PROVE OneOf(a, b)
  <2> SUFFICES ASSUME NEW j \in 1 .. Len(a), NEW k \in 1 .. Len(a),
                      Outgoing(a[j], b), Outgoing(a[k], b)
               PROVE  j = k
    BY DEF OneOf
  <2>1. CASE j \in 1 .. Len(q) /\ k \in 1 .. Len(q)
    BY <1>1, <1>3, <2>1 DEF OneOf
  <2>2. CASE j = Len(q) + 1 \/ k = Len(q) + 1
    BY <1>1, <1>3, <2>2 DEF In
  <2>3. QED
    BY <1>1, <2>1, <2>2
<1>4. QED
    BY <1>2, <1>3 DEF a

(* The same when the oldest message is taken. *)
LEMMA InTail ==
    ASSUME NEW q \in Seq(Msg), q # <<>>, NEW b
    PROVE  /\ In(Tail(q), b) => In(q, b)
           /\ Outgoing(Head(q), b) => In(q, b)
           /\ OneOf(q, b) => OneOf(Tail(q), b)
           /\ OneOf(q, b) /\ Outgoing(Head(q), b) => ~In(Tail(q), b)
<1> DEFINE t == Tail(q)
<1>1. /\ Len(q) \in Nat /\ Len(q) > 0 /\ Len(t) = Len(q) - 1 /\ Head(q) = q[1]
      /\ \A k \in 1 .. Len(t) : t[k] = q[k + 1]
    OBVIOUS
<1> HIDE DEF t
<1>2. \A k \in 1 .. Len(t) : k + 1 \in 1 .. Len(q) /\ k + 1 # 1
    BY <1>1
<1>3. In(t, b) => In(q, b)
    BY <1>1, <1>2 DEF In
<1>4. Outgoing(Head(q), b) => In(q, b)
    BY <1>1, 1 \in 1 .. Len(q) DEF In
<1>5. OneOf(q, b) => OneOf(t, b)
  <2> SUFFICES ASSUME OneOf(q, b), NEW j \in 1 .. Len(t), NEW k \in 1 .. Len(t),
                      Outgoing(t[j], b), Outgoing(t[k], b)
               PROVE  j = k
    BY DEF OneOf
  <2>1. j + 1 = k + 1
    BY <1>1, <1>2 DEF OneOf
  <2>2. QED
    BY <1>1, <2>1
<1>6. OneOf(q, b) /\ Outgoing(Head(q), b) => ~In(t, b)
    BY <1>1, <1>2, 1 \in 1 .. Len(q) DEF In, OneOf
<1>7. QED
    BY <1>3, <1>4, <1>5, <1>6 DEF t

(* An empty queue holds nothing. *)
LEMMA InEmpty == \A b : ~In(<<>>, b) /\ OneOf(<<>>, b)
BY DEF In, OneOf

(* What does not depend on the ids, and so survives their wrap: the types,     *)
(* that waiters belong to calls that were made, and where requests are.       *)
WaitersUsed == \A i \in Id : waiters[i] # None => tx[waiters[i]].kind # "unused"

Shape == TypeOK /\ WaitersUsed /\ InOnePlace

(* IInv says more. *)
LEMMA IInvShape == IInv => Shape
BY DEF IInv, Shape, WaitersOwnTheirIds, WaitersUsed

(* The oldest event of the client's queue belongs to a call that was made. *)
LEMMA HeadIsMade ==
    ASSUME Shape, selfRx["client"] # <<>>,
           NEW b \in Req \cup Push, Outgoing(Head(selfRx["client"]), b)
    PROVE  In(selfRx["client"], b) /\ Made(b)
<1>1. selfRx["client"] \in Seq(Msg)
    BY DEF Shape, TypeOK, Queues, Side
<1>2. In(selfRx["client"], b)
    BY <1>1, InTail
<1>3. QED
    BY <1>2 DEF Shape, InOnePlace, Place

(* Only the call itself puts its channel to use, and nothing takes that back. *)
LEMMA UsedStep ==
    ASSUME Shape, [Next]_vars, NEW r \in Req
    PROVE  Request(r) \/ (tx'[r].kind = "unused" <=> tx[r].kind = "unused")
<1>0. /\ TypeOK /\ WaitersUsed
      /\ tx \in [Req -> Outcome] /\ waiters \in [Id -> Req \cup {None}]
    BY DEF Shape, TypeOK
<1> DEFINE Same == tx'[r].kind = "unused" <=> tx[r].kind = "unused"
<1> USE <1>0 DEF loopVars, idVars, callVars, serverVars
<1>1. ASSUME NEW q \in Req, Request(q) PROVE Request(r) \/ Same
    BY <1>1 DEF Request
<1>2. CASE SendRequest
  <2> DEFINE q == Head(selfRx["client"]).of
  <2>1. q \in Req /\ Outgoing(Head(selfRx["client"]), q) /\ selfRx["client"] # <<>>
    BY <1>2, HeadFields DEF SendRequest, TakeEvent, Outgoing, Side
  <2>2. tx[q].kind # "unused"
    BY <2>1, HeadIsMade DEF Made
  <2>3. \/ tx' = [tx EXCEPT ![q] = Is("RequestTimeout")]
        \/ \E rs : tx' = Dropped(rs)
    BY <1>2 DEF SendRequest, Notify
  <2>4. QED
    BY <2>1, <2>2, <2>3, DroppedFacts DEF Is
<1>3. CASE ReceiveReply
  <2> DEFINE f == Head(net["client"])
             q == waiters[f.seq]
  <2>1. f.seq \in Id
    BY <1>3, HeadFields DEF ReceiveReply, TakeFrame, Side
  <2>2. q # None => q \in Req /\ tx[q].kind # "unused"
    BY <2>1 DEF WaitersUsed
  <2>3. \/ UNCHANGED tx
        \/ /\ q # None
           /\ tx' = [tx EXCEPT ![q] = [kind |-> IF f.op = "Response" THEN "ok" ELSE "error",
                                       of |-> f.of]]
    BY <1>3 DEF ReceiveReply, Notify
  <2>4. QED
    BY <2>2, <2>3
<1>4. ASSUME NEW s \in Side, ReceivePing(s) PROVE Same
    BY <1>4, DroppedFacts DEF ReceivePing
<1>5. ASSUME NEW s \in Side, NEW q, Stop(s) \/ CloseConn(s, q) PROVE Same
    BY <1>5, StopCalls
<1>6. CASE ClientCalls
    BY <1>1, <1>6 DEF ClientCalls, Await, Abandon, DeadlinePasses, PushCall
<1>7. CASE OwnEvents
  <2>1. ASSUME NEW s \in Side, PingTimeout(s) \/ CloseRequested(s) PROVE Same
    BY <1>5, <2>1 DEF PingTimeout, CloseRequested
  <2>2. QED
    BY <1>2, <1>7, <2>1 DEF OwnEvents, SendPush, ResponseComplete, SendPing, Close
<1>8. CASE Frames
  <2>1. CASE ReceiveGoAway
    BY <1>5, <2>1 DEF ReceiveGoAway, Side
  <2>2. QED
    BY <1>3, <1>4, <1>8, <2>1 DEF Frames, ReceiveRequest, ReceivePush, ReceivePong
<1>9. CASE Socket
  <2>1. CASE GoAwayWritten
    BY <1>5, <2>1 DEF GoAwayWritten, Side
  <2>2. ASSUME NEW s \in Side, ReadEof(s) \/ SocketError(s) PROVE Same
    BY <1>5, <2>2 DEF ReadEof, SocketError
  <2>3. QED
    BY <1>9, <2>1, <2>2 DEF Socket, WriteFrame
<1>10. CASE Handlers
    BY <1>10 DEF Handlers, HandlerReturns, HandlerPanics
<1>11. CASE UNCHANGED vars
    BY <1>11 DEF vars
<1>12. QED
    BY <1>6, <1>7, <1>8, <1>9, <1>10, <1>11 DEF Next

(* A call that was made stays made. *)
LEMMA MadeStep ==
    ASSUME Shape, [Next]_vars, NEW b \in Req \cup Push, Made(b) PROVE Made(b)'
<1>1. CASE b \in Req
    BY <1>1, UsedStep DEF Made, Request
<1>2. CASE b \notin Req
  <2>1. pushed \subseteq pushed'
    BY DEF Next, ClientCalls, OwnEvents, Frames, Socket, Handlers, Request, Await, Abandon,
           DeadlinePasses, PushCall, SendRequest, SendPush, ResponseComplete, SendPing,
           PingTimeout, Close, CloseRequested, ReceiveReply, ReceiveGoAway, ReceiveRequest,
           ReceivePush, ReceivePing, ReceivePong, GoAwayWritten, ReadEof, WriteFrame,
           SocketError, HandlerReturns, HandlerPanics, vars
  <2>2. QED
    BY <1>2, <2>1 DEF Made
<1>3. QED
    BY <1>1, <1>2

(* Waiters are registered only for calls that were made. *)
LEMMA WaitersUsedStep ==
    ASSUME Shape, [Next]_vars PROVE WaitersUsed'
<1>0. /\ TypeOK /\ WaitersUsed /\ waiters \in [Id -> Req \cup {None}]
      /\ "client" \in Side
    BY DEF Shape, TypeOK, Side
<1>1. \A r \in Req : tx[r].kind # "unused" => tx'[r].kind # "unused"
    BY UsedStep DEF Request
<1>2. ASSUME \A i \in Id : waiters'[i] = None \/ waiters'[i] = waiters[i]
      PROVE  WaitersUsed'
    BY <1>0, <1>1, <1>2 DEF WaitersUsed
<1> USE <1>0 DEF loopVars, idVars, callVars, serverVars
<1>3. CASE UNCHANGED waiters
    BY <1>2, <1>3
<1>4. CASE SendRequest
  <2> DEFINE r == Head(selfRx["client"]).of
             i == idNext["client"]
  <2>1. r \in Req /\ i \in Id /\ selfRx["client"] # <<>> /\ Outgoing(Head(selfRx["client"]), r)
    BY <1>4, HeadFields DEF SendRequest, TakeEvent, TypeOK, Outgoing
  <2>2. tx[r].kind # "unused"
    BY <2>1, HeadIsMade DEF Made
  <2>3. UNCHANGED waiters \/ waiters' = [waiters EXCEPT ![i] = r]
    BY <1>4 DEF SendRequest
  <2>4. QED
    BY <1>1, <1>3, <2>1, <2>2, <2>3 DEF WaitersUsed
<1>5. CASE ReceiveReply
    BY <1>2, <1>5 DEF ReceiveReply
<1>6. ASSUME NEW s \in Side, ReceivePing(s) PROVE WaitersUsed'
    BY <1>2, <1>6 DEF ReceivePing
<1>7. ASSUME NEW s \in Side, NEW q, Stop(s) \/ CloseConn(s, q) PROVE WaitersUsed'
    BY <1>2, <1>7, StopCalls
<1>8. CASE ClientCalls
    BY <1>3, <1>8 DEF ClientCalls, Request, Await, Abandon, DeadlinePasses, PushCall
<1>9. CASE OwnEvents
    BY <1>3, <1>4, <1>7, <1>9
    DEF OwnEvents, SendPush, ResponseComplete, SendPing, PingTimeout, Close, CloseRequested
<1>10. CASE Frames
    BY <1>3, <1>5, <1>6, <1>7, <1>10
    DEF Frames, ReceiveGoAway, ReceiveRequest, ReceivePush, ReceivePong
<1>11. CASE Socket
    BY <1>3, <1>7, <1>11 DEF Socket, GoAwayWritten, ReadEof, WriteFrame, SocketError, Side
<1>12. CASE Handlers
    BY <1>3, <1>12 DEF Handlers, HandlerReturns, HandlerPanics
<1>13. CASE UNCHANGED vars
    BY <1>3, <1>13 DEF vars
<1>14. QED
    BY <1>8, <1>9, <1>10, <1>11, <1>12, <1>13 DEF Next

(* Every step keeps every request and every push in one place at most. *)
LEMMA PlaceStep ==
    ASSUME Shape, [Next]_vars PROVE InOnePlace'
<1> SUFFICES ASSUME NEW b \in Req \cup Push PROVE Place(b)'
    BY DEF InOnePlace
<1>0. /\ TypeOK /\ Place(b)
      /\ "client" \in Side /\ "server" \in Side
      /\ selfRx \in Queues /\ net \in Queues /\ outbox \in [Side -> Msg]
      /\ phase \in [Side -> {"running", "writing", "closing", "closed"}]
      /\ runs \in [Req \cup Push -> Nat] /\ tx \in [Req -> Outcome]
      /\ selfRx["client"] \in Seq(Msg) /\ net["server"] \in Seq(Msg)
      /\ runs[b] \in Nat
    BY DEF Shape, InOnePlace, TypeOK, Queues, Side
<1>1. Made(b) => Made(b)'
    BY MadeStep
<1>2. ASSUME In(selfRx'["client"], b) => In(selfRx["client"], b),
             Outgoing(outbox'["client"], b) => Outgoing(outbox["client"], b),
             In(net'["server"], b) => In(net["server"], b),
             OneOf(selfRx'["client"], b), OneOf(net'["server"], b),
             runs'[b] = runs[b]
      PROVE  Place(b)'
    BY <1>0, <1>1, <1>2 DEF Place
<1>3. OneOf(selfRx["client"], b) /\ OneOf(net["server"], b)
    BY <1>0 DEF Place
<1>4. /\ ~Outgoing(Nothing, b) /\ ~Outgoing(Frame("Close", 0, None), b)
      /\ ~Outgoing(Frame("GoAway", 0, None), b)
      /\ \A i : ~Outgoing(Frame("Ping", i, None), b) /\ ~Outgoing(Frame("Pong", i, None), b)
    BY DEF Outgoing, Frame, Nothing
<1> USE <1>0, <1>3, <1>4 DEF loopVars, idVars, callVars, serverVars
<1>5. CASE UNCHANGED <<selfRx, outbox, net, runs>>
    BY <1>2, <1>5
(* A call enters the client's queue. *)
<1>6. ASSUME NEW c \in Req \cup Push, NEW op \in {"Request", "Push"},
             ~Made(c), Made(c)', Frame(op, 0, c) \in Msg,
             selfRx' = [selfRx EXCEPT !["client"] = Append(@, Frame(op, 0, c))],
             UNCHANGED <<outbox, net, runs>>
      PROVE  Place(b)'
  <2> DEFINE m == Frame(op, 0, c)
  <2>1. selfRx'["client"] = Append(selfRx["client"], m)
    BY <1>6 DEF Queues
  <2>2. Outgoing(m, b) <=> b = c
    BY <1>6 DEF Outgoing, Frame
  <2>3. /\ In(selfRx'["client"], b) <=> In(selfRx["client"], b) \/ Outgoing(m, b)
        /\ ~(In(selfRx["client"], b) /\ Outgoing(m, b)) => OneOf(selfRx'["client"], b)
    BY <1>6, <2>1, InAppend
  <2>4. CASE b = c
    BY <1>6, <2>2, <2>3, <2>4 DEF Place
  <2>5. CASE b # c
    BY <1>2, <1>6, <2>2, <2>3, <2>5
  <2>6. QED
    BY <2>4, <2>5
<1>7. ASSUME NEW r \in Req, Request(r) PROVE Place(b)'
  <2>1. CASE UNCHANGED selfRx
    BY <1>5, <1>7, <2>1 DEF Request
  <2>2. CASE selfRx' # selfRx
    <3>1. ~Made(r) /\ Made(r)'
      BY <1>7, <2>2 DEF Request, Made, Is
    <3>2. QED
      BY <1>6, <1>7, <2>2, <3>1, FramesBuilt DEF Request
  <2>3. QED
    BY <2>1, <2>2
<1>8. ASSUME NEW p \in Push, PushCall(p) PROVE Place(b)'
  <2>1. CASE UNCHANGED selfRx
    BY <1>5, <1>8, <2>1 DEF PushCall
  <2>2. CASE selfRx' # selfRx
    <3>1. ~Made(p) /\ Made(p)'
      BY <1>8, DisjointAssumption DEF PushCall, Made
    <3>2. QED
      BY <1>6, <1>8, <2>2, <3>1, FramesBuilt DEF PushCall
  <2>3. QED
    BY <2>1, <2>2
(* The oldest call of the queue goes to the client's outbox, or nowhere. *)
<1>9. ASSUME TakeEvent("client", {"Request", "Push"}), NEW f,
             \/ UNCHANGED outbox
             \/ outbox' = [outbox EXCEPT !["client"] = f],
             Outgoing(f, b) => Outgoing(Head(selfRx["client"]), b),
             UNCHANGED <<net, runs>>
      PROVE  Place(b)'
  <2>1. selfRx["client"] # <<>> /\ selfRx'["client"] = Tail(selfRx["client"])
    BY <1>9 DEF TakeEvent, Queues
  <2>2. /\ In(selfRx'["client"], b) => In(selfRx["client"], b)
        /\ Outgoing(Head(selfRx["client"]), b) => In(selfRx["client"], b)
        /\ OneOf(selfRx'["client"], b)
        /\ Outgoing(Head(selfRx["client"]), b) => ~In(selfRx'["client"], b)
    BY <2>1, InTail
  <2>3. Outgoing(outbox'["client"], b) => Outgoing(outbox["client"], b) \/ Outgoing(f, b)
    BY <1>9
  <2>4. QED
    BY <1>1, <1>9, <2>2, <2>3 DEF Place
<1>10. CASE SendRequest
    BY <1>9, <1>10 DEF SendRequest, TakeEvent, Emit, Outgoing, Frame
<1>11. CASE SendPush
    BY <1>9, <1>11 DEF SendPush, TakeEvent, Emit, Outgoing, Frame
(* Steps that can only empty the client's queue and its outbox. *)
<1>12. ASSUME NEW s \in Side, NEW q, Stop(s) \/ CloseConn(s, q),
              In(net'["server"], b) => In(net["server"], b), OneOf(net'["server"], b),
              UNCHANGED runs
       PROVE  Place(b)'
  <2>1. \/ selfRx'["client"] = selfRx["client"]
        \/ selfRx'["client"] = <<>>
    BY <1>12 DEF Stop, CloseConn, Queues, Side
  <2>2. Outgoing(outbox'["client"], b) => Outgoing(outbox["client"], b)
    BY <1>12 DEF Stop, CloseConn
  <2>3. QED
    BY <1>2, <1>12, <2>1, <2>2, InEmpty
<1>13. ASSUME NEW s \in Side, Close(s) PROVE Place(b)'
  <2> DEFINE m == Frame("Close", 0, None)
  <2>1. \/ selfRx'["client"] = selfRx["client"]
        \/ selfRx'["client"] = Append(selfRx["client"], m)
    BY <1>13 DEF Close, Queues
  <2>2. m \in Msg /\ ~Outgoing(m, b)
    BY <1>4, FramesBuilt
  <2> HIDE DEF m
  <2>3. /\ In(Append(selfRx["client"], m), b) => In(selfRx["client"], b)
        /\ OneOf(Append(selfRx["client"], m), b)
    BY <2>2, InAppend
  <2>4. (In(selfRx'["client"], b) => In(selfRx["client"], b)) /\ OneOf(selfRx'["client"], b)
    BY <2>1, <2>3
  <2>5. QED
    BY <1>2, <1>13, <2>4 DEF Close
<1>14. ASSUME NEW s \in Side, SendPing(s) PROVE Place(b)'
    BY <1>2, <1>14 DEF SendPing, Emit
<1>15. CASE ResponseComplete
    BY <1>2, <1>15 DEF ResponseComplete, TakeEvent, Emit, Queues
(* Frames that leave the socket towards the server. *)
<1>16. ASSUME NEW s \in Side, NEW ops, TakeFrame(s, ops)
       PROVE  (In(net'["server"], b) => In(net["server"], b)) /\ OneOf(net'["server"], b)
  <2>1. \/ net'["server"] = net["server"]
        \/ net["server"] # <<>> /\ net'["server"] = Tail(net["server"])
    BY <1>16 DEF TakeFrame, Queues
  <2>2. QED
    BY <2>1, InTail
<1>17. CASE ReceiveReply
    BY <1>2, <1>16, <1>17 DEF ReceiveReply
<1>18. CASE ReceiveGoAway
    BY <1>12, <1>16, <1>18 DEF ReceiveGoAway
<1>19. CASE ReceiveRequest \/ ReceivePush
  <2> DEFINE c == Head(net["server"]).of
  <2>1. /\ TakeFrame("server", {"Request", "Push"})
        /\ runs' = [runs EXCEPT ![c] = @ + 1]
        /\ UNCHANGED <<selfRx, outbox>>
    BY <1>19 DEF ReceiveRequest, ReceivePush, TakeFrame
  <2>2. net["server"] # <<>> /\ net'["server"] = Tail(net["server"])
    BY <2>1 DEF TakeFrame, Queues
  <2>3. Outgoing(Head(net["server"]), b) <=> b = c
    BY <2>1 DEF TakeFrame, Outgoing
  <2>4. CASE b = c
    <3>1. In(net["server"], b) /\ ~In(net'["server"], b) /\ OneOf(net'["server"], b)
      BY <2>2, <2>3, <2>4, InTail
    <3>2. runs[b] = 0 /\ runs'[b] = 1
      BY <2>1, <2>4, <3>1 DEF Place
    <3>3. Made(b) /\ ~In(selfRx["client"], b) /\ ~Outgoing(outbox["client"], b)
      BY <3>1 DEF Place
    <3>4. QED
      BY <1>1, <2>1, <3>1, <3>2, <3>3 DEF Place
  <2>5. CASE b # c
    BY <1>2, <1>16, <2>1, <2>5
  <2>6. QED
    BY <2>4, <2>5
<1>20. ASSUME NEW s \in Side, ReceivePing(s) PROVE Place(b)'
    BY <1>2, <1>16, <1>20 DEF ReceivePing, Emit
<1>21. ASSUME NEW s \in Side, ReceivePong(s) PROVE Place(b)'
    BY <1>2, <1>16, <1>21 DEF ReceivePong
<1>22. CASE GoAwayWritten
  <2>1. net'["server"] = net["server"]
    BY <1>22 DEF GoAwayWritten, Queues
  <2>2. QED
    BY <1>12, <1>22, <2>1 DEF GoAwayWritten
(* The client's outbox goes to the socket. *)
<1>23. ASSUME NEW s \in Side, WriteFrame(s) PROVE Place(b)'
  <2>1. CASE net'["server"] = net["server"]
    BY <1>2, <1>23, <2>1 DEF WriteFrame
  <2>2. CASE net'["server"] # net["server"]
    <3>1. /\ s = "client" /\ net'["server"] = Append(net["server"], outbox["client"])
          /\ outbox'["client"] = Nothing /\ UNCHANGED <<selfRx, runs>>
      BY <1>23, <2>2 DEF WriteFrame, Queues, Peer, Side
    <3>2. /\ In(net'["server"], b) <=> In(net["server"], b) \/ Outgoing(outbox["client"], b)
          /\ ~(In(net["server"], b) /\ Outgoing(outbox["client"], b)) => OneOf(net'["server"], b)
      BY <3>1, InAppend
    <3>3. QED
      BY <1>1, <3>1, <3>2 DEF Place
  <2>3. QED
    BY <2>1, <2>2
<1>24. ASSUME NEW t \in tasks, HandlerReturns(t) PROVE Place(b)'
  <2>1. selfRx'["client"] = selfRx["client"]
    BY <1>24 DEF HandlerReturns, Queues
  <2>2. QED
    BY <1>2, <1>24, <2>1 DEF HandlerReturns
<1>25. CASE ClientCalls
    BY <1>5, <1>7, <1>8, <1>25 DEF ClientCalls, Await, Abandon, DeadlinePasses
<1>26. CASE OwnEvents
  <2>1. ASSUME NEW s \in Side, PingTimeout(s) \/ CloseRequested(s) PROVE Place(b)'
    BY <1>12, <2>1 DEF PingTimeout, CloseRequested
  <2>2. QED
    BY <1>10, <1>11, <1>13, <1>14, <1>15, <1>26, <2>1 DEF OwnEvents
<1>27. CASE Frames
    BY <1>17, <1>18, <1>19, <1>20, <1>21, <1>27 DEF Frames
<1>28. CASE Socket
  <2>1. ASSUME NEW s \in Side, ReadEof(s) \/ SocketError(s) PROVE Place(b)'
    BY <1>12, <2>1 DEF ReadEof, SocketError
  <2>2. QED
    BY <1>22, <1>23, <1>28, <2>1 DEF Socket
<1>29. CASE Handlers
    BY <1>5, <1>24, <1>29 DEF Handlers, HandlerPanics
<1>30. CASE UNCHANGED vars
    BY <1>5, <1>30 DEF vars
<1>31. QED
    BY <1>25, <1>26, <1>27, <1>28, <1>29, <1>30 DEF Next
-----------------------------------------------------------------------------
(* The theorems.                                                           *)

(* The inductive invariant holds in the initial states. *)
LEMMA InitIInv == Init => IInv
<1> SUFFICES ASSUME Init PROVE IInv
    OBVIOUS
<1>1. <<>> \in Seq(Msg) /\ 0 \in Id /\ 1 \in Id
    BY IdAssumption DEF Id
<1>2. Is("unused") \in Outcome
    BY DEF Is, Outcome, Kind
<1>3. TypeOK
    BY <1>1, <1>2, FramesBuilt DEF Init, TypeOK, Queues
<1>4. IdsAreFresh
    BY IdAssumption DEF Init, IdsAreFresh, Side
<1>5. FramesCarryTheirOwn
  <2>1. OutboxesCarry(outbox, owner, runs)
    BY PlainFrames DEF Init, OutboxesCarry
  <2>2. SocketsCarry(net, owner, runs) /\ QueuesCarry(selfRx, owner, runs)
    BY <1>1, AllCarryQueue, AllKnownQueue DEF Init, SocketsCarry, QueuesCarry, Side
  <2>3. QED
    BY <2>1, <2>2 DEF Init, FramesCarryTheirOwn, TasksCarry
<1>6. WaitersOwnTheirIds /\ RepliesAreOwn
    BY DEF Init, WaitersOwnTheirIds, RepliesAreOwn, Is
<1>7. InOnePlace
  <2> SUFFICES ASSUME NEW b \in Req \cup Push PROVE Place(b)
    BY DEF InOnePlace
  <2>1. selfRx["client"] = <<>> /\ net["server"] = <<>> /\ outbox["client"] = Nothing /\ runs[b] = 0
    BY DEF Init, Side
  <2>2. ~Outgoing(Nothing, b)
    BY DEF Outgoing, Nothing, Frame
  <2>3. QED
    BY <2>1, <2>2, InEmpty DEF Place
<1>8. QED
    BY <1>3, <1>4, <1>5, <1>6, <1>7 DEF IInv

(* The inductive invariant holds in every reachable state of the two event  *)
(* loops, as long as the client draws no id twice (IdSequence::next).       *)
THEOREM Invariance == ASSUME IdsDoNotWrap PROVE Spec => []IInv
<1>1. IInv /\ [Next]_vars => IInv'
  <2> SUFFICES ASSUME IInv, [Next]_vars PROVE IInv'
    OBVIOUS
  <2>1. QED
    BY TypeStep, IdsStep, FramesStep, CallsStep, PlaceStep, IInvShape DEF IInv
<1>2. QED
    BY InitIInv, <1>1, PTL DEF Spec

(* The state of both event loops, the waiters, the channels and the tasks   *)
(* of the server keeps its type.                                            *)
THEOREM TypeCorrect == Spec => []TypeOK
<1>1. Init => TypeOK
    BY InitIInv DEF IInv
<1>2. QED
    BY <1>1, TypeStep, PTL DEF Spec

(* handle_response never gives a caller the answer to another call: not      *)
(* after a timeout, a sweep, a late reply or a mix of pings and requests.    *)
THEOREM AnswersAreOwn == ASSUME IdsDoNotWrap PROVE Spec => []AnswerIsOwn
<1>1. IInv => AnswerIsOwn
    BY DEF IInv, RepliesAreOwn, AnswerIsOwn
<1>2. QED
    BY Invariance, <1>1, PTL

(* The server starts the handler of a request or of a push at most once,      *)
(* however often the ids wrap.                                                *)
THEOREM ExecutedOnce == Spec => []NoDoubleExecution
<1>1. Init => Shape
    BY InitIInv, IInvShape
<1>2. Shape /\ [Next]_vars => Shape'
    BY TypeStep, WaitersUsedStep, PlaceStep DEF Shape
<1>3. Shape => NoDoubleExecution
    BY DEF Shape, InOnePlace, Place, NoDoubleExecution
<1>4. QED
    BY <1>1, <1>2, <1>3, PTL DEF Spec

(* A step of the connection is a step of LoquiRpc, or none. *)
LEMMA RpcStep ==
    ASSUME IInv, [Next]_vars PROVE [Rpc!RpcNext]_(Rpc!rpcVars)
<1>0. /\ TypeOK /\ FramesCarryTheirOwn /\ RepliesAreOwn /\ InOnePlace
      /\ tx \in [Req -> Outcome] /\ result \in [Req -> Outcome]
      /\ runs \in [Req \cup Push -> Nat] /\ net \in Queues
      /\ "server" \in Side
    BY DEF IInv, TypeOK, Side
<1> USE <1>0 DEF loopVars, idVars, callVars, serverVars
<1>1. \A r \in Req : Request(r) \/ (tx'[r].kind = "unused" <=> tx[r].kind = "unused")
    BY UsedStep, IInvShape
<1>2. ASSUME UNCHANGED <<result, runs>>, \A r \in Req : ~Request(r)
      PROVE  UNCHANGED Rpc!rpcVars
  <2>1. rpcOpened' = rpcOpened
    BY <1>1, <1>2 DEF rpcOpened
  <2>2. rpcExecuted' = rpcExecuted /\ rpcReturned' = rpcReturned
    BY <1>2 DEF rpcExecuted, rpcReturned
  <2>3. QED
    BY <2>1, <2>2 DEF Rpc!rpcVars
<1>3. ASSUME NEW r \in Req, Request(r) PROVE Rpc!Make(r) \/ Rpc!Refuse(r)
  <2>1. r \notin rpcOpened /\ rpcReturned[r] = <<"open", None>> /\ rpcExecuted' = rpcExecuted
    BY <1>3 DEF Request, rpcOpened, rpcReturned, rpcExecuted
  <2>2. rpcOpened' = rpcOpened \cup {r}
    BY <1>3 DEF Request, rpcOpened, Is
  <2>3. CASE UNCHANGED result
    <3>1. rpcReturned' = rpcReturned
      BY <2>3 DEF rpcReturned
    <3>2. QED
      BY <2>1, <2>2, <3>1 DEF Rpc!Make
  <2>4. CASE result' = [result EXCEPT ![r] = Is("ConnectionClosed")]
    <3>1. rpcReturned' = [rpcReturned EXCEPT ![r] = <<"failure", None>>]
      BY <2>4 DEF rpcReturned, Is
    <3>2. QED
      BY <2>1, <2>2, <3>1 DEF Rpc!Refuse, Rpc!Open, Rpc!Failure
  <2>5. QED
    BY <1>3, <2>3, <2>4 DEF Request
<1>4. ASSUME NEW r \in Req, NEW o \in Outcome, tx[r].kind # "unused", UNCHANGED <<tx, runs>>,
             result[r].kind = "unused", result' = [result EXCEPT ![r] = o],
             \/ o.kind \in {"RequestTimeout", "cancelled"}
             \/ o.kind \in {"ok", "error"} /\ o = tx[r]
      PROVE  Rpc!Reply(r) \/ Rpc!Fail(r)
  <2>1. /\ r \in rpcOpened /\ rpcReturned[r] = <<"open", None>>
        /\ rpcExecuted' = rpcExecuted
    BY <1>4 DEF rpcOpened, rpcReturned, rpcExecuted
  <2>2. rpcOpened' = rpcOpened
    BY <1>4 DEF rpcOpened
  <2>3. CASE o.kind \in {"RequestTimeout", "cancelled"}
    <3>1. rpcReturned' = [rpcReturned EXCEPT ![r] = <<"failure", None>>]
      BY <1>4, <2>3 DEF rpcReturned
    <3>2. QED
      BY <2>1, <2>2, <3>1 DEF Rpc!Fail, Rpc!Open, Rpc!Failure
  <2>4. CASE o.kind \in {"ok", "error"} /\ o = tx[r]
    <3>1. o.of = r /\ r \in rpcExecuted
      BY <2>4 DEF RepliesAreOwn, rpcExecuted
    <3>2. rpcReturned' = [rpcReturned EXCEPT ![r] = <<"answer", r>>]
      BY <1>4, <2>4, <3>1 DEF rpcReturned
    <3>3. QED
      BY <2>1, <2>2, <3>1, <3>2 DEF Rpc!Reply, Rpc!Open, Rpc!Answer
  <2>5. QED
    BY <1>4, <2>3, <2>4
<1>5. ASSUME NEW r \in Req, Await(r) PROVE Rpc!Reply(r) \/ Rpc!Fail(r)
  <2>1. tx[r] \in Outcome /\ Is("RequestTimeout") \in Outcome /\ Is("RequestTimeout").kind = "RequestTimeout"
    BY OutcomesBuilt DEF Is
  <2>2. QED
    BY <1>4, <1>5, <2>1 DEF Await
<1>6. ASSUME NEW r \in Req, Abandon(r) PROVE Rpc!Reply(r) \/ Rpc!Fail(r)
  <2>1. Is("cancelled") \in Outcome /\ Is("cancelled").kind = "cancelled"
    BY OutcomesBuilt DEF Is
  <2>2. QED
    BY <1>4, <1>6, <2>1 DEF Abandon
<1>7. CASE ReceiveRequest
  <2> DEFINE c == Head(net["server"]).of
  <2>1. c \in Req /\ net["server"] # <<>> /\ Outgoing(Head(net["server"]), c)
    BY <1>7, HeadCarries DEF ReceiveRequest, TakeFrame, Carries, Outgoing
  <2>2. In(net["server"], c)
    BY <2>1, InTail DEF Queues
  <2>3. runs[c] = 0 /\ tx[c].kind # "unused"
    BY <2>1, <2>2 DEF InOnePlace, Place, Made
  <2>4. runs' = [runs EXCEPT ![c] = @ + 1] /\ UNCHANGED <<tx, result>>
    BY <1>7 DEF ReceiveRequest
  <2>5. c \in rpcOpened /\ c \notin rpcExecuted /\ rpcExecuted' = rpcExecuted \cup {c}
    BY <2>1, <2>3, <2>4 DEF rpcOpened, rpcExecuted
  <2>6. rpcOpened' = rpcOpened /\ rpcReturned' = rpcReturned
    BY <2>4 DEF rpcOpened, rpcReturned
  <2>7. Rpc!Execute(c)
    BY <2>5, <2>6 DEF Rpc!Execute
  <2>8. QED
    BY <2>1, <2>7 DEF Rpc!RpcNext
<1>8. CASE ReceivePush
  <2>1. Head(net["server"]).of \in Push
    BY <1>8, HeadCarries DEF ReceivePush, TakeFrame, Carries
  <2>2. /\ UNCHANGED <<tx, result>>
        /\ \A r \in Req : runs'[r] = runs[r]
    BY <1>8, <2>1, DisjointAssumption DEF ReceivePush
  <2>3. rpcOpened' = rpcOpened /\ rpcExecuted' = rpcExecuted /\ rpcReturned' = rpcReturned
    BY <2>2 DEF rpcOpened, rpcExecuted, rpcReturned
  <2>4. QED
    BY <2>3 DEF Rpc!rpcVars
<1>9. CASE \E r \in Req : Request(r)
    BY <1>3, <1>9 DEF Rpc!RpcNext
<1>10. CASE (\A r \in Req : ~Request(r)) /\ UNCHANGED <<result, runs>>
    BY <1>2, <1>10
<1>11. CASE ClientCalls
    BY <1>5, <1>6, <1>9, <1>10, <1>11 DEF ClientCalls, DeadlinePasses, PushCall, Rpc!RpcNext
<1>12. CASE OwnEvents
    BY <1>9, <1>10, <1>12 DEF OwnEvents, SendRequest, SendPush, ResponseComplete, SendPing,
       PingTimeout, Close, CloseRequested
<1>13. CASE Frames
    BY <1>7, <1>8, <1>9, <1>10, <1>13 DEF Frames, ReceiveReply, ReceiveGoAway, ReceivePing, ReceivePong
<1>14. CASE Socket
    BY <1>9, <1>10, <1>14 DEF Socket, GoAwayWritten, ReadEof, WriteFrame, SocketError
<1>15. CASE Handlers
    BY <1>9, <1>10, <1>15 DEF Handlers, HandlerReturns, HandlerPanics
<1>16. CASE UNCHANGED vars
    BY <1>9, <1>10, <1>16 DEF vars
<1>17. QED
    BY <1>11, <1>12, <1>13, <1>14, <1>15, <1>16 DEF Next

(* The two event loops implement LoquiRpc: a call is executed at most once   *)
(* and returns once, with its own answer or with a failure.                  *)
THEOREM Refinement == ASSUME IdsDoNotWrap PROVE Spec => ImplementsRpc
<1>1. Init => Rpc!RpcInit
  <2> SUFFICES ASSUME Init PROVE Rpc!RpcInit
    OBVIOUS
  <2>1. rpcOpened = {} /\ rpcExecuted = {} /\ rpcReturned = [r \in Req |-> <<"open", None>>]
    BY DEF Init, rpcOpened, rpcExecuted, rpcReturned, Is
  <2>2. QED
    BY <2>1 DEF Rpc!RpcInit, Rpc!Open
<1>2. IInv /\ [Next]_vars => [Rpc!RpcNext]_(Rpc!rpcVars)
    BY RpcStep
<1>3. QED
    BY Invariance, <1>1, <1>2, PTL DEF Spec, ImplementsRpc, Rpc!RpcSpec
=============================================================================
