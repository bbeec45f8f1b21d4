--------------------- MODULE RustConnection_calls_proofs ---------------------
(***************************************************************************)
(* Proofs about RustConnection that need no assumption on the ids: they    *)
(* hold when the u32 of IdSequence has wrapped.  While a call waits its    *)
(* sender is in one place, and a pong can only answer the one ping that is *)
(* under way.                                                              *)
(***************************************************************************)
EXTENDS RustConnection_proofs
-----------------------------------------------------------------------------
(* Where messages of a kind are in a queue.                                *)

Hits(q, M) == \E k \in 1 .. Len(q) : q[k] \in M
Once(q, M) == \A j, k \in 1 .. Len(q) : q[j] \in M /\ q[k] \in M => j = k

(* A queue that gains a message. *)
LEMMA HitsAppend ==
    ASSUME NEW q \in Seq(Msg), NEW m \in Msg, NEW M
    PROVE  /\ Hits(Append(q, m), M) <=> Hits(q, M) \/ m \in M
           /\ Once(q, M) /\ ~(Hits(q, M) /\ m \in M) => Once(Append(q, m), M)
<1> DEFINE a == Append(q, m)
<1>1. /\ Len(q) \in Nat /\ Len(a) = Len(q) + 1 /\ a[Len(q) + 1] = m
      /\ \A k \in 1 .. Len(q) : a[k] = q[k]
    OBVIOUS
<1> HIDE DEF a
<1>2. \A k \in 1 .. Len(a) : k \in 1 .. Len(q) \/ k = Len(q) + 1
    BY <1>1
<1>3. Len(q) + 1 \in 1 .. Len(a) /\ \A k \in 1 .. Len(q) : k \in 1 .. Len(a)
    BY <1>1
<1>4. Hits(a, M) <=> Hits(q, M) \/ m \in M
    BY <1>1, <1>2, <1>3 DEF Hits
<1>5. ASSUME Once(q, M), ~(Hits(q, M) /\ m \in M),
             NEW j \in 1 .. Len(a), NEW k \in 1 .. Len(a), a[j] \in M, a[k] \in M
      PROVE  j = k
    <2>1. CASE j \in 1 .. Len(q) /\ k \in 1 .. Len(q)
        BY <1>1, <1>5, <2>1 DEF Once
    <2>2. CASE j = Len(q) + 1 \/ k = Len(q) + 1
        BY <1>1, <1>2, <1>5, <2>2 DEF Hits
    <2> QED
        BY <1>2, <2>1, <2>2
<1> QED
    BY <1>4, <1>5 DEF a, Once

(* A queue that loses its oldest message. *)
LEMMA HitsTail ==
    ASSUME NEW q \in Seq(Msg), q # <<>>, NEW M
    PROVE  /\ Hits(Tail(q), M) => Hits(q, M)
           /\ Head(q) \notin M => (Hits(q, M) <=> Hits(Tail(q), M))
           /\ Head(q) \in M => Hits(q, M)
           /\ Once(q, M) => Once(Tail(q), M)
           /\ Once(q, M) /\ Head(q) \in M => ~Hits(Tail(q), M)
<1> DEFINE t == Tail(q)
<1>1. /\ Len(q) \in Nat /\ Len(q) > 0 /\ Len(t) = Len(q) - 1 /\ Head(q) = q[1]
      /\ \A k \in 1 .. Len(t) : t[k] = q[k + 1]
    OBVIOUS
<1> HIDE DEF t
<1>2. /\ \A k \in 1 .. Len(t) : k + 1 \in 1 .. Len(q) /\ k + 1 # 1
      /\ \A k \in 1 .. Len(q) : k = 1 \/ (k - 1 \in 1 .. Len(t) /\ t[k - 1] = q[k])
      /\ 1 \in 1 .. Len(q)
    BY <1>1
<1>3. Hits(t, M) => Hits(q, M)
    BY <1>1, <1>2 DEF Hits
<1>4. Head(q) \notin M /\ Hits(q, M) => Hits(t, M)
    BY <1>1, <1>2 DEF Hits
<1>5. Head(q) \in M => Hits(q, M)
    BY <1>1, <1>2 DEF Hits
<1>6. ASSUME Once(q, M), NEW j \in 1 .. Len(t), NEW k \in 1 .. Len(t), t[j] \in M, t[k] \in M
      PROVE  j = k
    <2>1. j + 1 = k + 1
        BY <1>1, <1>2, <1>6 DEF Once
    <2> QED
        BY <2>1
<1>7. Once(q, M) /\ Head(q) \in M => ~Hits(t, M)
    BY <1>1, <1>2 DEF Hits, Once
<1> QED
    BY <1>3, <1>4, <1>5, <1>6, <1>7 DEF t, Once

(* An empty queue. *)
LEMMA HitsEmpty == \A M : ~Hits(<<>>, M) /\ Once(<<>>, M)
BY DEF Hits, Once
-----------------------------------------------------------------------------
(* The senders of the response channels.                                   *)

Of(r) == {m \in Msg : m.of = r}
Waits(w, r) == \E i \in Id : w[i] = r
WaitsOnce(w, r) == \A i, j \in Id : w[i] = r /\ w[j] = r => i = j

Held(r) ==
    IF tx[r].kind = "open"
    THEN \/ Hits(selfRx["client"], Of(r)) /\ ~Waits(waiters, r)
         \/ ~Hits(selfRx["client"], Of(r)) /\ Waits(waiters, r)
    ELSE ~Hits(selfRx["client"], Of(r)) /\ ~Waits(waiters, r)

HeldInv ==
    /\ TypeOK
    /\ \A r \in Req : /\ Once(selfRx["client"], Of(r))
                      /\ WaitsOnce(waiters, r)
                      /\ Held(r)

(* The invariant of the runs in other words. *)
LEMMA HeldInvImplies == HeldInv => SenderHeldOnce
<1> SUFFICES ASSUME HeldInv, NEW r \in Req
             PROVE  /\ tx[r].kind = "open" => \E h \in Holders(r) : Holders(r) = {h}
                    /\ tx[r].kind # "open" => Holders(r) = {}
    BY DEF SenderHeldOnce
<1> DEFINE q == selfRx["client"]
           Q == {k \in DOMAIN q : q[k].of = r}
           W == {i \in Id : waiters[i] = r}
<1>1. q \in Seq(Msg) /\ DOMAIN q = 1 .. Len(q)
    BY DEF HeldInv, TypeOK, Queues, Side
<1>2. \A k \in 1 .. Len(q) : q[k].of = r <=> q[k] \in Of(r)
    BY <1>1 DEF Of
<1>3. (Q # {} <=> Hits(q, Of(r))) /\ (\A j, k \in Q : j = k)
    BY <1>1, <1>2 DEF HeldInv, Hits, Once
<1>4. (W # {} <=> Waits(waiters, r)) /\ (\A i, j \in W : i = j)
    BY DEF HeldInv, Waits, WaitsOnce
<1>5. Holders(r) = ({"queue"} \X Q) \cup ({"waiter"} \X W)
    BY DEF Holders
<1> HIDE DEF Q, W, q
<1>6. CASE tx[r].kind = "open" /\ Q # {} /\ W = {}
    <2>1. PICK k : Q = {k}
        BY <1>3, <1>6
    <2>2. Holders(r) = {<<"queue", k>>}
        BY <1>5, <1>6, <2>1
    <2> QED
        BY <1>6, <2>2
<1>7. CASE tx[r].kind = "open" /\ Q = {} /\ W # {}
    <2>0. PICK i \in W : TRUE
        BY <1>7
    <2>1. W = {i}
        BY <1>4, <2>0
    <2>2. Holders(r) = {<<"waiter", i>>}
        BY <1>5, <1>7, <2>1
    <2> QED
        BY <1>7, <2>2
<1>8. CASE tx[r].kind # "open" /\ Q = {} /\ W = {}
    BY <1>5, <1>8
<1> QED
    BY <1>3, <1>4, <1>6, <1>7, <1>8 DEF HeldInv, Held, q

(* A loop of the client that returns drops every sender there is. *)
LEMMA StopHeld ==
    ASSUME HeldInv, Stop("client"), TypeOK'
    PROVE  HeldInv'
<1>1. /\ selfRx'["client"] = <<>> /\ waiters' = [i \in Id |-> None]
      /\ tx' = Dropped(Registered \cup Queued)
    BY DEF Stop, HeldInv, TypeOK, Queues, Side
<1> SUFFICES ASSUME NEW r \in Req
             PROVE  /\ Once(selfRx'["client"], Of(r)) /\ ~Hits(selfRx'["client"], Of(r))
                    /\ WaitsOnce(waiters', r) /\ ~Waits(waiters', r)
                    /\ tx'[r].kind # "open"
    BY DEF HeldInv, Held
<1>2. Once(selfRx'["client"], Of(r)) /\ ~Hits(selfRx'["client"], Of(r))
    BY <1>1, HitsEmpty
<1>3. WaitsOnce(waiters', r) /\ ~Waits(waiters', r)
    BY <1>1, NoneAssumption DEF Waits, WaitsOnce
<1>4. tx[r].kind = "open" => r \in Registered \cup Queued
    <2>1. Waits(waiters, r) => r \in Registered
        BY NoneAssumption DEF Waits, Registered
    <2>2. Hits(selfRx["client"], Of(r)) => r \in Queued
        <3>1. selfRx["client"] \in Seq(Msg)
            BY DEF HeldInv, TypeOK, Queues, Side
        <3> QED
            BY <3>1 DEF Hits, Of, Queued
    <2> QED
        BY <2>1, <2>2 DEF HeldInv, Held
<1>5. tx'[r].kind # "open"
    BY <1>1, <1>4 DEF Dropped, Is
<1> QED
    BY <1>2, <1>3, <1>5

(* A step that leaves the client's queue, the waiters and the channels alone. *)
LEMMA HeldUntouched ==
    ASSUME HeldInv, TypeOK', selfRx'["client"] = selfRx["client"], UNCHANGED <<waiters, tx>>
    PROVE  HeldInv'
BY DEF HeldInv, Held

(* An event that carries no request leaves every sender where it is. *)
LEMMA HeldAppend ==
    ASSUME HeldInv, TypeOK', NEW m \in Msg, m.of \notin Req,
           selfRx'["client"] = Append(selfRx["client"], m), UNCHANGED <<waiters, tx>>
    PROVE  HeldInv'
<1>1. selfRx["client"] \in Seq(Msg)
    BY DEF HeldInv, TypeOK, Queues, Side
<1>2. \A r \in Req : m \notin Of(r)
    BY DEF Of
<1>3. \A r \in Req : /\ Hits(selfRx'["client"], Of(r)) <=> Hits(selfRx["client"], Of(r))
                     /\ Once(selfRx'["client"], Of(r))
    BY <1>1, <1>2, HitsAppend DEF HeldInv
<1> QED
    BY <1>3 DEF HeldInv, Held

(* Client::request: the new sender goes to the queue. *)
LEMMA RequestHeld ==
    ASSUME HeldInv, TypeOK', NEW r \in Req, Request(r)
    PROVE  HeldInv'
<1> DEFINE m == Frame("Request", 0, r)
<1>1. CASE phase["client"] = "closed"
    BY <1>1, HeldUntouched DEF Request
<1>2. CASE phase["client"] # "closed"
    <2>1. selfRx["client"] \in Seq(Msg) /\ tx \in [Req -> Outcome]
        BY DEF HeldInv, TypeOK, Queues, Side
    <2>2. m \in Msg /\ m.of = r
        BY FramesBuilt DEF Frame
    <2>3. /\ selfRx'["client"] = Append(selfRx["client"], m)
          /\ tx' = [tx EXCEPT ![r] = Is("open")]
          /\ UNCHANGED waiters
        BY <1>2 DEF Request, HeldInv, TypeOK, Queues, Side
    <2> HIDE DEF m
    <2>4. ~Hits(selfRx["client"], Of(r)) /\ ~Waits(waiters, r)
        BY DEF Request, HeldInv, Held
    <2>5. m \in Of(r) /\ \A p \in Req : p # r => m \notin Of(p)
        BY <2>2 DEF Of
    <2>6. \A p \in Req : Once(selfRx'["client"], Of(p))
        BY <2>1, <2>2, <2>3, <2>4, <2>5, HitsAppend DEF HeldInv
    <2>7. /\ Hits(selfRx'["client"], Of(r))
          /\ \A p \in Req : p # r => (Hits(selfRx'["client"], Of(p)) <=> Hits(selfRx["client"], Of(p)))
        BY <2>1, <2>2, <2>3, <2>5, HitsAppend
    <2>8. tx'[r].kind = "open" /\ \A p \in Req : p # r => tx'[p] = tx[p]
        BY <2>1, <2>3 DEF Is
    <2> QED
        BY <2>3, <2>4, <2>6, <2>7, <2>8 DEF HeldInv, Held
<1> QED
    BY <1>1, <1>2

(* handle_internal_event moves the sender of its request from the queue to    *)
(* the waiters, or answers it; the waiter it may evict is dropped.            *)
LEMMA SendRequestHeld ==
    ASSUME HeldInv, TypeOK', SendRequest
    PROVE  HeldInv'
<1> DEFINE q == selfRx["client"]
           r == Head(q).of
           i == idNext["client"]
<1>1. /\ q \in Seq(Msg) /\ q # <<>> /\ r \in Req /\ Head(q) \in Msg /\ i \in Id
      /\ waiters \in [Id -> Req \cup {None}] /\ tx \in [Req -> Outcome]
    BY HeadFields DEF SendRequest, TakeEvent, HeldInv, TypeOK, Queues, Side
<1>2. selfRx'["client"] = Tail(q)
    BY DEF SendRequest, TakeEvent, HeldInv, TypeOK, Queues, Side
<1>3. Head(q) \in Of(r) /\ \A p \in Req : p # r => Head(q) \notin Of(p)
    BY <1>1 DEF Of
<1>4. \/ /\ tx' = [tx EXCEPT ![r] = Is("RequestTimeout")] /\ UNCHANGED waiters
      \/ /\ waiters' = [waiters EXCEPT ![i] = r] /\ tx' = Dropped({waiters[i]})
    BY DEF SendRequest, Notify
<1> HIDE DEF q, r, i
<1>5. Hits(q, Of(r)) /\ ~Waits(waiters, r) /\ tx[r].kind = "open"
    BY <1>1, <1>3, HitsTail DEF HeldInv, Held, q
<1>6. \A p \in Req : Once(Tail(q), Of(p)) /\ Once(q, Of(p))
    BY <1>1, HitsTail DEF HeldInv, q
<1>7. ~Hits(Tail(q), Of(r)) /\ \A p \in Req : p # r => (Hits(Tail(q), Of(p)) <=> Hits(q, Of(p)))
    BY <1>1, <1>3, <1>6, HitsTail
<1>8. CASE tx' = [tx EXCEPT ![r] = Is("RequestTimeout")] /\ UNCHANGED waiters
    <2>1. tx'[r].kind # "open" /\ \A p \in Req : p # r => tx'[p] = tx[p]
        BY <1>1, <1>8 DEF Is
    <2> QED
        BY <1>2, <1>5, <1>6, <1>7, <1>8, <2>1 DEF HeldInv, Held, q
<1>9. CASE waiters' = [waiters EXCEPT ![i] = r] /\ tx' = Dropped({waiters[i]})
    <2>1. waiters[i] # r
        BY <1>1, <1>5 DEF Waits
    <2>2. Waits(waiters', r) /\ WaitsOnce(waiters', r)
        BY <1>1, <1>5, <1>9 DEF Waits, WaitsOnce
    <2>3. tx'[r] = tx[r]
        BY <1>1, <1>9, <2>1 DEF Dropped
    <2>4. ASSUME NEW p \in Req, p # r
          PROVE  WaitsOnce(waiters', p) /\ Once(Tail(q), Of(p)) /\ Held(p)'
        <3>1. WaitsOnce(waiters, p) /\ Held(p) /\ (Hits(Tail(q), Of(p)) <=> Hits(q, Of(p)))
            BY <1>7, <2>4 DEF HeldInv
        <3>2. WaitsOnce(waiters', p)
            BY <1>1, <1>9, <2>4, <3>1 DEF WaitsOnce
        <3>3. CASE waiters[i] = p
            <4>1. tx[p].kind = "open" /\ ~Hits(q, Of(p))
                BY <1>1, <3>1, <3>3 DEF Held, Waits, q
            <4>2. tx'[p].kind # "open"
                BY <1>9, <3>3, <4>1 DEF Dropped, Is
            <4>3. ~Waits(waiters', p)
                BY <1>1, <1>9, <2>4, <3>1, <3>3 DEF Waits, WaitsOnce
            <4> QED
                BY <1>2, <1>6, <3>1, <3>2, <4>1, <4>2, <4>3 DEF Held
        <3>4. CASE waiters[i] # p
            <4>1. tx'[p] = tx[p]
                BY <1>9, <3>4 DEF Dropped
            <4>2. Waits(waiters', p) <=> Waits(waiters, p)
                BY <1>1, <1>9, <2>4, <3>4 DEF Waits
            <4> QED
                BY <1>2, <1>6, <3>1, <3>2, <4>1, <4>2 DEF Held, q
        <3> QED
            BY <3>3, <3>4
    <2> QED
        BY <1>2, <1>5, <1>6, <1>7, <2>2, <2>3, <2>4 DEF HeldInv, Held
<1> QED
    BY <1>4, <1>8, <1>9

(* A push leaves the queue; no sender goes with it. *)
LEMMA SendPushHeld ==
    ASSUME HeldInv, TypeOK', SendPush
    PROVE  HeldInv'
<1> DEFINE q == selfRx["client"]
<1>1. /\ q \in Seq(Msg) /\ q # <<>> /\ Head(q) \in Msg /\ Head(q).of \in Push
      /\ selfRx'["client"] = Tail(q) /\ UNCHANGED <<waiters, tx>>
    BY HeadFields DEF SendPush, TakeEvent, HeldInv, TypeOK, Queues, Side, callVars
<1> HIDE DEF q
<1>2. \A r \in Req : Head(q) \notin Of(r)
    BY <1>1, DisjointAssumption DEF Of
<1>3. \A r \in Req : (Hits(Tail(q), Of(r)) <=> Hits(q, Of(r))) /\ Once(Tail(q), Of(r))
    BY <1>1, <1>2, HitsTail DEF HeldInv, q
<1> QED
    BY <1>1, <1>3 DEF HeldInv, Held, q

(* handle_response and handle_error: the waiter that is told is removed. *)
LEMMA ReceiveReplyHeld ==
    ASSUME HeldInv, TypeOK', ReceiveReply
    PROVE  HeldInv'
<1> DEFINE f == Head(net["client"])
           r == waiters[f.seq]
           o == [kind |-> IF f.op = "Response" THEN "ok" ELSE "error", of |-> f.of]
<1>1. /\ f.seq \in Id /\ waiters \in [Id -> Req \cup {None}] /\ tx \in [Req -> Outcome]
      /\ UNCHANGED selfRx
    BY HeadFields DEF ReceiveReply, TakeFrame, HeldInv, TypeOK, Side
<1>2. CASE r = None
    BY <1>1, <1>2, HeldUntouched DEF ReceiveReply
<1>3. CASE r # None
    <2>1. waiters' = [waiters EXCEPT ![f.seq] = None] /\ tx' = [tx EXCEPT ![r] = o]
        BY <1>3 DEF ReceiveReply, Notify
    <2>2. o.kind # "open"
        OBVIOUS
    <2> HIDE DEF f, o
    <2>3. r \in Req /\ tx'[r].kind # "open" /\ \A p \in Req : p # r => tx'[p] = tx[p]
        BY <1>1, <1>3, <2>1, <2>2
    <2>4. tx[r].kind = "open" /\ ~Hits(selfRx["client"], Of(r))
        BY <1>1, <2>3 DEF HeldInv, Held, Waits
    <2>5. ~Waits(waiters', r) /\ WaitsOnce(waiters', r)
        BY <1>1, <2>1, <2>3, NoneAssumption DEF HeldInv, Waits, WaitsOnce
    <2>6. ASSUME NEW p \in Req, p # r
          PROVE  WaitsOnce(waiters', p) /\ (Waits(waiters', p) <=> Waits(waiters, p))
        <3>1. \A j \in Id : waiters'[j] = p <=> waiters[j] = p
            BY <1>1, <2>1, <2>6, NoneAssumption
        <3> QED
            BY <3>1 DEF HeldInv, Waits, WaitsOnce
    <2> QED
        BY <1>1, <2>3, <2>4, <2>5, <2>6 DEF HeldInv, Held
<1> QED
    BY <1>2, <1>3

(* The sweep of handle_ping_frame drops a sender where it removes its waiter. *)
LEMMA ReceivePingHeld ==
    ASSUME HeldInv, TypeOK', NEW s \in Side, ReceivePing(s)
    PROVE  HeldInv'
<1>1. CASE s # "client"
    BY <1>1, HeldUntouched DEF ReceivePing
<1>2. CASE s = "client"
    <2>1. /\ waiters' = [i \in Id |-> IF waiters[i] \in expired THEN None ELSE waiters[i]]
          /\ tx' = Dropped(Registered \cap expired)
          /\ UNCHANGED selfRx
        BY <1>2 DEF ReceivePing
    <2> SUFFICES ASSUME NEW r \in Req
                 PROVE  WaitsOnce(waiters', r) /\ Held(r)'
        BY <2>1 DEF HeldInv
    <2>2. \A i \in Id : waiters'[i] = r <=> waiters[i] = r /\ r \notin expired
        BY <2>1, NoneAssumption
    <2>3. WaitsOnce(waiters', r)
        BY <2>2 DEF HeldInv, WaitsOnce
    <2>4. Waits(waiters', r) <=> Waits(waiters, r) /\ r \notin expired
        BY <2>2 DEF Waits
    <2>5. r \in Registered <=> Waits(waiters, r)
        BY NoneAssumption DEF Registered, Waits
    <2>6. /\ Waits(waiters, r) /\ r \in expired => tx'[r].kind # "open"
          /\ ~(Waits(waiters, r) /\ r \in expired) => tx'[r] = tx[r]
        BY <2>1, <2>5 DEF Dropped, Is
    <2>7. Held(r)'
        BY <2>1, <2>4, <2>6 DEF HeldInv, Held
    <2> QED
        BY <2>3, <2>7
<1> QED
    BY <1>1, <1>2

(* A loop that stops or starts to close. *)
LEMMA CloseHeld ==
    ASSUME HeldInv, TypeOK', NEW s \in Side, NEW q, Stop(s) \/ CloseConn(s, q)
    PROVE  HeldInv'
<1>1. CASE s = "client"
    BY <1>1, StopHeld DEF CloseConn
<1>2. CASE s = "server"
    <2>1. selfRx'["client"] = selfRx["client"] /\ UNCHANGED <<waiters, tx>>
        BY <1>2 DEF Stop, CloseConn, HeldInv, TypeOK, Queues, Side
    <2> QED
        BY <2>1, HeldUntouched
<1> QED
    BY <1>1, <1>2 DEF Side

(* HeldInv is inductive. *)
LEMMA HeldStep == HeldInv /\ [Next]_vars => HeldInv'
<1> SUFFICES ASSUME HeldInv, [Next]_vars PROVE HeldInv'
    OBVIOUS
<1>0. TypeOK' /\ selfRx \in Queues /\ "client" \in Side /\ "server" \in Side
    BY TypeStep DEF HeldInv, TypeOK, Side
<1> USE <1>0 DEF loopVars, idVars, callVars, serverVars
<1>1. CASE UNCHANGED <<selfRx, waiters, tx>>
    BY <1>1, HeldUntouched
<1>2. ASSUME NEW q, selfRx' = [selfRx EXCEPT !["server"] = q], UNCHANGED <<waiters, tx>>
      PROVE  HeldInv'
    BY <1>2, HeldUntouched DEF Queues
<1>3. ASSUME NEW p \in Push, PushCall(p) PROVE HeldInv'
    <2>1. CASE UNCHANGED selfRx
        BY <1>1, <1>3, <2>1 DEF PushCall
    <2>2. CASE selfRx' = [selfRx EXCEPT !["client"] = Append(@, Frame("Push", 0, p))]
        <3>1. selfRx'["client"] = Append(selfRx["client"], Frame("Push", 0, p))
            BY <2>2 DEF Queues
        <3>2. Frame("Push", 0, p) \in Msg /\ Frame("Push", 0, p).of \notin Req
            BY FramesBuilt, DisjointAssumption DEF Frame
        <3> QED
            BY <1>3, <3>1, <3>2, HeldAppend DEF PushCall
    <2> QED
        BY <1>3, <2>1, <2>2 DEF PushCall
<1>4. ASSUME NEW s \in Side, Close(s) PROVE HeldInv'
    <2>1. CASE s = "server"
        BY <1>2, <1>4, <2>1 DEF Close
    <2>2. CASE s = "client"
        <3>1. selfRx'["client"] = Append(selfRx["client"], Frame("Close", 0, None))
            BY <1>4, <2>2 DEF Close, Queues
        <3>2. Frame("Close", 0, None) \in Msg /\ Frame("Close", 0, None).of \notin Req
            BY FramesBuilt, NoneAssumption DEF Frame
        <3> QED
            BY <1>4, <3>1, <3>2, HeldAppend DEF Close
    <2> QED
        BY <2>1, <2>2 DEF Side
<1>5. CASE ClientCalls
    BY <1>1, <1>3, <1>5, RequestHeld DEF ClientCalls, Await, Abandon, DeadlinePasses
<1>6. CASE OwnEvents
    <2>1. CASE ResponseComplete
        BY <1>2, <2>1 DEF ResponseComplete, TakeEvent
    <2>2. ASSUME NEW s \in Side, PingTimeout(s) \/ CloseRequested(s) PROVE HeldInv'
        BY <2>2, CloseHeld DEF PingTimeout, CloseRequested
    <2>3. ASSUME NEW s \in Side, SendPing(s) PROVE HeldInv'
        BY <1>1, <2>3 DEF SendPing
    <2> QED
        BY <1>4, <1>6, <2>1, <2>2, <2>3, SendRequestHeld, SendPushHeld DEF OwnEvents
<1>7. CASE Frames
    <2>1. CASE ReceiveGoAway
        BY <2>1, CloseHeld DEF ReceiveGoAway
    <2>2. CASE ReceiveRequest \/ ReceivePush \/ \E s \in Side : ReceivePong(s)
        BY <1>1, <2>2 DEF ReceiveRequest, ReceivePush, ReceivePong
    <2> QED
        BY <1>7, <2>1, <2>2, ReceiveReplyHeld, ReceivePingHeld DEF Frames
<1>8. CASE Socket
    <2>1. CASE GoAwayWritten
        BY <2>1, CloseHeld DEF GoAwayWritten
    <2>2. ASSUME NEW s \in Side, ReadEof(s) \/ SocketError(s) PROVE HeldInv'
        BY <2>2, CloseHeld DEF ReadEof, SocketError
    <2>3. ASSUME NEW s \in Side, WriteFrame(s) PROVE HeldInv'
        BY <1>1, <2>3 DEF WriteFrame
    <2> QED
        BY <1>8, <2>1, <2>2, <2>3 DEF Socket
<1>9. CASE Handlers
    <2>1. ASSUME NEW t \in tasks, HandlerReturns(t) PROVE HeldInv'
        BY <1>1, <1>2, <2>1 DEF HandlerReturns
    <2> QED
        BY <1>1, <1>9, <2>1 DEF Handlers, HandlerPanics
<1>10. CASE UNCHANGED vars
    BY <1>1, <1>10 DEF vars
<1> QED
    BY <1>5, <1>6, <1>7, <1>8, <1>9, <1>10 DEF Next

(* A call that waits has its sender in exactly one place, a queued event or   *)
(* one entry of ConnectionHandler.waiters, and a call that does not wait has  *)
(* none: no path through handle_internal_event, the replies, the sweep and    *)
(* the end of `run` leaks or duplicates one, even when the ids have wrapped   *)
(* and a request evicts the waiter of another.                                *)
THEOREM SenderIsHeldOnce == Spec => []SenderHeldOnce
<1>1. Init => HeldInv
    <2> SUFFICES ASSUME Init PROVE HeldInv
        OBVIOUS
    <2>1. TypeOK
        BY InitIInv DEF IInv
    <2>2. selfRx["client"] = <<>> /\ waiters = [i \in Id |-> None] /\ \A r \in Req : tx[r].kind = "unused"
        BY DEF Init, Side, Is
    <2> QED
        BY <2>1, <2>2, HitsEmpty, NoneAssumption DEF HeldInv, Held, Waits, WaitsOnce
<1> QED
    BY <1>1, HeldStep, HeldInvImplies, PTL DEF Spec
-----------------------------------------------------------------------------
(* Pings and pongs.                                                        *)

Pings == {m \in Msg : m.op = "Ping"}
Pongs == {m \in Msg : m.op = "Pong"}

(* The four places of the round trip that s started: the writer of s, the     *)
(* socket to its peer, the writer of the peer and the socket back.            *)
AtWriter(s) == outbox[s] \in Pings
OnTheWay(s) == Hits(net[Peer(s)], Pings)
AtPeer(s) == outbox[Peer(s)] \in Pongs
OnTheWayBack(s) == Hits(net[s], Pongs)

RoundTrip(s) ==
    /\ Once(net[Peer(s)], Pings) /\ Once(net[s], Pongs)
    /\ pong_received[s] => ~AtWriter(s) /\ ~OnTheWay(s) /\ ~AtPeer(s) /\ ~OnTheWayBack(s)
    /\ ~pong_received[s] =>
        \/ AtWriter(s) /\ ~OnTheWay(s) /\ ~AtPeer(s) /\ ~OnTheWayBack(s)
        \/ ~AtWriter(s) /\ OnTheWay(s) /\ ~AtPeer(s) /\ ~OnTheWayBack(s)
        \/ ~AtWriter(s) /\ ~OnTheWay(s) /\ AtPeer(s) /\ ~OnTheWayBack(s)
        \/ ~AtWriter(s) /\ ~OnTheWay(s) /\ ~AtPeer(s) /\ OnTheWayBack(s)

PingInv ==
    /\ TypeOK
    /\ \A s \in Side : phase[s] = "running" => outbox[s] = Nothing
    /\ (phase["client"] # "closed" /\ phase["server"] # "closed") => \A s \in Side : RoundTrip(s)

(* The invariant of the runs in other words. *)
LEMMA PingInvImplies == PingInv => PongAnswersThePing
<1> SUFFICES ASSUME PingInv, NEW s \in Side, phase[s] # "closed", phase[Peer(s)] # "closed"
             PROVE  IF pong_received[s] THEN InFlight(s) = {}
                    ELSE \E x \in InFlight(s) : InFlight(s) = {x}
    BY DEF PongAnswersThePing
<1> DEFINE A == {k \in DOMAIN net[Peer(s)] : net[Peer(s)][k].op = "Ping"}
           B == {k \in DOMAIN net[s] : net[s][k].op = "Pong"}
<1>0. RoundTrip(s) /\ Peer(s) \in Side /\ net \in Queues /\ outbox \in [Side -> Msg]
    BY DEF PingInv, TypeOK, Peer, Side
<1>1. \A t \in Side : net[t] \in Seq(Msg) /\ DOMAIN net[t] = 1 .. Len(net[t])
    BY <1>0 DEF Queues
<1>2. \A t \in Side : \A k \in 1 .. Len(net[t]) :
        /\ net[t][k] \in Pings <=> net[t][k].op = "Ping"
        /\ net[t][k] \in Pongs <=> net[t][k].op = "Pong"
    BY <1>1 DEF Pings, Pongs
<1>3. (A # {} <=> OnTheWay(s)) /\ (\A j, k \in A : j = k)
    <2> DEFINE q == net[Peer(s)]
    <2>0. DOMAIN q = 1 .. Len(q) /\ \A k \in 1 .. Len(q) : q[k] \in Pings <=> q[k].op = "Ping"
        BY <1>0, <1>1, <1>2
    <2>1. A = {k \in 1 .. Len(q) : q[k] \in Pings}
        <3> HIDE DEF q
        <3>1. A = {k \in DOMAIN q : q[k].op = "Ping"}
            BY DEF q
        <3> QED
            BY <2>0, <3>1
    <2> HIDE DEF A
    <2>2. Once(net[Peer(s)], Pings)
        BY <1>0 DEF RoundTrip
    <2> QED
        BY <2>1, <2>2 DEF OnTheWay, Hits, Once
<1>4. (B # {} <=> OnTheWayBack(s)) /\ (\A j, k \in B : j = k)
    <2> DEFINE q == net[s]
    <2>0. DOMAIN q = 1 .. Len(q) /\ \A k \in 1 .. Len(q) : q[k] \in Pongs <=> q[k].op = "Pong"
        BY <1>1, <1>2
    <2>1. B = {k \in 1 .. Len(q) : q[k] \in Pongs}
        <3> HIDE DEF q
        <3>1. B = {k \in DOMAIN q : q[k].op = "Pong"}
            BY DEF q
        <3> QED
            BY <2>0, <3>1
    <2> HIDE DEF B
    <2>2. Once(net[s], Pongs)
        BY <1>0 DEF RoundTrip
    <2> QED
        BY <2>1, <2>2 DEF OnTheWayBack, Hits, Once
<1>5. (AtWriter(s) <=> outbox[s].op = "Ping") /\ (AtPeer(s) <=> outbox[Peer(s)].op = "Pong")
    BY <1>0 DEF AtWriter, AtPeer, Pings, Pongs
<1>6. InFlight(s) = ({"ping"} \X A) \cup ({"pong"} \X B)
                        \cup (IF AtWriter(s) THEN {<<"ping", 0>>} ELSE {})
                        \cup (IF AtPeer(s) THEN {<<"pong", 0>>} ELSE {})
    BY <1>5 DEF InFlight
<1> HIDE DEF A, B
<1>7. CASE A = {} /\ B = {}
    BY <1>0, <1>3, <1>4, <1>6, <1>7 DEF RoundTrip
<1>8. CASE A # {} /\ B = {}
    <2>1. PICK k \in A : TRUE
        BY <1>8
    <2>2. A = {k}
        BY <1>3, <2>1
    <2>3. InFlight(s) = {<<"ping", k>>}
        BY <1>0, <1>3, <1>4, <1>6, <1>8, <2>2 DEF RoundTrip
    <2> QED
        BY <1>0, <1>3, <1>8, <2>3 DEF RoundTrip
<1>9. CASE A = {} /\ B # {}
    <2>1. PICK k \in B : TRUE
        BY <1>9
    <2>2. B = {k}
        BY <1>4, <2>1
    <2>3. InFlight(s) = {<<"pong", k>>}
        BY <1>0, <1>3, <1>4, <1>6, <1>9, <2>2 DEF RoundTrip
    <2> QED
        BY <1>0, <1>4, <1>9, <2>3 DEF RoundTrip
<1> QED
    BY <1>0, <1>3, <1>4, <1>7, <1>8, <1>9 DEF RoundTrip

(* Which frames are pings and pongs. *)
LEMMA PingFrames ==
    /\ Nothing \notin Pings \cup Pongs
    /\ Frame("GoAway", 0, None) \notin Pings \cup Pongs
    /\ \A op : op \notin {"Ping", "Pong"} => \A i, b : Frame(op, i, b) \notin Pings \cup Pongs
    /\ \A i \in Id : /\ Frame("Ping", i, None) \in Pings /\ Frame("Ping", i, None) \notin Pongs
                     /\ Frame("Pong", i, None) \in Pongs /\ Frame("Pong", i, None) \notin Pings
<1>1. \A i \in Id : Frame("Ping", i, None) \in Msg /\ Frame("Pong", i, None) \in Msg
    BY FramesBuilt
<1> QED
    BY <1>1 DEF Nothing, Frame, Pings, Pongs

(* A step after which one of the ends is closed need only keep the types. *)
LEMMA ClosedPing ==
    ASSUME PingInv, TypeOK', NEW s \in Side, phase' = [phase EXCEPT ![s] = "closed"],
           \A t \in Side : t # s => outbox'[t] = outbox[t]
    PROVE  PingInv'
BY DEF PingInv, TypeOK, Side

(* A step that moves neither pings nor pongs. *)
LEMMA SamePing ==
    ASSUME PingInv, TypeOK', UNCHANGED pong_received,
           \A s \in Side : phase[s] = "closed" => phase'[s] = "closed",
           \A s \in Side : phase'[s] = "running" => outbox'[s] = Nothing,
           \A s \in Side :
               /\ outbox'[s] \in Pings <=> outbox[s] \in Pings
               /\ outbox'[s] \in Pongs <=> outbox[s] \in Pongs
               /\ Hits(net'[s], Pings) <=> Hits(net[s], Pings)
               /\ Hits(net'[s], Pongs) <=> Hits(net[s], Pongs)
               /\ Once(net[s], Pings) => Once(net'[s], Pings)
               /\ Once(net[s], Pongs) => Once(net'[s], Pongs)
    PROVE  PingInv'
<1> SUFFICES ASSUME phase'["client"] # "closed", phase'["server"] # "closed", NEW s \in Side
             PROVE  RoundTrip(s)'
    BY DEF PingInv
<1>1. RoundTrip(s) /\ Peer(s) \in Side
    BY DEF PingInv, Peer, Side
<1>2. /\ outbox'[s] \in Pings <=> outbox[s] \in Pings
      /\ outbox'[Peer(s)] \in Pongs <=> outbox[Peer(s)] \in Pongs
      /\ Hits(net'[Peer(s)], Pings) <=> Hits(net[Peer(s)], Pings)
      /\ Hits(net'[s], Pongs) <=> Hits(net[s], Pongs)
      /\ Once(net[Peer(s)], Pings) => Once(net'[Peer(s)], Pings)
      /\ Once(net[s], Pongs) => Once(net'[s], Pongs)
    BY <1>1, Zenon
<1>3. UNCHANGED pong_received
    OBVIOUS
<1> QED
    BY <1>1, <1>2, <1>3 DEF RoundTrip, AtWriter, OnTheWay, AtPeer, OnTheWayBack

(* A frame of another kind is taken off a socket, or put on it. *)
LEMMA OtherFrame ==
    ASSUME NEW q \in Seq(Msg), NEW M
    PROVE  /\ q # <<>> /\ Head(q) \notin M =>
                (Hits(Tail(q), M) <=> Hits(q, M)) /\ (Once(q, M) => Once(Tail(q), M))
           /\ \A m \in Msg : m \notin M =>
                (Hits(Append(q, m), M) <=> Hits(q, M)) /\ (Once(q, M) => Once(Append(q, m), M))
BY HitsTail, HitsAppend

(* What TakeFrame takes. *)
LEMMA TakenFrame ==
    ASSUME TypeOK, NEW s \in Side, NEW ops, TakeFrame(s, ops)
    PROVE  /\ net[s] \in Seq(Msg) /\ net[s] # <<>> /\ Head(net[s]) \in Msg
           /\ Head(net[s]) \in Pings <=> Head(net[s]).op = "Ping"
           /\ Head(net[s]) \in Pongs <=> Head(net[s]).op = "Pong"
           /\ net'[s] = Tail(net[s]) /\ \A t \in Side : t # s => net'[t] = net[t]
           /\ Head(net[s]).op \in ops /\ phase[s] = "running"
<1>1. net[s] \in Seq(Msg) /\ net[s] # <<>> /\ Head(net[s]) \in Msg
    BY TailType DEF TypeOK, Queues, TakeFrame
<1> QED
    BY <1>1 DEF TakeFrame, TypeOK, Queues, Pings, Pongs

(* The event loop takes a frame that is neither, and may start a write of     *)
(* one that is neither.                                                      *)
LEMMA TakeOther ==
    ASSUME PingInv, TypeOK', NEW s \in Side, NEW ops, TakeFrame(s, ops),
           ops \cap {"Ping", "Pong"} = {},
           UNCHANGED <<phase, outbox, pong_received>>
    PROVE  PingInv'
<1>1. /\ net[s] \in Seq(Msg) /\ net[s] # <<>>
      /\ Head(net[s]) \notin Pings /\ Head(net[s]) \notin Pongs
      /\ net'[s] = Tail(net[s]) /\ \A t \in Side : t # s => net'[t] = net[t]
    BY TakenFrame DEF PingInv
<1>2. \A t \in Side : /\ Hits(net'[t], Pings) <=> Hits(net[t], Pings)
                      /\ Hits(net'[t], Pongs) <=> Hits(net[t], Pongs)
                      /\ Once(net[t], Pings) => Once(net'[t], Pings)
                      /\ Once(net[t], Pongs) => Once(net'[t], Pongs)
    <2> SUFFICES ASSUME NEW t \in Side
                 PROVE  /\ Hits(net'[t], Pings) <=> Hits(net[t], Pings)
                        /\ Hits(net'[t], Pongs) <=> Hits(net[t], Pongs)
                        /\ Once(net[t], Pings) => Once(net'[t], Pings)
                        /\ Once(net[t], Pongs) => Once(net'[t], Pongs)
        OBVIOUS
    <2>1. CASE t = s
        BY <1>1, <2>1, OtherFrame
    <2>2. CASE t # s
        BY <1>1, <2>2
    <2> QED
        BY <2>1, <2>2
<1> QED
    BY <1>2, SamePing DEF PingInv

(* A loop that was idle starts to write a frame that is neither. *)
LEMMA EmitOther ==
    ASSUME PingInv, TypeOK', NEW s \in Side, NEW f, f \notin Pings \cup Pongs,
           phase[s] = "running", NEW p \in {"writing", "closing"},
           phase' = [phase EXCEPT ![s] = p], outbox' = [outbox EXCEPT ![s] = f],
           UNCHANGED <<net, pong_received>>
    PROVE  PingInv'
<1>1. outbox[s] \notin Pings \cup Pongs
    BY PingFrames DEF PingInv
<1>2. \A t \in Side : /\ outbox'[t] \in Pings <=> outbox[t] \in Pings
                      /\ outbox'[t] \in Pongs <=> outbox[t] \in Pongs
                      /\ phase[t] = "closed" => phase'[t] = "closed"
                      /\ phase'[t] = "running" => outbox'[t] = Nothing
    BY <1>1 DEF PingInv, TypeOK
<1> QED
    BY <1>2, SamePing

(* Event::Ping starts the round trip. *)
LEMMA SendPingPing ==
    ASSUME PingInv, TypeOK', NEW s \in Side, SendPing(s)
    PROVE  PingInv'
<1> DEFINE f == Frame("Ping", idNext[s], None)
<1>1. /\ phase[s] = "running" /\ pong_received[s] /\ phase' = [phase EXCEPT ![s] = "writing"]
      /\ outbox' = [outbox EXCEPT ![s] = f] /\ UNCHANGED net
      /\ pong_received' = [pong_received EXCEPT ![s] = FALSE]
    BY DEF SendPing, Emit
<1>2. f \in Pings /\ f \notin Pongs /\ outbox[s] \notin Pings \cup Pongs
    BY <1>1, PingFrames DEF PingInv, TypeOK
<1> HIDE DEF f
<1>3. /\ Peer(s) \in Side /\ Peer(s) # s /\ Peer(Peer(s)) = s /\ \A t \in Side : t = s \/ t = Peer(s)
      /\ phase \in [Side -> {"running", "writing", "closing", "closed"}]
      /\ outbox \in [Side -> Msg] /\ pong_received \in [Side -> BOOLEAN]
    BY DEF PingInv, TypeOK, Peer, Side
<1>4. \A t \in Side : phase'[t] = "running" => outbox'[t] = Nothing
    BY <1>1, <1>3 DEF PingInv
<1> SUFFICES ASSUME phase'["client"] # "closed", phase'["server"] # "closed"
             PROVE  RoundTrip(s)' /\ RoundTrip(Peer(s))'
    BY <1>3, <1>4 DEF PingInv
<1>5. RoundTrip(s) /\ RoundTrip(Peer(s))
    BY <1>1, <1>3 DEF PingInv, Side
<1>6. RoundTrip(s)'
    <2>1. AtWriter(s)' /\ (AtPeer(s)' <=> AtPeer(s))
        BY <1>1, <1>2, <1>3 DEF AtWriter, AtPeer
    <2>2. (OnTheWay(s)' <=> OnTheWay(s)) /\ (OnTheWayBack(s)' <=> OnTheWayBack(s))
        BY <1>1 DEF OnTheWay, OnTheWayBack
    <2> QED
        BY <1>1, <1>3, <1>5, <2>1, <2>2 DEF RoundTrip
<1>7. RoundTrip(Peer(s))'
    <2>1. (AtWriter(Peer(s))' <=> AtWriter(Peer(s))) /\ (AtPeer(Peer(s))' <=> AtPeer(Peer(s)))
        BY <1>1, <1>2, <1>3 DEF AtWriter, AtPeer
    <2>2. /\ OnTheWay(Peer(s))' <=> OnTheWay(Peer(s))
          /\ OnTheWayBack(Peer(s))' <=> OnTheWayBack(Peer(s))
        BY <1>1 DEF OnTheWay, OnTheWayBack
    <2> QED
        BY <1>1, <1>3, <1>5, <2>1, <2>2 DEF RoundTrip
<1> QED
    BY <1>6, <1>7

(* The ends of a connection, and what their variables range over. *)
LEMMA TwoEnds ==
    ASSUME PingInv, NEW s \in Side
    PROVE  /\ Peer(s) \in Side /\ Peer(s) # s /\ Peer(Peer(s)) = s
           /\ \A t \in Side : t = s \/ t = Peer(s)
           /\ phase \in [Side -> {"running", "writing", "closing", "closed"}]
           /\ outbox \in [Side -> Msg] /\ pong_received \in [Side -> BOOLEAN]
           /\ net \in Queues
           /\ \A t \in Side : net[t] \in Seq(Msg)
BY DEF PingInv, TypeOK, Peer, Side, Queues

(* handle_ping_frame: the ping of the peer turns into a pong. *)
LEMMA ReceivePingPing ==
    ASSUME PingInv, TypeOK', NEW s \in Side, ReceivePing(s)
    PROVE  PingInv'
<1> DEFINE f == Frame("Pong", Head(net[s]).seq, None)
           p == Peer(s)
<1>1. /\ net[s] # <<>> /\ Head(net[s]) \in Pings /\ Head(net[s]) \notin Pongs
      /\ net'[s] = Tail(net[s]) /\ \A t \in Side : t # s => net'[t] = net[t]
      /\ phase[s] = "running" /\ Head(net[s]).seq \in Id
    BY TakenFrame, HeadFields DEF PingInv, ReceivePing
<1>2. /\ phase' = [phase EXCEPT ![s] = "writing"] /\ outbox' = [outbox EXCEPT ![s] = f]
      /\ UNCHANGED pong_received
    BY DEF ReceivePing, Emit
<1>3. f \in Pongs /\ f \notin Pings /\ outbox[s] \notin Pings \cup Pongs
    BY <1>1, PingFrames DEF PingInv
<1> HIDE DEF f
<1>4. /\ p \in Side /\ p # s /\ Peer(p) = s /\ \A t \in Side : t = s \/ t = p
      /\ phase \in [Side -> {"running", "writing", "closing", "closed"}]
      /\ outbox \in [Side -> Msg] /\ net[s] \in Seq(Msg)
    BY TwoEnds
<1>5. \A t \in Side : phase'[t] = "running" => outbox'[t] = Nothing
    BY <1>2, <1>4 DEF PingInv
<1> HIDE DEF p
<1> SUFFICES ASSUME phase'["client"] # "closed", phase'["server"] # "closed"
             PROVE  RoundTrip(s)' /\ RoundTrip(p)'
    BY <1>4, <1>5 DEF PingInv
<1>6. RoundTrip(s) /\ RoundTrip(p)
    BY <1>1, <1>2, <1>4 DEF PingInv, Side
<1>7. /\ Hits(net[s], Pings) /\ ~Hits(net'[s], Pings) /\ Once(net'[s], Pings)
      /\ Hits(net'[s], Pongs) <=> Hits(net[s], Pongs)
      /\ Once(net'[s], Pongs)
    BY <1>1, <1>4, <1>6, HitsTail DEF RoundTrip, p
<1>8. RoundTrip(s)'
    <2>1. (AtWriter(s)' <=> AtWriter(s)) /\ (AtPeer(s)' <=> AtPeer(s))
        BY <1>2, <1>3, <1>4 DEF AtWriter, AtPeer, p
    <2>2. (OnTheWay(s)' <=> OnTheWay(s)) /\ (OnTheWayBack(s)' <=> OnTheWayBack(s))
        BY <1>1, <1>4, <1>7 DEF OnTheWay, OnTheWayBack, p
    <2>3. Once(net'[p], Pings)
        BY <1>1, <1>4, <1>6 DEF RoundTrip, p
    <2> QED
        BY <1>2, <1>6, <1>7, <2>1, <2>2, <2>3 DEF RoundTrip, p
<1>9. RoundTrip(p)'
    <2>1. (AtWriter(p)' <=> AtWriter(p)) /\ AtPeer(p)'
        BY <1>2, <1>3, <1>4 DEF AtWriter, AtPeer
    <2>2. OnTheWay(p) /\ ~OnTheWay(p)' /\ (OnTheWayBack(p)' <=> OnTheWayBack(p))
        BY <1>1, <1>4, <1>7 DEF OnTheWay, OnTheWayBack
    <2>3. Once(net'[p], Pongs)
        BY <1>1, <1>4, <1>6 DEF RoundTrip
    <2> QED
        BY <1>2, <1>4, <1>6, <1>7, <2>1, <2>2, <2>3 DEF RoundTrip
<1> QED
    BY <1>8, <1>9

(* handle_pong_frame ends the round trip. *)
LEMMA ReceivePongPing ==
    ASSUME PingInv, TypeOK', NEW s \in Side, ReceivePong(s)
    PROVE  PingInv'
<1> DEFINE p == Peer(s)
<1>1. /\ net[s] # <<>> /\ Head(net[s]) \in Pongs /\ Head(net[s]) \notin Pings
      /\ net'[s] = Tail(net[s]) /\ \A t \in Side : t # s => net'[t] = net[t]
    BY TakenFrame DEF PingInv, ReceivePong
<1>2. pong_received' = [pong_received EXCEPT ![s] = TRUE] /\ UNCHANGED <<phase, outbox>>
    BY DEF ReceivePong
<1>3. /\ p \in Side /\ p # s /\ Peer(p) = s /\ \A t \in Side : t = s \/ t = p
      /\ pong_received \in [Side -> BOOLEAN] /\ net[s] \in Seq(Msg)
    BY TwoEnds
<1> HIDE DEF p
<1> SUFFICES ASSUME phase["client"] # "closed", phase["server"] # "closed"
             PROVE  RoundTrip(s)' /\ RoundTrip(p)'
    BY <1>2, <1>3 DEF PingInv
<1>4. RoundTrip(s) /\ RoundTrip(p)
    BY <1>3 DEF PingInv
<1>5. /\ Hits(net[s], Pongs) /\ ~Hits(net'[s], Pongs) /\ Once(net'[s], Pongs)
      /\ Hits(net'[s], Pings) <=> Hits(net[s], Pings)
      /\ Once(net'[s], Pings)
    BY <1>1, <1>3, <1>4, HitsTail DEF RoundTrip
<1>6. RoundTrip(s)'
    <2>1. OnTheWayBack(s) /\ ~OnTheWayBack(s)' /\ (OnTheWay(s)' <=> OnTheWay(s))
        BY <1>1, <1>3, <1>5 DEF OnTheWay, OnTheWayBack, p
    <2>2. (AtWriter(s)' <=> AtWriter(s)) /\ (AtPeer(s)' <=> AtPeer(s))
        BY <1>2 DEF AtWriter, AtPeer
    <2>3. Once(net'[p], Pings)
        BY <1>1, <1>3, <1>4 DEF RoundTrip, p
    <2> QED
        BY <1>2, <1>3, <1>4, <1>5, <2>1, <2>2, <2>3 DEF RoundTrip, p
<1>7. RoundTrip(p)'
    <2>1. (OnTheWay(p)' <=> OnTheWay(p)) /\ (OnTheWayBack(p)' <=> OnTheWayBack(p))
        BY <1>1, <1>3, <1>5 DEF OnTheWay, OnTheWayBack
    <2>2. (AtWriter(p)' <=> AtWriter(p)) /\ (AtPeer(p)' <=> AtPeer(p))
        BY <1>2 DEF AtWriter, AtPeer
    <2>3. Once(net'[p], Pongs)
        BY <1>1, <1>3, <1>4 DEF RoundTrip
    <2> QED
        BY <1>2, <1>3, <1>4, <1>5, <2>1, <2>2, <2>3 DEF RoundTrip
<1> QED
    BY <1>6, <1>7

(* The writer of s hands its frame to the socket, or loses it with the peer. *)
LEMMA WriteFramePing ==
    ASSUME PingInv, TypeOK', NEW s \in Side, WriteFrame(s)
    PROVE  PingInv'
<1> DEFINE p == Peer(s)
           m == outbox[s]
<1>1. /\ phase' = [phase EXCEPT ![s] = "running"] /\ outbox' = [outbox EXCEPT ![s] = Nothing]
      /\ UNCHANGED pong_received /\ phase[s] = "writing"
    BY DEF WriteFrame
<1>2. /\ p \in Side /\ p # s /\ Peer(p) = s /\ \A t \in Side : t = s \/ t = p
      /\ phase \in [Side -> {"running", "writing", "closing", "closed"}]
      /\ outbox \in [Side -> Msg] /\ net \in Queues /\ net[p] \in Seq(Msg) /\ m \in Msg
    BY TwoEnds
<1>3. phase[p] # "closed" => net' = [net EXCEPT ![p] = Append(@, m)]
    BY DEF WriteFrame
<1> HIDE DEF p, m
<1>4. \A t \in Side : phase'[t] = "running" => outbox'[t] = Nothing
    BY <1>1, <1>2 DEF PingInv
<1> SUFFICES ASSUME phase'["client"] # "closed", phase'["server"] # "closed"
             PROVE  RoundTrip(s)' /\ RoundTrip(p)'
    BY <1>2, <1>4 DEF PingInv
<1>5. phase[p] # "closed" /\ phase[s] # "closed" /\ "client" \in Side /\ "server" \in Side
    BY <1>1, <1>2 DEF Side
<1>6. RoundTrip(s) /\ RoundTrip(p)
    BY <1>2, <1>5 DEF PingInv
<1>7. net'[p] = Append(net[p], m) /\ net'[s] = net[s]
    BY <1>2, <1>3, <1>5 DEF Queues
<1>8. ~(m \in Pings /\ m \in Pongs) /\ Nothing \notin Pings \cup Pongs
    BY PingFrames DEF Pings, Pongs
<1>9. /\ Hits(net'[p], Pings) <=> Hits(net[p], Pings) \/ m \in Pings
      /\ Hits(net'[p], Pongs) <=> Hits(net[p], Pongs) \/ m \in Pongs
      /\ Once(net[p], Pings) /\ ~(Hits(net[p], Pings) /\ m \in Pings) => Once(net'[p], Pings)
      /\ Once(net[p], Pongs) /\ ~(Hits(net[p], Pongs) /\ m \in Pongs) => Once(net'[p], Pongs)
    BY <1>2, <1>7, HitsAppend
<1>10. /\ outbox'[s] = Nothing /\ outbox'[p] = outbox[p]
    BY <1>1, <1>2
<1>11. RoundTrip(s)'
    <2>1. /\ AtWriter(s) <=> m \in Pings
          /\ ~AtWriter(s)' /\ (AtPeer(s)' <=> AtPeer(s))
          /\ OnTheWay(s)' <=> OnTheWay(s) \/ m \in Pings
          /\ OnTheWayBack(s)' <=> OnTheWayBack(s)
        BY <1>7, <1>8, <1>9, <1>10 DEF AtWriter, AtPeer, OnTheWay, OnTheWayBack, m, p
    <2>2. Once(net'[p], Pings) /\ Once(net'[s], Pongs)
        BY <1>6, <1>7, <1>9, <2>1 DEF RoundTrip, OnTheWay, p
    <2> QED
        BY <1>1, <1>6, <2>1, <2>2 DEF RoundTrip, p
<1>12. RoundTrip(p)'
    <2>1. /\ AtPeer(p) <=> m \in Pongs
          /\ ~AtPeer(p)' /\ (AtWriter(p)' <=> AtWriter(p))
          /\ OnTheWay(p)' <=> OnTheWay(p)
          /\ OnTheWayBack(p)' <=> OnTheWayBack(p) \/ m \in Pongs
        BY <1>2, <1>7, <1>8, <1>9, <1>10 DEF AtWriter, AtPeer, OnTheWay, OnTheWayBack, m
    <2>2. Once(net'[p], Pongs) /\ Once(net'[s], Pings)
        BY <1>2, <1>6, <1>7, <1>9, <2>1 DEF RoundTrip, OnTheWayBack
    <2> QED
        BY <1>1, <1>2, <1>6, <2>1, <2>2 DEF RoundTrip
<1> QED
    BY <1>11, <1>12

(* A loop that stops, or a server that starts to write its GoAway. *)
LEMMA ClosePing ==
    ASSUME PingInv, TypeOK', NEW s \in Side, NEW q,
           Stop(s) \/ (phase[s] = "running" /\ CloseConn(s, q) /\ UNCHANGED <<net, pong_received>>)
    PROVE  PingInv'
<1>1. CASE Stop(s)
    <2>1. /\ phase' = [phase EXCEPT ![s] = "closed"]
          /\ \A t \in Side : t # s => outbox'[t] = outbox[t]
        BY <1>1 DEF Stop, PingInv, TypeOK
    <2> QED
        BY <2>1, ClosedPing
<1>2. CASE ~Stop(s)
    <2>1. /\ phase[s] = "running" /\ UNCHANGED <<net, pong_received>>
          /\ phase' = [phase EXCEPT ![s] = "closing"]
          /\ outbox' = [outbox EXCEPT ![s] = Frame("GoAway", 0, None)]
        BY <1>2 DEF CloseConn
    <2> QED
        BY <2>1, EmitOther, PingFrames
<1> QED
    BY <1>1, <1>2

(* PingInv is inductive. *)
LEMMA PingStep == PingInv /\ [Next]_vars => PingInv'
<1> SUFFICES ASSUME PingInv, [Next]_vars PROVE PingInv'
    OBVIOUS
<1>0. TypeOK /\ TypeOK' /\ "client" \in Side /\ "server" \in Side
    BY TypeStep DEF PingInv, Side
<1> USE <1>0 DEF loopVars, idVars, callVars, serverVars
<1>1. CASE UNCHANGED <<phase, outbox, net, pong_received>>
    BY <1>1, SamePing DEF PingInv
<1>2. ASSUME NEW s \in Side, NEW f, f \notin Pings \cup Pongs, phase[s] = "running",
             Emit(s, f), UNCHANGED <<net, pong_received>>
      PROVE  PingInv'
    BY <1>2, EmitOther DEF Emit
<1>3. CASE ClientCalls
    BY <1>1, <1>3 DEF ClientCalls, Request, Await, Abandon, DeadlinePasses, PushCall
<1>4. CASE OwnEvents
    <2>1. CASE SendRequest
        <3>1. CASE UNCHANGED <<phase, outbox>>
            BY <1>1, <2>1, <3>1 DEF SendRequest
        <3>2. CASE ~UNCHANGED <<phase, outbox>>
            <4> DEFINE f == Frame("Request", idNext["client"], Head(selfRx["client"]).of)
            <4>1. phase["client"] = "running" /\ Emit("client", f) /\ UNCHANGED <<net, pong_received>>
                BY <2>1, <3>2 DEF SendRequest, TakeEvent
            <4>2. f \notin Pings \cup Pongs
                BY PingFrames
            <4> HIDE DEF f
            <4> QED
                BY <1>2, <4>1, <4>2
        <3> QED
            BY <3>1, <3>2
    <2>2. CASE SendPush
        <3> DEFINE f == Frame("Push", 0, Head(selfRx["client"]).of)
        <3>1. phase["client"] = "running" /\ Emit("client", f) /\ UNCHANGED <<net, pong_received>>
            BY <2>2 DEF SendPush, TakeEvent
        <3>2. f \notin Pings \cup Pongs
            BY PingFrames
        <3> HIDE DEF f
        <3> QED
            BY <1>2, <3>1, <3>2
    <2>3. CASE ResponseComplete
        <3> DEFINE f == Head(selfRx["server"])
        <3>1. phase["server"] = "running" /\ Emit("server", f) /\ UNCHANGED <<net, pong_received>>
            BY <2>3 DEF ResponseComplete, TakeEvent
        <3>2. f \notin Pings \cup Pongs
            BY <2>3 DEF ResponseComplete, TakeEvent, Pings, Pongs
        <3> HIDE DEF f
        <3> QED
            BY <1>2, <3>1, <3>2
    <2>4. ASSUME NEW s \in Side, PingTimeout(s) \/ CloseRequested(s) PROVE PingInv'
        BY <2>4, ClosePing DEF PingTimeout, CloseRequested
    <2>5. ASSUME NEW s \in Side, Close(s) PROVE PingInv'
        BY <1>1, <2>5 DEF Close
    <2> QED
        BY <1>4, <2>1, <2>2, <2>3, <2>4, <2>5, SendPingPing DEF OwnEvents
<1>5. CASE Frames
    <2>1. CASE ReceiveGoAway
        BY <2>1, ClosePing DEF ReceiveGoAway, CloseConn
    <2>2. ASSUME NEW s \in Side, NEW ops, TakeFrame(s, ops), ops \cap {"Ping", "Pong"} = {},
                 UNCHANGED <<phase, outbox, pong_received>>
          PROVE  PingInv'
        BY <2>2, TakeOther
    <2>3. CASE ReceiveReply
        <3>1. TakeFrame("client", {"Response", "Error"}) /\ UNCHANGED <<phase, outbox, pong_received>>
            BY <2>3 DEF ReceiveReply
        <3> QED
            BY <2>2, <3>1
    <2>4. CASE ReceiveRequest
        <3>1. TakeFrame("server", {"Request"}) /\ UNCHANGED <<phase, outbox, pong_received>>
            BY <2>4 DEF ReceiveRequest
        <3> QED
            BY <2>2, <3>1
    <2>5. CASE ReceivePush
        <3>1. TakeFrame("server", {"Push"}) /\ UNCHANGED <<phase, outbox, pong_received>>
            BY <2>5 DEF ReceivePush
        <3> QED
            BY <2>2, <3>1
    <2> QED
        BY <1>5, <2>1, <2>3, <2>4, <2>5, ReceivePingPing, ReceivePongPing DEF Frames
<1>6. CASE Socket
    <2>1. CASE GoAwayWritten
        BY <2>1, ClosePing DEF GoAwayWritten
    <2>2. ASSUME NEW s \in Side, ReadEof(s) \/ SocketError(s) PROVE PingInv'
        BY <2>2, ClosePing DEF ReadEof, SocketError
    <2> QED
        BY <1>6, <2>1, <2>2, WriteFramePing DEF Socket
<1>7. CASE Handlers
    BY <1>1, <1>7 DEF Handlers, HandlerReturns, HandlerPanics
<1>8. CASE UNCHANGED vars
    BY <1>1, <1>8 DEF vars
<1> QED
    BY <1>3, <1>4, <1>5, <1>6, <1>7, <1>8 DEF Next

(* While both ends are up, a loop that has had its pong has nothing of its    *)
(* own under way, and one that waits for it has exactly one ping or the pong  *)
(* that answers it: handle_pong_frame, which does not look at the id of a     *)
(* pong, always takes the answer to the last ping for the answer to the last  *)
(* ping, and the next Event::Ping finds pong_received low only when the peer  *)
(* has really not answered.                                                   *)
THEOREM PongIsTheAnswer == Spec => []PongAnswersThePing
<1>1. Init => PingInv
    <2> SUFFICES ASSUME Init PROVE PingInv
        OBVIOUS
    <2>1. TypeOK
        BY InitIInv DEF IInv
    <2>2. /\ \A s \in Side : net[s] = <<>> /\ outbox[s] = Nothing /\ pong_received[s] = TRUE
          /\ \A s \in Side : Peer(s) \in Side
        BY DEF Init, Side, Peer
    <2>3. \A s \in Side : RoundTrip(s)
        BY <2>2, HitsEmpty, PingFrames
           DEF RoundTrip, AtWriter, OnTheWay, AtPeer, OnTheWayBack
    <2> QED
        BY <2>1, <2>2, <2>3 DEF PingInv
<1> QED
    BY <1>1, PingStep, PingInvImplies, PTL DEF Spec
=============================================================================
