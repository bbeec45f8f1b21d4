------------------------------- MODULE ExServer -------------------------------
(***************************************************************************)
(* The Elixir server (Loqui.RanchProtocol) at the other end of ExClient's  *)
(* socket: one process for the connection, in handler_loop, and a process  *)
(* for every request, which the first one monitors.  A worker's response   *)
(* and its :DOWN reach the mailbox in this order; the socket and the timer *)
(* have their messages anywhere between those, so they are no part of it.  *)
(***************************************************************************)
EXTENDS ExClient

VARIABLES
    srv,        \* the process: see Server
    worker,     \* worker[r]: the process that handles request r
    box         \* the mailbox, what the workers have sent

serverVars == <<srv, worker, box>>
vars == <<scenario, clientVars, callVars, netVars, serverVars>>

Server == [status : {"up", "closed", "crashed"},
           ponged : BOOLEAN,        \* pong_received
           seq : 1 .. MaxSequence,  \* next_seq
           refs : SUBSET Msg,       \* monitor_refs: the requests of the workers
           answers : [Requests -> Nat]]  \* history: answers sent to each

(* What the workers send; encode raises for the term of a mail that is odd. *)
Mail == [kind : {"response", "goAway", "normal", "crash"}, request : Msg, odd : BOOLEAN]

ServerTypeOK ==
    /\ srv \in Server
    /\ worker \in [Requests -> {"none", "running", "returned", "gone"}]
    /\ box \in Seq(Mail)

Init ==
    /\ ClientInit
    /\ srv = [status |-> "up", ponged |-> TRUE, seq |-> 1, refs |-> {},
              answers |-> [r \in Requests |-> 0]]
    /\ worker = [r \in Requests |-> "none"]
    /\ box = <<>>

(* transport.send, whose result nobody looks at. *)
ServerSend(ms) ==
    fromServer' = IF link = "up" /\ status # "stopped" THEN fromServer \o ms ELSE fromServer

(* The process ends; its socket is closed with it. *)
End(how) ==
    /\ srv' = [srv EXCEPT !.status = how]
    /\ link' = IF link = "up" /\ status # "stopped" THEN "closed" ELSE link

(* goaway: peername, which raises when the socket is gone, the frame, and      *)
(* close, which runs loqui_terminate.                                        *)
GoAway ==
    \/ End("closed") /\ ServerSend(<<Plain("GoAway", 0)>>)
    \/ /\ link # "up" \/ status = "stopped"
       /\ End("crashed")
       /\ UNCHANGED fromServer
-----------------------------------------------------------------------------
(* handler_loop                                                            *)

(* {:tcp, _, data}: handle_request *)
HandleHello ==
    IF "noCodec" \in scenario.faults THEN GoAway
    ELSE ServerSend(<<Plain("HelloAck", 0)>>) /\ UNCHANGED <<srv, link>>

(* from_wire_format raises if the payload has another codec than was agreed. *)
Undecodable(m) == m.early /\ "recode" \in scenario.faults

(* handler_request *)
SpawnWorker(m) ==
    /\ worker' = [worker EXCEPT ![m.of] = "running"]
    /\ srv' = [srv EXCEPT !.refs = @ \cup {m}]

ServerData ==
    /\ srv.status = "up" /\ link = "up" /\ toServer # <<>>
    /\ toServer' = Tail(toServer)
    /\ LET m == Head(toServer)
       IN  \/ m.op = "Hello" /\ HandleHello /\ UNCHANGED worker
           \/ /\ m.op = "Ping"
              /\ ServerSend(<<Plain("Pong", m.seq)>>)
              /\ UNCHANGED <<srv, link, worker>>
           \/ /\ m.op = "Pong"
              /\ srv' = [srv EXCEPT !.ponged = TRUE]
              /\ UNCHANGED <<fromServer, link, worker>>
           \/ /\ m.op \in {"Request", "Push"} /\ Undecodable(m)
              /\ End("crashed")
              /\ UNCHANGED <<fromServer, worker>>
           \/ /\ m.op = "Request" /\ ~Undecodable(m)
              /\ SpawnWorker(m)
              /\ UNCHANGED <<fromServer, link>>
           \/ /\ m.op = "Push" /\ ~Undecodable(m)
              /\ UNCHANGED <<srv, fromServer, link, worker>>
    /\ UNCHANGED <<clientVars, callVars, box>>

Answered(ms) ==
    [r \in Requests |-> srv.answers[r] + Cardinality({i \in DOMAIN ms : ms[i].of = r})]

(* The places S of the mailbox, in order. *)
InOrder(S) ==
    {f \in UNION {[1 .. n -> S] : n \in 0 .. Len(box)} :
        /\ \A i \in S : \E k \in DOMAIN f : f[k] = i
        /\ \A j, k \in DOMAIN f : j < k => f[j] < f[k]}

(* to_wire_format raises in the process of the connection: for one of the      *)
(* responses in the mailbox, none of which is sent then, or for the reason of *)
(* the crash of a request.                                                   *)
ReplyRaises ==
    /\ srv.status = "up" /\ box # <<>>
    /\ \/ /\ Head(box).kind \in {"response", "goAway"}
          /\ \E i \in DOMAIN box : box[i].kind = "response" /\ box[i].odd
       \/ Head(box).kind = "crash" /\ Head(box).request \in srv.refs /\ Head(box).odd
    /\ End("crashed")
    /\ UNCHANGED <<clientVars, callVars, toServer, fromServer, worker, box>>

(* {:response, ...}: handle_response and flush_responses send all that are in  *)
(* the mailbox, the newest first.                                            *)
ServerResponses ==
    LET due == {i \in DOMAIN box : box[i].kind \in {"response", "goAway"}}
        frame(x) == IF x.kind = "goAway" THEN Plain("GoAway", 0)
                    ELSE [x.request EXCEPT !.op = "Response"]
    IN  /\ srv.status = "up" /\ 1 \in due
        /\ \A i \in due : box[i].kind = "response" => ~box[i].odd
        /\ \E f \in InOrder(due), g \in InOrder(DOMAIN box \ due) :
            LET frames == [k \in DOMAIN f |-> frame(box[f[Len(f) + 1 - k]])]
            IN  /\ ServerSend(frames)
                /\ srv' = [srv EXCEPT !.answers = Answered(frames)]
                /\ box' = [k \in DOMAIN g |-> box[g[k]]]
        /\ UNCHANGED <<clientVars, callVars, toServer, link, worker>>

(* Mutant of ServerDown: every reason is an error. *)
ServerDownAlwaysError ==
    /\ srv.status = "up" /\ box # <<>> /\ Head(box).kind \in {"normal", "crash"}
    /\ LET error == [Head(box).request EXCEPT !.op = "Error"]
       IN  /\ ServerSend(<<error>>)
           /\ srv' = [srv EXCEPT !.refs = @ \ {Head(box).request}, !.answers = Answered(<<error>>)]
    /\ box' = Tail(box)
    /\ UNCHANGED <<clientVars, callVars, toServer, link, worker>>

(* {:DOWN, ...}: handle_down *)
ServerDown ==
    /\ srv.status = "up" /\ box # <<>> /\ Head(box).kind \in {"normal", "crash"}
    /\ LET m == Head(box).request
           errors == IF Head(box).kind = "crash" /\ m \in srv.refs
                     THEN <<[m EXCEPT !.op = "Error"]>> ELSE <<>>
       IN  /\ errors # <<>> => ~Head(box).odd
           /\ ServerSend(errors)
           /\ srv' = [srv EXCEPT !.refs = @ \ {m}, !.answers = Answered(errors)]
    /\ box' = Tail(box)
    /\ UNCHANGED <<clientVars, callVars, toServer, link, worker>>

(* Mutant of ServerPing: a pong that has not come is waited for. *)
ServerPingPatient ==
    /\ srv.status = "up" /\ srv.ponged
    /\ srv.seq <= scenario.pings \/ link = "silent"
    /\ ServerSend(<<Plain("Ping", srv.seq)>>)
    /\ srv' = [srv EXCEPT !.ponged = FALSE, !.seq = IF @ >= MaxSequence THEN 2 ELSE @ + 1]
    /\ UNCHANGED <<clientVars, callVars, toServer, link, worker, box>>

(* :send_ping: ping and next_seq *)
ServerPing ==
    /\ srv.status = "up"
    /\ \/ ~srv.ponged /\ GoAway
       \/ /\ srv.ponged
          /\ srv.seq <= scenario.pings \/ link = "silent"
          /\ ServerSend(<<Plain("Ping", IF srv.seq >= MaxSequence THEN 1 ELSE srv.seq)>>)
          /\ srv' = [srv EXCEPT !.ponged = FALSE, !.seq = IF @ >= MaxSequence THEN 2 ELSE @ + 1]
          /\ UNCHANGED link
    /\ UNCHANGED <<clientVars, callVars, toServer, worker, box>>

(* {:tcp_closed, _}, or {:tcp_error, _, reason}: goaway has no clause for the   *)
(* reasons of the socket.                                                    *)
ServerTcpClosed ==
    /\ srv.status = "up"
    /\ \/ /\ link = "broken" \/ (link = "up" /\ status = "stopped" /\ toServer = <<>>)
          /\ End("closed")
       \/ /\ link = "broken"
          /\ End("crashed")
    /\ UNCHANGED <<clientVars, callVars, toServer, fromServer, worker, box>>
-----------------------------------------------------------------------------
(* The workers.  What they send to a process that has ended is lost.       *)

MayBeOdd(kind) ==
    \/ kind = "response" /\ "oddResponse" \in scenario.faults
    \/ kind = "crash" /\ "oddReason" \in scenario.faults

Post(r, kind) ==
    \E odd \in BOOLEAN :
        /\ odd => MayBeOdd(kind)
        /\ box' = IF srv.status # "up" THEN box
                  ELSE Append(box, [kind |-> kind, odd |-> odd,
                                    request |-> CHOOSE m \in srv.refs : m.of = r])

(* loqui_request returns, a response or {:go_away, ...}. *)
WorkerReturns(r) ==
    /\ worker[r] = "running"
    /\ worker' = [worker EXCEPT ![r] = "returned"]
    /\ \E kind \in {"response"} \cup (scenario.faults \cap {"goAway"}) : Post(r, kind)
    /\ UNCHANGED <<clientVars, callVars, netVars, srv>>

(* The process ends: having returned, or of what happened in loqui_request,    *)
(* which may be an exit(:normal).                                            *)
WorkerExits(r) ==
    /\ \/ worker[r] = "returned" /\ Post(r, "normal")
       \/ /\ worker[r] = "running" /\ "error" \in scenario.faults
          /\ \E kind \in {"crash", "normal"} : Post(r, kind)
    /\ worker' = [worker EXCEPT ![r] = "gone"]
    /\ UNCHANGED <<clientVars, callVars, netVars, srv>>

(* The connection breaks, or the network carries nothing any more. *)
LinkFails ==
    /\ link = "up"
    /\ \/ "close" \in scenario.faults /\ link' = "broken"
       \/ "silence" \in scenario.faults /\ link' = "silent"
    /\ UNCHANGED <<clientVars, callVars, toServer, fromServer, serverVars>>
-----------------------------------------------------------------------------
Mailbox == ServerResponses \/ ServerDown \/ ReplyRaises
WorkerStep(r) == WorkerReturns(r) \/ WorkerExits(r)
ServerStep ==
    \/ ServerData \/ Mailbox \/ ServerPing \/ ServerTcpClosed
    \/ \E r \in Requests : WorkerStep(r)

OfClient(A) == A /\ UNCHANGED <<scenario, serverVars>>
OfServer(A) == A /\ UNCHANGED scenario

Next == OfClient(ClientStep) \/ OfServer(ServerStep) \/ OfServer(LinkFails)

Spec == Init /\ [][Next]_vars

(* Each process handles what is in its mailbox, timers fire, and a handler     *)
(* returns or exits.                                                         *)
FairSpec ==
    /\ Spec
    /\ WF_vars(OfClient(Connect)) /\ WF_vars(OfClient(FlushPackets))
    /\ WF_vars(OfClient(PacketStep)) /\ WF_vars(OfClient(TcpClosed))
    /\ WF_vars(OfClient(CloseGoAway)) /\ WF_vars(OfClient(SendPing))
    /\ WF_vars(OfServer(ServerData)) /\ WF_vars(OfServer(Mailbox))
    /\ WF_vars(OfServer(ServerPing)) /\ WF_vars(OfServer(ServerTcpClosed))
    /\ \A r \in Requests : WF_vars(OfServer(WorkerStep(r)))
-----------------------------------------------------------------------------
(* monitor_refs holds the requests whose worker runs or whose :DOWN is still   *)
(* in the mailbox, and no other: a crash finds its request, and the map does  *)
(* not grow.                                                                 *)
RefsAreDue ==
    srv.status = "up" =>
        {m.of : m \in srv.refs} =
            {r \in Requests : \/ worker[r] \in {"running", "returned"}
                              \/ \E i \in DOMAIN box : /\ box[i].request.of = r
                                                       /\ box[i].kind \in {"normal", "crash"}}

(* Both processes keep their books: well typed, callers under their ids in the *)
(* client, requests under their monitors in the server.                      *)
BooksInv == TypeOK /\ ServerTypeOK /\ WaitingIsRegistered /\ RefsAreDue

(* A request is answered at most once, by its response or by the error of its  *)
(* crash, however responses and :DOWN messages are batched in the mailbox.   *)
AnsweredOnce == \A r \in Requests : srv.answers[r] <= 1

(* No clause is missing for what arrives: the client never stops of an         *)
(* unmatched message or a reply to nobody, given payloads its codec can       *)
(* represent.  On a connection that works, the server crashes of a codec only: *)
(* one that decodes what an earlier one has encoded, or one that cannot        *)
(* represent a response or the reason of a crash it has in its mailbox.       *)
OddInMailbox == \E i \in DOMAIN box : box[i].odd

NeverCrashes ==
    /\ why = "crash" => reset \/ "oddPayload" \in scenario.faults
    /\ srv.status = "crashed" =>
         \/ link \in {"broken", "silent"} \/ status = "stopped"
         \/ "recode" \in scenario.faults
         \/ OddInMailbox

(* The server's process does not outlive its client: it ends when the socket   *)
(* closes, and when the client is no longer heard.                           *)
ServerEnds == (status = "stopped" \/ link # "up") ~> srv.status # "up"
=============================================================================
