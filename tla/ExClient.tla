------------------------------- MODULE ExClient -------------------------------
(***************************************************************************)
(* The Elixir client (Loqui.Client): one process with a mailbox, whose     *)
(* callbacks are atomic, between callers that wait for a reply and a       *)
(* socket.  The order in which callbacks run is the order of the mailbox,  *)
(* that is, any order.  When the process stops, its callers exit.  The     *)
(* other end of the socket is in ExServer, which composes the two.         *)
(***************************************************************************)
EXTENDS Naturals, Sequences, FiniteSets

CONSTANTS
    Requests, Pings, Pushes, Closes,    \* the calls of each public function
    None,
    MaxSequence,    \* @max_sequence (2^32 - 1 in the code)
    Scenarios       \* the surroundings a client may have, see Surroundings

ASSUME CallAssumption ==
    /\ None \notin Requests \cup Pings \cup Pushes \cup Closes
    /\ Requests \cap (Pings \cup Pushes \cup Closes) = {}
    /\ Pings \cap (Pushes \cup Closes) = {}
    /\ Pushes \cap Closes = {}
ASSUME BoundAssumption == MaxSequence \in Nat \ {0, 1}

Call == Requests \cup Pings \cup Pushes \cup Closes

(* Which calls there are, what may happen to them, and bounds on the          *)
(* keepalive pings of either side while the connection is not silent.  The    *)
(* odd terms are those for which the encode of the codec agreed on raises.    *)
Surroundings == [calls : SUBSET Call, keepalives : Nat, pings : Nat,
                 faults : SUBSET {"goAway", "error", "close", "silence", "timeout",
                                  "recode", "noCodec", "oddPayload", "oddResponse", "oddReason"}]
ASSUME ScenarioAssumption == Scenarios \subseteq Surroundings

VARIABLES
    scenario,       \* the surroundings; they do not change
    status,         \* of the process: "init", "up" or "stopped"
    why,            \* the reason it stopped for
    sequence,       \* State.sequence
    waiters,        \* State.waiters, by sequence id
    packets,        \* State.packet_buffer, the newest first
    lastPing,       \* the id in State.last_ping, 0 for nil
    pingTimer,      \* a :send_ping is scheduled
    goAwayTimer,    \* a :close_go_away is scheduled
    keepalives,     \* how many keepalive pings were sent
    reset,          \* history: a ping fell between a GoAway and the close
    call,           \* call[c]: "idle", "waiting" or "done"
    result,         \* result[c]: what the call returned
    toServer, fromServer,   \* frames on the socket
    link            \* the connection: "up", "closed" by the server, "broken" or "silent"

clientVars == <<status, why, sequence, waiters, packets, lastPing, pingTimer, goAwayTimer,
                keepalives, reset>>
callVars == <<call, result>>
netVars == <<toServer, fromServer, link>>

Id == 1 .. MaxSequence

(* sequence: :go_away.  In the order of Erlang terms an atom is greater than  *)
(* every number, which is all that next_sequence looks at.                   *)
GoAwaySequence == MaxSequence + 1

Msg == [op : {"Hello", "HelloAck", "Request", "Response", "Error", "Push", "Ping", "Pong", "GoAway"},
        seq : 0 .. MaxSequence, of : Call \cup {None}, early : BOOLEAN]
Frame(op, s, of) == [op |-> op, seq |-> s, of |-> of, early |-> FALSE]
Plain(op, s) == Frame(op, s, None)

(* A payload of the client is encoded when it is handled: before the HelloAck *)
(* has come, with the default codec.                                         *)
Payload(op, s, of) == [Frame(op, s, of) EXCEPT !.early = ~pingTimer]
Outcome(kind, of) == [kind |-> kind, of |-> of]

TypeOK ==
    /\ scenario \in Scenarios
    /\ status \in {"init", "up", "stopped"}
    /\ why \in {"none", "normal", "connect", "tcp_closed", "went_away", "pong_not_received", "crash"}
    /\ sequence \in 1 .. GoAwaySequence
    /\ waiters \in [Id -> Call \cup {None}]
    /\ packets \in Seq(Msg)
    /\ lastPing \in 0 .. MaxSequence
    /\ {pingTimer, goAwayTimer} \subseteq BOOLEAN
    /\ keepalives \in 0 .. scenario.keepalives + 1 /\ reset \in BOOLEAN
    /\ call \in [Call -> {"idle", "waiting", "done"}]
    /\ result \in [Call -> [kind : {"none", "ok", "pong", "closed", "sent", "went_away", "exit",
                                    "timeout"},
                            of : Call \cup {None}]]
    /\ toServer \in Seq(Msg)
    /\ fromServer \in Seq(Msg)
    /\ link \in {"up", "closed", "broken", "silent"}

ClientInit ==
    /\ scenario \in Scenarios
    /\ status = "init" /\ why = "none"
    /\ sequence = 1
    /\ waiters = [s \in Id |-> None]
    /\ packets = <<>>
    /\ lastPing = 0
    /\ pingTimer = FALSE /\ goAwayTimer = FALSE
    /\ keepalives = 0 /\ reset = FALSE
    /\ call = [c \in Call |-> "idle"]
    /\ result = [c \in Call |-> Outcome("none", None)]
    /\ toServer = <<>>
    /\ fromServer = <<>>
    /\ link = "up"
-----------------------------------------------------------------------------
(* Helpers.                                                                *)

(* Mutant of NextId: the sequence is not counted on. *)
NextIdStuck == 1

(* next_sequence: the id, and the sequence it leaves. *)
NextId == IF sequence >= MaxSequence THEN 1 ELSE sequence
AfterNextId == IF sequence >= MaxSequence THEN 2 ELSE sequence + 1

(* The caller has sent its message. *)
Called(c) == c \in scenario.calls /\ call[c] = "idle"

(* :gen_tcp.send, whose result nobody looks at. *)
Send(ms) == toServer' = IF link = "up" THEN toServer \o ms ELSE toServer

(* Connection.reply: only a caller that still waits notices. *)
Reply(c, outcome) ==
    /\ call' = IF call[c] = "waiting" THEN [call EXCEPT ![c] = "done"] ELSE call
    /\ result' = IF call[c] = "waiting" THEN [result EXCEPT ![c] = outcome] ELSE result

(* The process stops: whoever waits for a reply exits, unless it is in        *)
(* `replied', which got its reply first.                                     *)
Stop(reason, replied, outcome) ==
    LET waiting == {c \in Call : call[c] = "waiting"} \cup replied
    IN  /\ status' = "stopped"
        /\ why' = reason
        /\ call' = [c \in Call |-> IF c \in waiting THEN "done" ELSE call[c]]
        /\ result' = [c \in Call |-> IF c \in replied THEN outcome
                                     ELSE IF c \in waiting THEN Outcome("exit", None)
                                     ELSE result[c]]
-----------------------------------------------------------------------------
(* connect: the socket, the upgrade and the Hello; any of them may fail. *)
Connect ==
    /\ status = "init"
    /\ \/ /\ status' = "up"
          /\ Send(<<Plain("Hello", 0)>>)
          /\ UNCHANGED <<why, callVars>>
       \/ /\ "close" \in scenario.faults
          /\ Stop("connect", {}, Outcome("none", None))
          /\ UNCHANGED toServer
    /\ UNCHANGED <<sequence, waiters, packets, lastPing, pingTimer, goAwayTimer, keepalives, reset,
                   fromServer, link>>
-----------------------------------------------------------------------------
(* handle_call and handle_cast.                                            *)

HandlePingCall(p) ==
    /\ status = "up" /\ p \in Pings /\ Called(p)
    /\ sequence' = AfterNextId
    /\ reset' = (reset \/ sequence = GoAwaySequence)
    /\ waiters' = [waiters EXCEPT ![NextId] = p]
    /\ call' = [call EXCEPT ![p] = "waiting"]
    /\ Send(<<Plain("Ping", NextId)>>)
    /\ UNCHANGED <<status, why, packets, lastPing, pingTimer, goAwayTimer, keepalives, result,
                   fromServer, link>>

(* A call other than ping, once the server went away. *)
HandleCallGoneAway(c) ==
    /\ status = "up" /\ c \in Requests \cup Closes /\ Called(c)
    /\ sequence = GoAwaySequence
    /\ call' = [call EXCEPT ![c] = "done"]
    /\ result' = [result EXCEPT ![c] = Outcome("went_away", None)]
    /\ UNCHANGED <<clientVars, netVars>>

(* :close, with the disconnect that follows. *)
HandleClose(c) ==
    /\ status = "up" /\ c \in Closes /\ Called(c)
    /\ sequence # GoAwaySequence
    /\ Stop("normal", {c}, Outcome("closed", None))
    /\ UNCHANGED <<sequence, waiters, packets, lastPing, pingTimer, goAwayTimer, keepalives, reset,
                   netVars>>

HandleRequest(r) ==
    /\ status = "up" /\ r \in Requests /\ Called(r)
    /\ sequence # GoAwaySequence
    /\ sequence' = AfterNextId
    /\ packets' = <<Payload("Request", NextId, r)>> \o packets
    /\ waiters' = [waiters EXCEPT ![NextId] = r]
    /\ call' = [call EXCEPT ![r] = "waiting"]
    /\ UNCHANGED <<status, why, lastPing, pingTimer, goAwayTimer, keepalives, reset, result, netVars>>

HandlePush(p) ==
    /\ status = "up" /\ p \in Pushes /\ Called(p)
    /\ packets' = IF sequence = GoAwaySequence THEN packets
                  ELSE <<Payload("Push", 0, p)>> \o packets
    /\ call' = [call EXCEPT ![p] = "done"]
    /\ result' = [result EXCEPT ![p] = Outcome("sent", None)]
    /\ UNCHANGED <<status, why, sequence, waiters, lastPing, pingTimer, goAwayTimer,
                   keepalives, reset, netVars>>

(* codec.encode raises in the process: the payload of c has no representation. *)
CallRaises(c) ==
    /\ status = "up" /\ c \in Requests \cup Pushes /\ Called(c)
    /\ sequence # GoAwaySequence
    /\ "oddPayload" \in scenario.faults
    /\ Stop("crash", {c}, Outcome(IF c \in Pushes THEN "sent" ELSE "exit", None))
    /\ UNCHANGED <<sequence, waiters, packets, lastPing, pingTimer, goAwayTimer, keepalives, reset,
                   netVars>>

(* Mutant of TimeOut: a caller that gives up is taken out of waiters. *)
TimeOutForgets(c) ==
    /\ "timeout" \in scenario.faults
    /\ call[c] = "waiting"
    /\ call' = [call EXCEPT ![c] = "done"]
    /\ result' = [result EXCEPT ![c] = Outcome("timeout", None)]
    /\ waiters' = [s \in Id |-> IF waiters[s] = c THEN None ELSE waiters[s]]
    /\ UNCHANGED <<status, why, sequence, packets, lastPing, pingTimer, goAwayTimer, keepalives, reset,
                   netVars>>

(* A caller's own timeout, or one that finds no process. *)
TimeOut(c) ==
    /\ "timeout" \in scenario.faults
    /\ call[c] = "waiting"
    /\ call' = [call EXCEPT ![c] = "done"]
    /\ result' = [result EXCEPT ![c] = Outcome("timeout", None)]
    /\ UNCHANGED <<clientVars, netVars>>

CallStopped(c) ==
    /\ status = "stopped" /\ Called(c)
    /\ call' = [call EXCEPT ![c] = "done"]
    /\ result' = [result EXCEPT ![c] = Outcome(IF c \in Pushes THEN "sent" ELSE "exit", None)]
    /\ UNCHANGED <<clientVars, netVars>>
-----------------------------------------------------------------------------
(* handle_info: the mailbox.                                               *)

(* :flush_packets, one of which follows every packet that is buffered. *)
FlushPackets ==
    /\ status = "up" /\ packets # <<>>
    /\ Send(packets)
    /\ packets' = <<>>
    /\ UNCHANGED <<status, why, sequence, waiters, lastPing, pingTimer, goAwayTimer,
                   keepalives, reset, callVars, fromServer, link>>

TcpClosed ==
    /\ status = "up" /\ link \in {"closed", "broken"} /\ fromServer = <<>>
    /\ Stop("tcp_closed", {}, Outcome("none", None))
    /\ UNCHANGED <<sequence, waiters, packets, lastPing, pingTimer, goAwayTimer, keepalives, reset,
                   netVars>>

Registered == {waiters[s] : s \in Id} \ {None}

(* Mutant of CloseGoAway: the waiters are not told. *)
CloseGoAwaySilently ==
    /\ status = "up" /\ goAwayTimer
    /\ goAwayTimer' = FALSE
    /\ Stop("went_away", {}, Outcome("none", None))
    /\ UNCHANGED <<sequence, waiters, packets, lastPing, pingTimer, keepalives, reset, netVars>>

(* :close_go_away.  Its only clause wants the sequence to be :go_away.       *)
CloseGoAway ==
    /\ status = "up" /\ goAwayTimer
    /\ goAwayTimer' = FALSE
    /\ IF sequence = GoAwaySequence
       THEN /\ Stop("went_away", {c \in Registered : call[c] = "waiting"},
                    Outcome("went_away", None))
            /\ waiters' = [s \in Id |-> None]
       ELSE Stop("crash", {}, Outcome("none", None)) /\ UNCHANGED waiters
    /\ UNCHANGED <<sequence, packets, lastPing, pingTimer, keepalives, reset, netVars>>

(* The bound on keepalive pings; one more meets a silent network. *)
MaySendPing ==
    keepalives < scenario.keepalives \/ (link = "silent" /\ keepalives = scenario.keepalives)

(* Mutant of SendPing: a ping that is not answered is waited for. *)
SendPingPatient ==
    /\ status = "up" /\ pingTimer /\ lastPing = 0
    /\ MaySendPing
    /\ sequence' = AfterNextId
    /\ lastPing' = NextId
    /\ reset' = (reset \/ sequence = GoAwaySequence)
    /\ keepalives' = keepalives + 1
    /\ Send(<<Plain("Ping", NextId)>>)
    /\ UNCHANGED <<status, why, waiters, packets, pingTimer, goAwayTimer, callVars, fromServer,
                   link>>

(* :send_ping. *)
SendPing ==
    /\ status = "up" /\ pingTimer
    /\ \/ /\ lastPing = 0
          /\ MaySendPing
          /\ sequence' = AfterNextId
          /\ lastPing' = NextId
          /\ reset' = (reset \/ sequence = GoAwaySequence)
          /\ keepalives' = keepalives + 1
          /\ Send(<<Plain("Ping", NextId)>>)
          /\ UNCHANGED <<status, why, callVars>>
       \/ /\ lastPing # 0
          /\ Stop("pong_not_received", {}, Outcome("none", None))
          /\ UNCHANGED <<sequence, lastPing, keepalives, reset, toServer>>
    /\ UNCHANGED <<waiters, packets, pingTimer, goAwayTimer, fromServer, link>>
-----------------------------------------------------------------------------
(* handle_packet.                                                          *)

Take(op) ==
    /\ status = "up"
    /\ fromServer # <<>>
    /\ Head(fromServer).op = op
    /\ fromServer' = Tail(fromServer)
    /\ UNCHANGED link

HandlePing ==
    /\ Take("Ping")
    /\ Send(<<Plain("Pong", Head(fromServer).seq)>>)
    /\ UNCHANGED <<clientVars, callVars>>

(* The pong of the keepalive, of a caller's ping, or of one of those while a  *)
(* keepalive is out: that one is an unknown packet.                          *)
HandlePong ==
    LET s == Head(fromServer).seq
    IN  /\ Take("Pong")
        /\ \/ /\ lastPing = s
              /\ lastPing' = 0
              /\ UNCHANGED <<waiters, callVars>>
           \/ /\ lastPing = 0
              /\ waiters' = [waiters EXCEPT ![s] = None]
              /\ IF waiters[s] = None THEN UNCHANGED callVars
                 ELSE Reply(waiters[s], Outcome("pong", None))
              /\ UNCHANGED lastPing
           \/ /\ lastPing \notin {0, s}
              /\ UNCHANGED <<waiters, lastPing, callVars>>
        /\ UNCHANGED <<status, why, sequence, packets, pingTimer, goAwayTimer, keepalives, reset,
                       toServer>>

HandleHelloAck ==
    /\ Take("HelloAck")
    /\ pingTimer' = TRUE
    /\ UNCHANGED <<status, why, sequence, waiters, packets, lastPing, goAwayTimer, keepalives, reset,
                   callVars, toServer>>

(* Mutant of HandleResponse: responses are taken to come in the order of the   *)
(* requests.                                                                 *)
HandleResponseInOrder ==
    LET waiting == {s \in Id : waiters[s] # None}
        first == CHOOSE s \in waiting : \A t \in waiting : s <= t
    IN  /\ Take("Response")
        /\ waiting # {}
        /\ Reply(waiters[first], Outcome("ok", Head(fromServer).of))
        /\ waiters' = [waiters EXCEPT ![first] = None]
        /\ UNCHANGED <<status, why, sequence, packets, lastPing, pingTimer, goAwayTimer, keepalives, reset,
                       toServer>>

(* A response whose id nobody waits for is a reply to nil, which raises. *)
HandleResponse ==
    LET s == Head(fromServer).seq
    IN  /\ Take("Response")
        /\ IF waiters[s] = None
           THEN Stop("crash", {}, Outcome("none", None)) /\ UNCHANGED waiters
           ELSE /\ Reply(waiters[s], Outcome("ok", Head(fromServer).of))
                /\ waiters' = [waiters EXCEPT ![s] = None]
                /\ UNCHANGED <<status, why>>
        /\ UNCHANGED <<sequence, packets, lastPing, pingTimer, goAwayTimer, keepalives, reset,
                       toServer>>

HandleGoAway ==
    /\ Take("GoAway")
    /\ goAwayTimer' = TRUE
    /\ sequence' = GoAwaySequence
    /\ UNCHANGED <<status, why, waiters, packets, lastPing, pingTimer, keepalives, reset, callVars,
                   toServer>>

(* An Error is an unknown packet: it is logged. *)
HandleUnknown ==
    /\ Take("Error")
    /\ UNCHANGED <<clientVars, callVars, toServer>>
-----------------------------------------------------------------------------
CallStep(c) ==
    \/ HandlePingCall(c) \/ HandleCallGoneAway(c) \/ HandleClose(c) \/ HandleRequest(c)
    \/ CallRaises(c)
    \/ HandlePush(c) \/ CallStopped(c) \/ TimeOut(c)

PacketStep ==
    \/ HandlePing \/ HandlePong \/ HandleHelloAck \/ HandleResponse \/ HandleGoAway \/ HandleUnknown

ClientStep ==
    \/ Connect
    \/ \E c \in Call : CallStep(c)
    \/ FlushPackets \/ TcpClosed \/ CloseGoAway \/ SendPing \/ PacketStep

-----------------------------------------------------------------------------
(* What request returns is the answer to that request, and what ping returns  *)
(* is no answer to a request: ids, waiters and frames never mix calls up.    *)
AnswerIsOwn ==
    reset
    \/ /\ \A r \in Requests : result[r].kind = "ok" => result[r].of = r
       /\ \A c \in Call \ Requests : result[c].kind # "ok"

(* A caller that waits is under one id of waiters, so that it can be replied  *)
(* to, and under no second one.                                              *)
WaitingIsRegistered ==
    (status = "up" /\ ~reset) =>
        \A c \in Call : call[c] = "waiting" => Cardinality({s \in Id : waiters[s] = c}) = 1

Waits(c) == call[c] = "waiting"

(* Once the server has said GoAway, a caller that waits is answered, or told  *)
(* that the remote end went away; it does not exit.                          *)
WaitersAreTold ==
    \A c \in Requests : (goAwayTimer /\ Waits(c)) ~> result[c].kind \in {"ok", "went_away"}

(* WaitersAreTold where no ping falls between the GoAway and the close, and   *)
(* the server does not close at once, as its own goaway does.                *)
QuietWaitersAreTold ==
    \A c \in Requests :
        (goAwayTimer /\ Waits(c))
            ~> (result[c].kind \in {"ok", "went_away"} \/ reset \/ link # "up")

(* After the HelloAck, no request waits for ever, even when the server falls   *)
(* silent: the keepalive ping that is not answered stops the process.  (A     *)
(* request that the server answers with an Error does.)                       *)
SilenceIsNoticed ==
    \A c \in Requests : ("error" \notin scenario.faults /\ pingTimer /\ Waits(c)) ~> ~Waits(c)
=============================================================================
