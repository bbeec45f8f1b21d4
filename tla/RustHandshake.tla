---------------------------- MODULE RustHandshake ----------------------------
(***************************************************************************)
(* How a Rust connection comes up, until both ends run the event loop of   *)
(* RustConnection: TCP connect and accept, the HTTP upgrade, Hello and     *)
(* HelloAck, the handshake deadlines of both ends, and the client's ready  *)
(* task, through which Client::await_ready, is_ready and encoding learn of *)
(* the outcome.  The connection task of each end, the ready task and the   *)
(* callers run concurrently.                                               *)
(***************************************************************************)
EXTENDS Naturals, Sequences

CONSTANTS
    Enc,            \* names of encodings
    None,           \* no encoding
    Configs,        \* the supported_encodings the two ends may be configured with
    Caller,         \* tasks that call Client::await_ready
    ReadyCap,       \* READY_CHAN_BUFFER_SIZE (100 000 in the code)
    PingIntervals,  \* the ping intervals a server may be configured with
    UnitsPerMs,     \* the unit of PingIntervals
    MsModulus       \* milliseconds are sent modulo this (2^32 in the code)

ASSUME NoneAssumption == None \notin Enc
ASSUME SizeAssumption ==
    /\ ReadyCap \in Nat
    /\ PingIntervals \subseteq Nat \ {0}
    /\ UnitsPerMs \in Nat \ {0}
    /\ MsModulus \in Nat \ {0}

VARIABLES
    encodings,      \* encodings[s]: supported_encodings of s's Config
    ping_interval,  \* ping_interval of the server's Config
    foreign,        \* the end that is not a Rust one and greets as it likes, or "none"
    task,           \* task[s]: how far s's connection task has come
    wire,           \* wire[s]: the frames on the socket towards s
    lost,           \* history: frames thrown away with an upgrade's read buffer
    deadline,       \* deadline[s]: s's handshake_deadline is past
    settings,       \* settings[s]: the encoding of s's Ready, or None
    ready_tx,       \* the client's ready channel: "open", "sent" or "dropped"
    readyTask,      \* how far the task spawned by start_connect has come
    encoding,       \* Client.encoding
    ready,          \* Client.ready
    waiterQueue,    \* the callers whose senders the ready task holds
    parked,         \* the callers whose send waits for room in the queue
    told,           \* told[k]: the oneshot channel of caller k
    caller,         \* caller[k]: how far its await_ready has come
    reader          \* a call of Client::encoding, and what it returned

taskVars == <<task, wire, lost, settings>>
configVars == <<encodings, ping_interval, foreign>>
readyVars == <<readyTask, encoding, ready>>
awaitVars == <<waiterQueue, parked, told, caller>>
vars == <<configVars, taskVars, deadline, ready_tx, readyVars, awaitVars, reader>>

Side == {"client", "server"}
Peer(s) == IF s = "client" THEN "server" ELSE "client"
ASSUME ConfigAssumption == Configs \subseteq [Side -> Seq(Enc)]
Msg == [op : {"UpgradeRequest", "UpgradeResponse", "Hello", "HelloAck", "GoAway", "Other"},
        encoding : Enc \cup {None}, ms : 0 .. MsModulus - 1]
Frame(op) == [op |-> op, encoding |-> None, ms |-> 0]
Returned == {"ok", "TimedOut", "ConnectionClosed"}

TypeOK ==
    /\ encodings \in Configs
    /\ ping_interval \in PingIntervals
    /\ foreign \in Side \cup {"none"}
    /\ task \in [Side -> {"idle", "upgrading", "greeting", "running", "closed"}]
    /\ wire \in [Side -> Seq(Msg)]
    /\ lost \in Nat
    /\ deadline \in [Side -> BOOLEAN]
    /\ settings \in [Side -> Enc \cup {None}]
    /\ ready_tx \in {"open", "sent", "dropped"}
    /\ readyTask \in {"waiting", "storing", "serving", "gone"}
    /\ encoding \in Enc \cup {None}
    /\ ready \in BOOLEAN
    /\ waiterQueue \in Seq(Caller)
    /\ parked \in Seq(Caller)
    /\ told \in [Caller -> {"open", "sent", "dropped"}]
    /\ caller \in [Caller -> {"idle", "flushing", "waiting"} \cup Returned]
    /\ reader \in {"idle", "sawReady", "NotReady", "NoClientEncoding", "ok"}

Init ==
    /\ encodings \in Configs
    /\ ping_interval \in PingIntervals
    /\ foreign \in Side \cup {"none"}
    /\ task = [s \in Side |-> "idle"]
    /\ wire = [s \in Side |-> <<>>]
    /\ lost = 0
    /\ deadline = [s \in Side |-> FALSE]
    /\ settings = [s \in Side |-> None]
    /\ ready_tx = "open"
    /\ readyTask = "waiting"
    /\ encoding = None
    /\ ready = FALSE
    /\ waiterQueue = <<>>
    /\ parked = <<>>
    /\ told = [k \in Caller |-> "open"]
    /\ caller = [k \in Caller |-> "idle"]
    /\ reader = "idle"
-----------------------------------------------------------------------------
(* Helpers.                                                                *)

(* Mutant of TimeoutAt: the future is awaited without a deadline. *)
TimeoutAtNever(s) == FALSE

(* timeout_at: its future is polled first, the timer only if that is pending. *)
TimeoutAt(s) == deadline[s]

(* Mutant of NegotiateEncoding: the server's preference decides. *)
NegotiateEncodingByServer ==
    LET In(s, e) == \E i \in DOMAIN encodings[s] : encodings[s][i] = e
        common == {i \in DOMAIN encodings["server"] : In("client", encodings["server"][i])}
    IN  IF common = {} THEN None
        ELSE encodings["server"][CHOOSE i \in common : \A j \in common : i <= j]

(* find_encoding, and the first of the client's encodings it finds. *)
Supports(s, e) == \E i \in DOMAIN encodings[s] : encodings[s][i] = e

NegotiateEncoding ==
    LET common == {i \in DOMAIN encodings["client"] : Supports("server", encodings["client"][i])}
    IN  IF common = {} THEN None
        ELSE encodings["client"][CHOOSE i \in common : \A j \in common : i <= j]

(* The connection task of s returns.  The client drops its ready channel. *)
TaskEnds(s) ==
    /\ task' = [task EXCEPT ![s] = "closed"]
    /\ ready_tx' = IF s = "client" /\ ready_tx = "open" THEN "dropped" ELSE ready_tx

Handshaking(s) == task[s] \in {"upgrading", "greeting"}

(* The upgrade frame op is taken with whatever else came in by then: when    *)
(* into_inner gives the socket back, the rest of the read buffer is dropped. *)
Upgraded(s, op, answer) ==
    /\ task[s] = "upgrading"
    /\ wire[s] # <<>>
    /\ Head(wire[s]).op = op
    /\ \E n \in 1 .. Len(wire[s]) :
        /\ lost' = lost + n - 1
        /\ wire' = [wire EXCEPT ![s] = SubSeq(@, n + 1, Len(@)),
                                ![Peer(s)] = Append(@, answer)]
    /\ task' = [task EXCEPT ![s] = "greeting"]

Greeted(s, op) ==
    /\ task[s] = "greeting"
    /\ wire[s] # <<>>
    /\ Head(wire[s]).op = op
-----------------------------------------------------------------------------
(* The connection tasks.                                                   *)

(* spawn_from_address has connected; upgrade sends its request. *)
Connect ==
    /\ task["client"] = "idle"
    /\ task' = [task EXCEPT !["client"] = "upgrading"]
    /\ wire' = [wire EXCEPT !["server"] = <<Frame("UpgradeRequest")>>]
    /\ UNCHANGED <<configVars, lost, settings, deadline, ready_tx, readyVars, awaitVars, reader>>

(* The connect is refused, or its deadline passes. *)
ConnectFails ==
    /\ task["client"] = "idle"
    /\ TaskEnds("client")
    /\ UNCHANGED <<configVars, wire, lost, settings, deadline, readyVars, awaitVars, reader>>

(* listen_and_serve accepts the connection and spawns its task. *)
Accept ==
    /\ task["server"] = "idle"
    /\ task["client"] # "idle"
    /\ task' = [task EXCEPT !["server"] = "upgrading"]
    /\ UNCHANGED <<configVars, wire, lost, settings, deadline, ready_tx, readyVars, awaitVars, reader>>

ServerUpgrade ==
    /\ Upgraded("server", "UpgradeRequest", Frame("UpgradeResponse"))
    /\ UNCHANGED <<configVars, settings, deadline, ready_tx, readyVars, awaitVars, reader>>

(* A foreign client may go on with a Hello of another VERSION, or with some    *)
(* other frame.                                                              *)
ClientUpgrade ==
    /\ \E op \in {"Hello"} \cup (IF foreign = "client" THEN {"Other"} ELSE {}) :
        Upgraded("client", "UpgradeResponse", Frame(op))
    /\ UNCHANGED <<configVars, settings, deadline, ready_tx, readyVars, awaitVars, reader>>

(* ping_interval.as_millis() as u32. *)
IntervalMs == (ping_interval \div UnitsPerMs) % MsModulus

(* The server's handshake: what is not a Hello of its version, or has no       *)
(* encoding in common, is told to go away.                                   *)
ServerHandshake ==
    /\ foreign # "server"
    /\ Greeted("server", "Hello") \/ Greeted("server", "Other")
    /\ LET e == IF Head(wire["server"]).op = "Hello" THEN NegotiateEncoding ELSE None
           answer == IF e = None THEN Frame("GoAway")
                     ELSE [op |-> "HelloAck", encoding |-> e, ms |-> IntervalMs]
       IN  /\ wire' = [wire EXCEPT !["server"] = Tail(@), !["client"] = Append(@, answer)]
           /\ settings' = [settings EXCEPT !["server"] = e]
           /\ task' = [task EXCEPT !["server"] = IF e = None THEN "closed" ELSE "running"]
    /\ UNCHANGED <<configVars, lost, deadline, ready_tx, readyVars, awaitVars, reader>>

(* A foreign server uses any encoding, or says something else. *)
ForeignHandshake ==
    /\ foreign = "server"
    /\ Greeted("server", "Hello")
    /\ \E m \in {[op |-> "HelloAck", encoding |-> e, ms |-> IntervalMs] : e \in Enc}
                \cup {Frame("Other")} :
        /\ wire' = [wire EXCEPT !["server"] = Tail(@), !["client"] = Append(@, m)]
        /\ settings' = [settings EXCEPT !["server"] = m.encoding]
    /\ task' = [task EXCEPT !["server"] = "running"]
    /\ UNCHANGED <<configVars, lost, deadline, ready_tx, readyVars, awaitVars, reader>>

(* The client's handshake and the end of negotiate.  An encoding that the    *)
(* client did not offer ends the connection, and so does a ready task that   *)
(* has stopped listening (ReadySendFailed).  A ping interval of zero panics  *)
(* in tokio's interval, after the ready signal is sent.                      *)
ClientHandshake ==
    /\ Greeted("client", "HelloAck")
    /\ LET ack == Head(wire["client"])
       IN  IF Supports("client", ack.encoding) /\ readyTask # "gone"
           THEN /\ settings' = [settings EXCEPT !["client"] = ack.encoding]
                /\ ready_tx' = "sent"
                /\ task' = [task EXCEPT !["client"] = IF ack.ms = 0 THEN "closed" ELSE "running"]
           ELSE TaskEnds("client") /\ UNCHANGED settings
    /\ wire' = [wire EXCEPT !["client"] = Tail(@)]
    /\ UNCHANGED <<configVars, lost, deadline, readyVars, awaitVars, reader>>

(* ToldToGoAway, or InvalidOpcode *)
ClientRefused ==
    /\ Greeted("client", "GoAway") \/ Greeted("client", "Other")
    /\ wire' = [wire EXCEPT !["client"] = Tail(@)]
    /\ TaskEnds("client")
    /\ UNCHANGED <<configVars, lost, settings, deadline, readyVars, awaitVars, reader>>

(* The socket ends during the handshake. *)
PeerGone(s) ==
    /\ Handshaking(s)
    /\ wire[s] = <<>>
    /\ task[Peer(s)] = "closed"
    /\ TaskEnds(s)
    /\ UNCHANGED <<configVars, wire, lost, settings, deadline, readyVars, awaitVars, reader>>

(* timeout_at drops negotiate, and the socket with it. *)
NegotiateTimeout(s) ==
    /\ Handshaking(s)
    /\ TimeoutAt(s)
    /\ TaskEnds(s)
    /\ UNCHANGED <<configVars, wire, lost, settings, deadline, readyVars, awaitVars, reader>>

(* A socket error, or the end of the event loop of a connection that ran. *)
ConnectionEnds(s) ==
    /\ Handshaking(s) \/ task[s] = "running"
    /\ TaskEnds(s)
    /\ UNCHANGED <<configVars, wire, lost, settings, deadline, readyVars, awaitVars, reader>>

DeadlinePasses(s) ==
    /\ ~deadline[s]
    /\ task[s] # "idle" \/ s = "client"
    /\ deadline' = [deadline EXCEPT ![s] = TRUE]
    /\ UNCHANGED <<configVars, taskVars, ready_tx, readyVars, awaitVars, reader>>
-----------------------------------------------------------------------------
(* The ready task of the client.                                           *)

(* Mutant of WriteEncoding: the flag is stored before the encoding. *)
StoreReadyFirst ==
    /\ readyTask = "waiting"
    /\ ready_tx = "sent"
    /\ ready' = TRUE
    /\ readyTask' = "storing"
    /\ UNCHANGED <<configVars, taskVars, deadline, ready_tx, encoding, awaitVars, reader>>

(* The signal arrives: the encoding is written ... *)
WriteEncoding ==
    /\ readyTask = "waiting"
    /\ ready_tx = "sent"
    /\ encoding' = settings["client"]
    /\ readyTask' = "storing"
    /\ UNCHANGED <<configVars, taskVars, deadline, ready_tx, ready, awaitVars, reader>>

(* ... and then the flag that says so. *)
StoreReady ==
    /\ readyTask = "storing"
    /\ ready' = TRUE
    /\ readyTask' = "serving"
    /\ UNCHANGED <<configVars, taskVars, deadline, ready_tx, encoding, awaitVars, reader>>

(* No signal will come, or none has come in time: the queue is dropped with  *)
(* the senders that are in it.                                               *)
ReadyTaskFails ==
    /\ readyTask = "waiting"
    /\ ready_tx = "dropped" \/ (ready_tx = "open" /\ TimeoutAt("client"))
    /\ readyTask' = "gone"
    /\ waiterQueue' = <<>>
    /\ parked' = <<>>
    /\ told' = [k \in Caller |-> IF \E i \in DOMAIN waiterQueue : waiterQueue[i] = k
                                 THEN "dropped" ELSE told[k]]
    /\ UNCHANGED <<configVars, taskVars, deadline, ready_tx, encoding, ready, caller, reader>>

(* The next waiter is told; a sender that was parked may go on. *)
ServeWaiter ==
    /\ readyTask = "serving"
    /\ waiterQueue # <<>>
    /\ told' = [told EXCEPT ![Head(waiterQueue)] = "sent"]
    /\ waiterQueue' = Tail(waiterQueue)
    /\ parked' = IF parked = <<>> THEN parked ELSE Tail(parked)
    /\ UNCHANGED <<configVars, taskVars, deadline, ready_tx, readyVars, caller, reader>>
-----------------------------------------------------------------------------
(* The callers: Client::await_ready and Client::encoding.                  *)

Return(k, outcome) ==
    /\ caller' = [caller EXCEPT ![k] = outcome]
    /\ UNCHANGED <<configVars, taskVars, deadline, ready_tx, readyVars, waiterQueue, parked, told, reader>>

(* The sender is queued at once; beyond the capacity the send then waits. *)
AwaitReady(k) ==
    /\ caller[k] = "idle"
    /\ IF readyTask = "gone"
       THEN /\ caller' = [caller EXCEPT ![k] = "ConnectionClosed"]
            /\ UNCHANGED <<waiterQueue, parked>>
       ELSE /\ waiterQueue' = Append(waiterQueue, k)
            /\ IF Len(waiterQueue) + 1 > ReadyCap
               THEN parked' = Append(parked, k) /\ caller' = [caller EXCEPT ![k] = "flushing"]
               ELSE UNCHANGED parked /\ caller' = [caller EXCEPT ![k] = "waiting"]
    /\ UNCHANGED <<configVars, taskVars, deadline, ready_tx, readyVars, told, reader>>

Parked(k) == \E i \in DOMAIN parked : parked[i] = k

Flushed(k) == caller[k] = "flushing" /\ ~Parked(k) /\ Return(k, "waiting")

Told(k) ==
    /\ caller[k] = "waiting"
    /\ \/ told[k] = "sent" /\ Return(k, "ok")
       \/ told[k] = "dropped" /\ Return(k, "ConnectionClosed")

AwaitTimeout(k) ==
    /\ TimeoutAt("client")
    /\ \/ caller[k] = "flushing" /\ Parked(k)
       \/ caller[k] = "waiting" /\ told[k] = "open"
    /\ Return(k, "TimedOut")

(* Client::encoding loads the flag and then reads the cell. *)
ReadFlag ==
    /\ reader # "sawReady"
    /\ reader' = IF ready THEN "sawReady" ELSE "NotReady"
    /\ UNCHANGED <<configVars, taskVars, deadline, ready_tx, readyVars, awaitVars>>

ReadEncoding ==
    /\ reader = "sawReady"
    /\ reader' = IF encoding = None THEN "NoClientEncoding" ELSE "ok"
    /\ UNCHANGED <<configVars, taskVars, deadline, ready_tx, readyVars, awaitVars>>
-----------------------------------------------------------------------------
ReadyTask == WriteEncoding \/ StoreReady \/ ReadyTaskFails \/ ServeWaiter
Await(k) == Flushed(k) \/ Told(k) \/ AwaitTimeout(k)
ClientTask == ClientUpgrade \/ ClientHandshake \/ ClientRefused
ServerTask == ServerUpgrade \/ ServerHandshake \/ ForeignHandshake

Next ==
    \/ Connect \/ ConnectFails \/ Accept \/ ClientTask \/ ServerTask
    \/ \E s \in Side : PeerGone(s) \/ NegotiateTimeout(s) \/ ConnectionEnds(s) \/ DeadlinePasses(s)
    \/ ReadyTask
    \/ \E k \in Caller : AwaitReady(k) \/ Await(k)
    \/ ReadFlag \/ ReadEncoding

Spec == Init /\ [][Next]_vars

(* Tasks that can move are polled, and time passes.  The server is not       *)
(* obliged to accept, and no caller to call.                                 *)
Fairness ==
    /\ WF_vars(Connect \/ ConnectFails)
    /\ WF_vars(ClientTask \/ PeerGone("client") \/ NegotiateTimeout("client"))
    /\ WF_vars(ServerTask \/ PeerGone("server") \/ NegotiateTimeout("server"))
    /\ WF_vars(ReadyTask)
    /\ \A k \in Caller : WF_vars(Await(k))
    /\ \A s \in Side : WF_vars(DeadlinePasses(s))

FairSpec == Spec /\ Fairness
-----------------------------------------------------------------------------
(* Properties.                                                             *)

(* negotiate_encoding, handle_handshake_hello_ack: the client never runs with  *)
(* another encoding than the server, or with one that it does not support,    *)
(* whoever the server is; and between Rust ends it is the first of the        *)
(* client's encodings that the server supports.                              *)
EncodingAgreed ==
    /\ settings["client"] # None =>
        settings["client"] = settings["server"] /\ Supports("client", settings["client"])
    /\ (settings["server"] # None /\ foreign # "server") =>
        \E i \in DOMAIN encodings["client"] :
            /\ encodings["client"][i] = settings["server"]
            /\ Supports("server", settings["server"])
            /\ \A j \in 1 .. i - 1 : ~Supports("server", encodings["client"][j])

(* into_inner drops an upgrade's read buffer: neither end may have sent      *)
(* anything behind its upgrade frame by then.                                *)
NothingLostAtUpgrade == lost = 0

(* A client that runs has a ready task that knows it or will know: it can    *)
(* not serve requests that `NotReady` keeps out for ever.                    *)
RunningIsHeard == task["client"] = "running" => ready_tx = "sent" /\ readyTask # "gone"

(* Client::encoding never sees the flag without the encoding, and what the   *)
(* cell holds is what was negotiated; nobody is told ready who is not.       *)
ReadyMeansEncoding ==
    /\ reader # "NoClientEncoding"
    /\ ready => encoding = settings["client"] /\ encoding # None
    /\ \A k \in Caller : caller[k] = "ok" => ready

(* A handshake loses nothing and tells nobody what is not so: the three facts  *)
(* above, in a state that is well typed (the interval fits its width).        *)
HandshakeInv == TypeOK /\ NothingLostAtUpgrade /\ RunningIsHeard /\ ReadyMeansEncoding

(* await_ready returns, whatever becomes of the connection. *)
AwaitReturns == \A k \in Caller : caller[k] # "idle" ~> caller[k] \in Returned
=============================================================================
