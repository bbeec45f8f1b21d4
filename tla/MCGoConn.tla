------------------------------- MODULE MCGoConn -------------------------------
(* Instances of GoServe, either end of a connection, for model checking. *)
EXTENDS GoServe

Client(calls, pushes, timeouts, closers, p, pp) ==
    [role |-> "client", calls |-> calls, pushes |-> pushes, timeouts |-> timeouts,
     closers |-> closers, pings |-> p, peerPings |-> pp,
     script |-> <<>>, workers |-> {}, panics |-> FALSE]

Server(script, workers, panics, closers, p) ==
    [role |-> "server", calls |-> {}, pushes |-> {}, timeouts |-> FALSE,
     closers |-> closers, pings |-> p, peerPings |-> 0,
     script |-> script, workers |-> workers, panics |-> panics]

OneCall == {CHOOSE r \in Req : TRUE}
OneWorker == {CHOOSE w \in Worker : TRUE}
Ask(s) == Frame("Request", s, None)
Hi == Plain("Hello")

(* A client: calls that wait, calls that time out, a call while either end     *)
(* ends the connection, a connection without calls that ends in every way.    *)
ClientScenarios ==
    {Client(Req, {}, FALSE, {}, 1, 0), Client(Req, {}, TRUE, {}, 0, 0),
     Client(OneCall, {}, TRUE, {}, 0, 1),
     Client(OneCall, {}, FALSE, {"peer"}, 0, 0), Client(OneCall, {}, FALSE, {"user"}, 0, 0),
     Client(OneCall, OneCall, FALSE, {"peer"}, 0, 0),
     Client({}, {}, FALSE, {"closer", "peer"}, 0, 0),
     Client({}, {}, FALSE, {"user", "silence"}, 1, 0)}

(* A server: requests and a push to handlers that panic, with two workers and  *)
(* with one, ended in every way; and clients that break the protocol.         *)
ServerScenarios ==
    {Server(<<Hi, Ask(1), Ask(2)>>, Worker, TRUE, {}, 0),
     Server(<<Hi, Ask(1), Ask(2), Plain("Push")>>, OneWorker, TRUE, {}, 0),
     Server(<<Hi, Ask(1)>>, OneWorker, FALSE, {"user"}, 0),
     Server(<<Hi, Ask(1), Plain("GoAway")>>, OneWorker, FALSE, {"closer"}, 0),
     Server(<<Hi, Ask(1), Ask(2)>>, OneWorker, TRUE, {"peer"}, 0),
     Server(<<Hi, Ask(1)>>, OneWorker, FALSE, {"silence"}, 1),
     Server(<<Ask(1), Hi, Hi>>, OneWorker, FALSE, {}, 0),
     Server(<<Ask(0), Plain("BadHello")>>, OneWorker, FALSE, {}, 0),
     Server(<<Hi, Plain("Error"), Plain("Response"), Ask(1)>>, OneWorker, FALSE, {}, 0),
     Server(<<Plain("HelloAck"), Plain("Push")>>, OneWorker, FALSE, {"closer"}, 0)}

Everyday == ClientScenarios \cup ServerScenarios

Impatient == {Client(Req, {}, TRUE, {}, 0, 0)}

ServerEnds == {Client(Req, {}, FALSE, {"peer"}, 0, 0)}
=============================================================================
