------------------------------ MODULE MCExClient ------------------------------
(* Instances of ExClient with ExServer for model checking. *)
EXTENDS ExServer

Scenario(calls, keepalives_, pings, faults) ==
    [calls |-> calls, keepalives |-> keepalives_, pings |-> pings, faults |-> faults]

One == {CHOOSE r \in Requests : TRUE}

(* Requests and a close with handlers that crash and callers that time out, a  *)
(* connection that breaks, pings of callers and keepalives, a handler that     *)
(* goes away while nobody pings, a network that falls silent, codecs that do   *)
(* not fit or cannot represent a term, and keepalive pings until the sequences *)
(* are reset.                                                                *)
Everyday ==
    {Scenario(Requests \cup Closes, 0, 0, {"error", "timeout"}),
     Scenario(Requests, 0, 0, {"close"}),
     Scenario(One, 1, 0, {"close", "error", "timeout"}),
     Scenario(Requests \cup Pings, 0, 0, {}),
     Scenario(One \cup Pings, 1, 0, {}),
     Scenario(Requests, 1, 0, {}),
     Scenario(Requests \cup Closes, 0, 0, {"goAway"}),
     Scenario(One \cup Pushes, 0, 0, {"goAway"}),
     Scenario(One, 1, 1, {"silence"}),
     Scenario(Requests, 0, 1, {"recode"}),
     Scenario(One \cup Closes, 0, 0, {"noCodec"}),
     Scenario(Requests, 0, 0, {"error", "oddResponse", "oddReason"}),
     Scenario(One \cup Pushes, 0, 0, {"oddPayload"}),
     Scenario({}, MaxSequence + 1, MaxSequence, {})}

GoesAway == {Scenario(Requests, 1, 0, {"goAway"})}
=============================================================================
