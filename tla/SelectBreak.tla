----------------------------- MODULE SelectBreak -----------------------------
(***************************************************************************)
(* The merged stream that the run loop of a Rust connection takes its      *)
(* events from (select_break.rs):                                          *)
(*                                                                         *)
(*   framed_reader.select_break(self_rx).select_break(ping_stream)         *)
(*                                                                         *)
(* Two adapters, one inside the other.  Each keeps a flag that says which  *)
(* of its two streams it polls first, turns the flag over on every poll,   *)
(* and polls the second stream only if the first is Pending.  So the inner *)
(* flag turns only on the polls that reach the inner adapter.              *)
(***************************************************************************)
EXTENDS Naturals

VARIABLES
    flag,       \* flag[a]: SelectBreak.flag of the "outer" and "inner" adapter
    ready,      \* the streams that have an item (Poll::Ready(Some))
    ended,      \* the streams that have nothing more to give
    merged,     \* "open", or "over" once the merged stream has given None
    waited      \* history: waited[x]: how many items of other streams were
                \* handed out since x became ready, or ended

vars == <<flag, ready, ended, merged, waited>>

Stream == {"socket", "queue", "ping"}

TypeOK ==
    /\ flag \in [{"outer", "inner"} -> BOOLEAN]
    /\ ready \subseteq Stream
    /\ ended \subseteq Stream
    /\ merged \in {"open", "over"}
    /\ waited \in [Stream -> Nat]

Init ==
    /\ flag = [a \in {"outer", "inner"} |-> FALSE]
    /\ ready = {}
    /\ ended = {}
    /\ merged = "open"
    /\ waited = [x \in Stream |-> 0]
-----------------------------------------------------------------------------
(* A stream that is not Pending: it has an item, or it has ended. *)
Wakes(x) == x \in ready \cup ended

(* poll_next of the inner adapter: its flag says which stream goes first. *)
InnerFirst == IF flag["inner"] THEN "queue" ELSE "socket"
InnerSecond == IF flag["inner"] THEN "socket" ELSE "queue"
InnerPick == IF Wakes(InnerFirst) THEN InnerFirst ELSE InnerSecond
InnerWakes == Wakes("socket") \/ Wakes("queue")

(* poll_next of the outer adapter: it reaches the inner one unless it polls  *)
(* the ping stream first and finds it ready.                                 *)
InnerPolled == ~flag["outer"] \/ ~Wakes("ping")
Pick == IF InnerPolled /\ InnerWakes THEN InnerPick ELSE "ping"

(* Mutants of TurnFlags: the first stream always goes first; the inner flag  *)
(* turns on every poll of the outer adapter.                                 *)
TurnFlagsNever == UNCHANGED flag
TurnFlagsTogether == flag' = [a \in {"outer", "inner"} |-> ~flag[a]]

(* poll_inner: `*flag = !*flag` before either stream is polled. *)
TurnFlags ==
    flag' = [flag EXCEPT !["outer"] = ~@,
                         !["inner"] = IF InnerPolled THEN ~@ ELSE @]

(* A poll that finds an item hands it out.  The stream may have another one. *)
HandOut ==
    /\ merged = "open"
    /\ Pick \in ready
    /\ TurnFlags
    /\ ready' \in {ready, ready \ {Pick}}
    /\ waited' = [x \in Stream |-> IF x # Pick /\ Wakes(x) THEN waited[x] + 1 ELSE 0]
    /\ UNCHANGED <<ended, merged>>

(* Mutant of GiveNone: as in an ordinary select, all of them have to end. *)
GiveNoneAtLast ==
    /\ merged = "open"
    /\ Pick \in ended
    /\ TurnFlags
    /\ merged' = IF ended = Stream THEN "over" ELSE "open"
    /\ waited' = [waited EXCEPT ![Pick] = 0]
    /\ UNCHANGED <<ready, ended>>

(* A poll that comes upon a stream that has ended: None, and the loop ends. *)
GiveNone ==
    /\ merged = "open"
    /\ Pick \in ended
    /\ TurnFlags
    /\ merged' = "over"
    /\ waited' = [waited EXCEPT ![Pick] = 0]
    /\ UNCHANGED <<ready, ended>>

(* A poll that finds nothing. *)
Pending ==
    /\ merged = "open"
    /\ \A x \in Stream : ~Wakes(x)
    /\ TurnFlags
    /\ UNCHANGED <<ready, ended, merged, waited>>

(* Something comes in on the socket, on the queue or from the timer. *)
Arrive(x) ==
    /\ ~Wakes(x)
    /\ ready' = ready \cup {x}
    /\ UNCHANGED <<flag, ended, merged, waited>>

(* The socket ends after its last frame.  The two other streams have no end: *)
(* the loop's own EventHandler holds a sender of the queue, and the timer    *)
(* goes on.                                                                  *)
SocketEnds ==
    /\ ~Wakes("socket")
    /\ ended' = ended \cup {"socket"}
    /\ UNCHANGED <<flag, ready, merged, waited>>

Poll == HandOut \/ GiveNone \/ Pending

Next == Poll \/ SocketEnds \/ \E x \in Stream : Arrive(x)

Spec == Init /\ [][Next]_vars

(* The run loop awaits the merged stream for ever. *)
FairSpec == Spec /\ WF_vars(HandOut \/ GiveNone)
-----------------------------------------------------------------------------
(* The inductive invariant: how many items of other streams can still go    *)
(* first, as the flags stand.                                               *)
Limit(x) == IF x = "ping" THEN 1 ELSE 3

Ahead(x) ==
    IF x = "ping" THEN IF flag["outer"] THEN 0 ELSE 1
    ELSE (IF x = InnerFirst THEN 0 ELSE 2) + (IF flag["outer"] THEN 1 ELSE 0)

TurnsLeft ==
    \A x \in Stream : waited[x] + Ahead(x) <= Limit(x) /\ (~Wakes(x) => waited[x] = 0)

IInv == TypeOK /\ TurnsLeft

(* "The streams are polled in a round-robin fashion": a frame on the socket, *)
(* or the socket's end, waits for at most three other events, an event of    *)
(* the queue likewise, and a ping for one.  Neither a flood of requests nor  *)
(* a busy socket can keep the ping timer, or a Close, from being seen.       *)
BoundedWait == \A x \in Stream : waited[x] <= Limit(x)

(* "The stream will stop once one of the streams ends": however busy the     *)
(* queue and the timer are.                                                  *)
StopsAtTheEnd == ended # {} ~> merged = "over"
=============================================================================
