-------------------------- MODULE SelectBreak_proofs --------------------------
(***************************************************************************)
(* The wait of every stream of a Rust connection's run loop is bounded,    *)
(* whatever comes in on the other streams.                                 *)
(***************************************************************************)
EXTENDS SelectBreak, TLAPS

(* What a poll does with the flags, and whom it picks. *)
LEMMA PollTurns ==
    ASSUME TypeOK, TurnFlags
    PROVE  /\ flag' \in [{"outer", "inner"} -> BOOLEAN]
           /\ flag'["outer"] <=> ~flag["outer"]
           /\ InnerPolled => (flag'["inner"] <=> ~flag["inner"])
           /\ ~InnerPolled => (flag'["inner"] <=> flag["inner"])
           /\ Pick \in Stream
BY DEF TypeOK, TurnFlags, InnerPolled, Pick, InnerPick, InnerFirst, InnerSecond, Stream

(* Every step keeps the state well typed. *)
LEMMA TypeStep == TypeOK /\ [Next]_vars => TypeOK'
<1> SUFFICES ASSUME TypeOK, [Next]_vars PROVE TypeOK'
    OBVIOUS
<1>1. CASE HandOut
    <2>1. flag' \in [{"outer", "inner"} -> BOOLEAN]
        BY <1>1, PollTurns DEF HandOut
    <2> QED BY <1>1, <2>1 DEF HandOut, TypeOK
<1>2. CASE GiveNone
    <2>1. flag' \in [{"outer", "inner"} -> BOOLEAN]
        BY <1>2, PollTurns DEF GiveNone
    <2> QED BY <1>2, <2>1 DEF GiveNone, TypeOK
<1>3. CASE Pending
    <2>1. flag' \in [{"outer", "inner"} -> BOOLEAN]
        BY <1>3, PollTurns DEF Pending
    <2> QED BY <1>3, <2>1 DEF Pending, TypeOK
<1>4. CASE SocketEnds
    BY <1>4 DEF SocketEnds, TypeOK, Stream
<1>5. ASSUME NEW x \in Stream, Arrive(x) PROVE TypeOK'
    BY <1>5 DEF Arrive, TypeOK
<1>6. CASE UNCHANGED vars
    BY <1>6 DEF vars, TypeOK
<1> QED BY <1>1, <1>2, <1>3, <1>4, <1>5, <1>6 DEF Next, Poll

(* A poll that picks another stream than x uses up one of the turns that     *)
(* could still go before x.                                                  *)
LEMMA TurnUsedUp ==
    ASSUME TypeOK, TurnFlags, NEW x \in Stream, x # Pick, Wakes(x)
    PROVE  Ahead(x)' + 1 <= Ahead(x)
<1>1. /\ flag'["outer"] <=> ~flag["outer"]
      /\ InnerPolled => (flag'["inner"] <=> ~flag["inner"])
      /\ ~InnerPolled => (flag'["inner"] <=> flag["inner"])
    BY PollTurns
<1>2. CASE x = "ping"
    <2>1. ~flag["outer"]
        BY <1>2 DEF Pick, InnerPolled
    <2> QED BY <1>1, <1>2, <2>1 DEF Ahead
<1>3. CASE x = "socket"
    <2>1. CASE ~InnerPolled
        <3>1. flag["outer"] /\ ~flag'["outer"] /\ (flag'["inner"] <=> flag["inner"])
            BY <1>1, <2>1 DEF InnerPolled
        <3> QED BY <1>3, <3>1 DEF Ahead, InnerFirst
    <2>2. CASE InnerPolled
        <3>1. flag["inner"]
            BY <1>3, <2>2 DEF Pick, InnerWakes, InnerPick, InnerFirst
        <3>2. ~flag'["inner"]
            BY <1>1, <2>2, <3>1
        <3> QED BY <1>1, <1>3, <3>1, <3>2 DEF Ahead, InnerFirst
    <2> QED BY <2>1, <2>2
<1>4. CASE x = "queue"
    <2>1. CASE ~InnerPolled
        <3>1. flag["outer"] /\ ~flag'["outer"] /\ (flag'["inner"] <=> flag["inner"])
            BY <1>1, <2>1 DEF InnerPolled
        <3> QED BY <1>4, <3>1 DEF Ahead, InnerFirst
    <2>2. CASE InnerPolled
        <3>1. ~flag["inner"]
            BY <1>4, <2>2 DEF Pick, InnerWakes, InnerPick, InnerFirst
        <3>2. flag'["inner"]
            BY <1>1, <2>2, <3>1
        <3> QED BY <1>1, <1>4, <3>1, <3>2 DEF Ahead, InnerFirst
    <2> QED BY <2>1, <2>2
<1> QED BY <1>2, <1>3, <1>4 DEF Stream

(* How many turns can be ahead at all. *)
LEMMA AheadBound ==
    ASSUME NEW x \in Stream
    PROVE  Ahead(x) \in Nat /\ Ahead(x) <= Limit(x) /\ Limit(x) \in Nat
BY DEF Ahead, Limit, Stream, InnerFirst

(* Every step keeps the count of turns within its limit. *)
LEMMA TurnsStep == IInv /\ [Next]_vars => TurnsLeft'
<1> SUFFICES ASSUME TypeOK, TurnsLeft, [Next]_vars, NEW x \in Stream
             PROVE  waited'[x] + Ahead(x)' <= Limit(x) /\ (~Wakes(x)' => waited'[x] = 0)
    BY DEF IInv, TurnsLeft, Limit
<1>t. waited \in [Stream -> Nat]
    BY DEF TypeOK
<1>b. /\ Ahead(x) \in Nat /\ Ahead(x)' \in Nat
      /\ Ahead(x) <= Limit(x) /\ Ahead(x)' <= Limit(x) /\ Limit(x) \in Nat
    BY DEF Ahead, Limit, Stream, InnerFirst
<1>w. waited[x] \in Nat /\ waited[x] + Ahead(x) <= Limit(x) /\ (~Wakes(x) => waited[x] = 0)
    BY <1>t DEF TurnsLeft
<1>1. CASE HandOut
    <2>1. waited'[x] = IF x # Pick /\ Wakes(x) THEN waited[x] + 1 ELSE 0
        BY <1>1 DEF HandOut
    <2>2. CASE x # Pick /\ Wakes(x)
        <3>1. Ahead(x)' + 1 <= Ahead(x)
            BY <1>1, <2>2, TurnUsedUp DEF HandOut
        <3>2. Wakes(x)'
            BY <1>1, <2>2 DEF HandOut, Wakes
        <3> QED BY <2>1, <2>2, <3>1, <3>2, <1>b, <1>w
    <2>3. CASE ~(x # Pick /\ Wakes(x))
        BY <2>1, <2>3, <1>b
    <2> QED BY <2>2, <2>3
<1>2. CASE GiveNone
    <2>1. Wakes(x)' = Wakes(x)
        BY <1>2 DEF GiveNone, Wakes
    <2>2. CASE x = Pick
        BY <1>2, <2>2, <1>t, <1>b DEF GiveNone
    <2>3. CASE x # Pick
        <3>1. waited'[x] = waited[x]
            BY <1>2, <2>3, <1>t DEF GiveNone
        <3>2. CASE ~Wakes(x)
            BY <3>1, <3>2, <2>1, <1>b, <1>w
        <3>3. CASE Wakes(x)
            <4>1. Ahead(x)' + 1 <= Ahead(x)
                BY <1>2, <2>3, <3>3, TurnUsedUp DEF GiveNone
            <4> QED BY <3>1, <4>1, <3>3, <2>1, <1>b, <1>w
        <3> QED BY <3>2, <3>3
    <2> QED BY <2>2, <2>3
<1>3. CASE Pending
    <2>1. waited'[x] = waited[x] /\ Wakes(x)' = Wakes(x) /\ ~Wakes(x)
        BY <1>3 DEF Pending, Wakes
    <2> QED BY <2>1, <1>b, <1>w
<1>4. CASE SocketEnds
    <2>1. waited'[x] = waited[x] /\ Ahead(x)' = Ahead(x) /\ (Wakes(x) => Wakes(x)')
        BY <1>4 DEF SocketEnds, Wakes, Ahead, InnerFirst
    <2> QED BY <2>1, <1>w
<1>5. ASSUME NEW y \in Stream, Arrive(y)
      PROVE  waited'[x] + Ahead(x)' <= Limit(x) /\ (~Wakes(x)' => waited'[x] = 0)
    <2>1. waited'[x] = waited[x] /\ Ahead(x)' = Ahead(x) /\ (Wakes(x) => Wakes(x)')
        BY <1>5 DEF Arrive, Wakes, Ahead, InnerFirst
    <2> QED BY <2>1, <1>w
<1>6. CASE UNCHANGED vars
    <2>1. waited'[x] = waited[x] /\ Ahead(x)' = Ahead(x) /\ Wakes(x)' = Wakes(x)
        BY <1>6 DEF vars, Wakes, Ahead, InnerFirst
    <2> QED BY <2>1, <1>w
<1> QED BY <1>1, <1>2, <1>3, <1>4, <1>5, <1>6 DEF Next, Poll

(* No stream of the run loop is starved: a frame, an event of the queue or   *)
(* the socket's end waits for three other events at most, a ping for one     *)
(* (SelectBreak::poll_next, poll_inner).                                     *)
THEOREM WaitIsBounded == Spec => []BoundedWait
<1>1. Init => IInv
    BY DEF Init, IInv, TypeOK, TurnsLeft, Stream, Wakes, Ahead, Limit, InnerFirst
<1>2. IInv /\ [Next]_vars => IInv'
    BY TypeStep, TurnsStep DEF IInv
<1>3. IInv => BoundedWait
    <2> SUFFICES ASSUME IInv, NEW x \in Stream PROVE waited[x] <= Limit(x)
        BY DEF BoundedWait
    <2>1. waited[x] \in Nat /\ waited[x] + Ahead(x) <= Limit(x)
        BY DEF IInv, TypeOK, TurnsLeft
    <2> QED BY <2>1, AheadBound
<1> QED BY <1>1, <1>2, <1>3, PTL DEF Spec
=============================================================================
