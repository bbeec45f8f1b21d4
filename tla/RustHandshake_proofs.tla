------------------------- MODULE RustHandshake_proofs -------------------------
(***************************************************************************)
(* Proofs about RustHandshake, for every set of encodings and callers,     *)
(* every configuration and every ping interval: what the two ends agree on *)
(* and that nothing is lost at the upgrade.                                *)
(***************************************************************************)
EXTENDS RustHandshake, Integers, SequenceTheorems, WellFoundedInduction, TLAPS

(* The protocol is half-duplex until both ends run: no more than one frame   *)
(* is in flight, and its kind says how far each end has come.                *)
Lone(q) == q = <<>> \/ (Len(q) = 1 /\ q = <<q[1]>>)

InFlight ==
    /\ \A s \in Side : Lone(wire[s])
    /\ wire["client"] = <<>> \/ wire["server"] = <<>>
    /\ task["client"] = "idle" => task["server"] = "idle" /\ wire["server"] = <<>>
    /\ task["server"] \in {"idle", "upgrading"} =>
        task["client"] \in {"idle", "upgrading", "closed"} /\ wire["client"] = <<>>
    /\ wire["server"] # <<>> =>
        \/ /\ wire["server"][1].op = "UpgradeRequest"
           /\ task["client"] \in {"upgrading", "closed"}
           /\ task["server"] \in {"idle", "upgrading", "closed"}
        \/ /\ wire["server"][1].op \in {"Hello", "Other"}
           /\ task["client"] \in {"greeting", "closed"}
           /\ task["server"] \in {"greeting", "closed"}
    /\ wire["client"] # <<>> =>
        \/ /\ wire["client"][1].op = "UpgradeResponse"
           /\ task["client"] \in {"upgrading", "closed"}
           /\ task["server"] \in {"greeting", "closed"}
        \/ /\ wire["client"][1].op \in {"HelloAck", "GoAway", "Other"}
           /\ task["client"] \in {"greeting", "closed"}
           /\ task["server"] \in {"running", "closed"}

(* What the server has settled on is the answer it gave, and stays so. *)
Settled ==
    /\ settings["server"] # None => task["server"] \in {"running", "closed"}
    /\ settings["client"] # None => task["server"] \in {"running", "closed"}
    /\ (wire["client"] # <<>> /\ wire["client"][1].op = "HelloAck") =>
        /\ wire["client"][1].encoding = settings["server"]
        /\ settings["server"] # None

(* The ready channel carries the news that the client has its settings, and  *)
(* the ready task is as far as what it has heard.                            *)
Heard ==
    /\ ready_tx = "sent" <=> settings["client"] # None
    /\ ready_tx = "sent" => task["client"] \in {"running", "closed"} /\ readyTask # "gone"
    /\ task["client"] = "running" => ready_tx = "sent"
    /\ readyTask \in {"storing", "serving"} =>
        ready_tx = "sent" /\ encoding = settings["client"]
    /\ ready <=> readyTask = "serving"
    /\ \A k \in Caller : told[k] = "sent" \/ caller[k] = "ok" => ready
    /\ reader = "sawReady" => ready
    /\ reader # "NoClientEncoding"

IInv == TypeOK /\ lost = 0 /\ InFlight /\ Settled /\ EncodingAgreed /\ Heard
-----------------------------------------------------------------------------
(* Frames and queues of at most one.                                       *)

(* A frame that is put on an idle direction is alone there. *)
LEMMA LoneAppend ==
    ASSUME NEW m \in Msg
    PROVE  /\ Append(<<>>, m) = <<m>>
           /\ <<m>> # <<>> /\ <<m>>[1] = m
           /\ <<m>> \in Seq(Msg) /\ Lone(<<m>>)
BY DEF Lone

(* When the only frame of a direction is taken, nothing is left behind it. *)
LEMMA LoneTaken ==
    ASSUME NEW q \in Seq(Msg), Lone(q), q # <<>>
    PROVE  /\ Len(q) = 1 /\ Head(q) = q[1] /\ q[1] \in Msg
           /\ Tail(q) = <<>> /\ SubSeq(q, 2, Len(q)) = <<>>
<1>1. Len(q) = 1 /\ Head(q) = q[1] /\ q[1] \in Msg
    BY DEF Lone
<1>2. Len(Tail(q)) = 0 /\ Tail(q) \in Seq(Msg)
    BY <1>1
<1>3. Len(SubSeq(q, 2, Len(q))) = 0 /\ SubSeq(q, 2, Len(q)) \in Seq(Msg)
    BY <1>1
<1> QED
    BY <1>1, <1>2, <1>3, EmptySeq

(* The frames without an encoding are messages. *)
LEMMA FrameType ==
    \A op \in {"UpgradeRequest", "UpgradeResponse", "Hello", "GoAway", "Other"} :
        Frame(op) \in Msg /\ Frame(op).op = op /\ Frame(op).encoding = None
BY SizeAssumption DEF Frame, Msg

(* as_millis() as u32 fits its width, whatever the ping interval. *)
LEMMA IntervalFits ==
    ASSUME TypeOK PROVE IntervalMs \in 0 .. MsModulus - 1
<1>1. ping_interval \in Nat /\ UnitsPerMs \in Nat \ {0} /\ MsModulus \in Nat \ {0}
    BY SizeAssumption DEF TypeOK
<1>2. ping_interval \div UnitsPerMs \in Int
    BY <1>1
<1>3. \A n \in Int : n % MsModulus \in 0 .. MsModulus - 1
    BY <1>1
<1> QED
    BY <1>2, <1>3 DEF IntervalMs

(* A set of indices that is not empty has a least one: < is well-founded. *)
LEMMA LeastIndex ==
    ASSUME NEW T \in SUBSET Nat, T # {}
    PROVE  \E i \in T : \A j \in T : i <= j
<1>1. PICK i \in T : \A j \in T : <<j, i>> \notin OpToRel(<, Nat)
    BY WFMin, NatLessThanWellFounded, Zenon
<1>2. \A j \in T : ~(j < i)
    BY <1>1, Zenon DEF OpToRel
<1> QED
    BY <1>2

(* What negotiate_encoding answers, if anything, is the first encoding of    *)
(* the client that the server supports.                                      *)
FirstInCommon(e) ==
    \E i \in DOMAIN encodings["client"] :
        /\ encodings["client"][i] = e
        /\ Supports("server", e)
        /\ \A j \in 1 .. i - 1 : ~Supports("server", encodings["client"][j])

(* negotiate_encoding: the CHOOSE of the least index is what its loop finds. *)
LEMMA NegotiateFirst ==
    ASSUME TypeOK, NegotiateEncoding # None
    PROVE  NegotiateEncoding \in Enc /\ FirstInCommon(NegotiateEncoding)
<1> DEFINE c == encodings["client"]
           common == {i \in DOMAIN c : Supports("server", c[i])}
<1>1. c \in Seq(Enc)
    BY ConfigAssumption DEF TypeOK, Side
<1>2. common # {} /\ common \subseteq 1 .. Len(c) /\ Len(c) \in Nat
    BY <1>1 DEF NegotiateEncoding
<1>3. \E i \in common : \A j \in common : i <= j
    <2>1. common \in SUBSET Nat
        BY <1>2
    <2> HIDE DEF common
    <2> QED
        BY <1>2, <2>1, LeastIndex
<1>4. PICK i \in common : i = CHOOSE k \in common : \A j \in common : k <= j
    BY <1>3
<1>5. \A j \in common : i <= j
    BY <1>3, <1>4
<1>6. NegotiateEncoding = c[i]
    BY <1>2, <1>4 DEF NegotiateEncoding
<1>7. \A j \in 1 .. i - 1 : ~Supports("server", c[j])
    BY <1>1, <1>2, <1>5
<1> QED
    BY <1>1, <1>2, <1>6, <1>7 DEF FirstInCommon
-----------------------------------------------------------------------------
(* The invariant holds initially and every action keeps it.                *)

(* Init: nobody has said anything. *)
LEMMA InitIInv == Init => IInv
<1> SUFFICES ASSUME Init PROVE IInv
    OBVIOUS
<1>1. TypeOK /\ lost = 0
    <2>1. <<>> \in Seq(Msg) /\ <<>> \in Seq(Caller)
        BY EmptySeq
    <2> QED
        BY <2>1 DEF Init, TypeOK, Side
<1>2. InFlight /\ Settled /\ EncodingAgreed
    BY DEF Init, InFlight, Settled, EncodingAgreed, Lone, Side
<1>3. Heard
    BY DEF Init, Heard, Side
<1> QED
    BY <1>1, <1>2, <1>3 DEF IInv

(* A task that returns leaves the wires and the settings as they are, and    *)
(* the client's ready channel open to nobody.                                *)
LEMMA TaskEndsIInv ==
    ASSUME IInv, NEW s \in Side, TaskEnds(s),
           UNCHANGED <<configVars, wire, lost, settings, deadline, readyVars, awaitVars, reader>>,
           task[s] # "idle" \/ s = "client"
    PROVE  IInv'
<1> USE DEF configVars, readyVars, awaitVars, TaskEnds, Side
<1>1. TypeOK' /\ lost' = 0
    BY DEF IInv, TypeOK
<1>2. InFlight'
    BY DEF IInv, TypeOK, InFlight
<1>3. Settled' /\ EncodingAgreed'
    BY DEF IInv, TypeOK, Settled, EncodingAgreed, Supports
<1>4. Heard'
    BY DEF IInv, TypeOK, Heard
<1> QED
    BY <1>1, <1>2, <1>3, <1>4 DEF IInv

(* connect, accept: the first frame is the client's upgrade request. *)
LEMMA ConnectIInv ==
    ASSUME IInv, Connect \/ Accept
    PROVE  IInv'
<1> USE DEF configVars, readyVars, awaitVars, Side
<1>1. Frame("UpgradeRequest") \in Msg /\ Frame("UpgradeRequest").op = "UpgradeRequest"
    BY FrameType
<1>2. /\ <<Frame("UpgradeRequest")>> # <<>>
      /\ <<Frame("UpgradeRequest")>>[1] = Frame("UpgradeRequest")
      /\ <<Frame("UpgradeRequest")>> \in Seq(Msg)
      /\ Lone(<<Frame("UpgradeRequest")>>)
    BY <1>1, LoneAppend
<1>3. CASE Connect
    <2>1. TypeOK' /\ lost' = 0
        BY <1>2, <1>3 DEF IInv, TypeOK, Connect
    <2>2. InFlight'
        BY <1>1, <1>2, <1>3 DEF IInv, TypeOK, InFlight, Connect
    <2>3. Settled' /\ EncodingAgreed'
        BY <1>3 DEF IInv, TypeOK, InFlight, Settled, EncodingAgreed, Supports, Connect
    <2>4. Heard'
        BY <1>3 DEF IInv, TypeOK, Heard, Connect
    <2> QED
        BY <2>1, <2>2, <2>3, <2>4 DEF IInv
<1>4. CASE Accept
    <2>1. TypeOK' /\ lost' = 0
        BY <1>4 DEF IInv, TypeOK, Accept
    <2>2. InFlight'
        BY <1>4 DEF IInv, TypeOK, InFlight, Accept
    <2>3. Settled' /\ EncodingAgreed'
        BY <1>4 DEF IInv, TypeOK, InFlight, Settled, EncodingAgreed, Supports, Accept
    <2>4. Heard'
        BY <1>4 DEF IInv, TypeOK, Heard, Accept
    <2> QED
        BY <2>1, <2>2, <2>3, <2>4 DEF IInv
<1> QED
    BY <1>3, <1>4

(* What an upgrade takes is all there is: the read buffer it drops is empty. *)
LEMMA UpgradedTakesAll ==
    ASSUME IInv, NEW s \in Side, NEW op \in {"UpgradeRequest", "UpgradeResponse"},
           NEW m \in Msg, Upgraded(s, op, m)
    PROVE  /\ lost' = 0
           /\ wire[s] # <<>> /\ wire[s][1].op = op /\ wire[Peer(s)] = <<>>
           /\ wire' = [wire EXCEPT ![s] = <<>>, ![Peer(s)] = <<m>>]
<1> USE DEF Side, Peer
<1>1. wire[s] # <<>> /\ wire[s] \in Seq(Msg) /\ Lone(wire[s]) /\ wire[Peer(s)] = <<>>
    BY DEF IInv, TypeOK, InFlight, Upgraded
<1>2. Len(wire[s]) = 1 /\ Head(wire[s]) = wire[s][1] /\ SubSeq(wire[s], 2, Len(wire[s])) = <<>>
    BY <1>1, LoneTaken
<1>3. PICK n \in 1 .. Len(wire[s]) :
        /\ lost' = lost + n - 1
        /\ wire' = [wire EXCEPT ![s] = SubSeq(@, n + 1, Len(@)), ![Peer(s)] = Append(@, m)]
    BY DEF Upgraded
<1>4. n = 1
    BY <1>2
<1>5. lost' = 0
    BY <1>3, <1>4 DEF IInv
<1>6. Append(wire[Peer(s)], m) = <<m>>
    BY <1>1, LoneAppend
<1>7. wire' = [wire EXCEPT ![s] = <<>>, ![Peer(s)] = <<m>>]
    <2>1. SubSeq(wire[s], n + 1, Len(wire[s])) = <<>>
        BY <1>2, <1>4
    <2>2. wire \in [Side -> Seq(Msg)] /\ Peer(s) # s
        BY DEF IInv, TypeOK
    <2>3. wire' = [wire EXCEPT ![s] = SubSeq(wire[s], n + 1, Len(wire[s])),
                              ![Peer(s)] = Append(wire[Peer(s)], m)]
        BY <1>3, <2>2
    <2> QED
        BY <1>6, <2>1, <2>3
<1> QED
    BY <1>1, <1>2, <1>5, <1>7 DEF Upgraded

(* The two upgrades. *)
LEMMA UpgradeIInv ==
    ASSUME IInv, ServerUpgrade \/ ClientUpgrade
    PROVE  IInv'
<1> USE DEF configVars, readyVars, awaitVars, Side
<1>1. CASE ServerUpgrade
    <2> DEFINE m == Frame("UpgradeResponse")
    <2>1. m \in Msg /\ m.op = "UpgradeResponse"
        BY FrameType
    <2>2. <<m>> # <<>> /\ <<m>>[1] = m /\ <<m>> \in Seq(Msg) /\ Lone(<<m>>)
        BY <2>1, LoneAppend
    <2>3. /\ lost' = 0 /\ wire["server"] # <<>> /\ wire["server"][1].op = "UpgradeRequest"
          /\ wire' = [wire EXCEPT !["server"] = <<>>, !["client"] = <<m>>]
        BY <1>1, <2>1, UpgradedTakesAll DEF ServerUpgrade, Peer
    <2>4. task["server"] = "upgrading" /\ task' = [task EXCEPT !["server"] = "greeting"]
        BY <1>1 DEF ServerUpgrade, Upgraded
    <2> HIDE DEF m
    <2>5. TypeOK'
        BY <1>1, <2>2, <2>3, <2>4, EmptySeq DEF IInv, TypeOK, ServerUpgrade
    <2>6. InFlight'
        BY <2>1, <2>2, <2>3, <2>4 DEF IInv, TypeOK, InFlight, Lone
    <2>7. Settled' /\ EncodingAgreed'
        BY <1>1, <2>1, <2>2, <2>3, <2>4 DEF IInv, TypeOK, Settled, EncodingAgreed, Supports, ServerUpgrade
    <2>8. Heard'
        BY <1>1, <2>4 DEF IInv, TypeOK, Heard, ServerUpgrade
    <2> QED
        BY <2>3, <2>5, <2>6, <2>7, <2>8 DEF IInv
<1>2. CASE ClientUpgrade
    <2>1. PICK op \in {"Hello", "Other"} : Upgraded("client", "UpgradeResponse", Frame(op))
        BY <1>2 DEF ClientUpgrade
    <2> DEFINE m == Frame(op)
    <2>2. m \in Msg /\ m.op \in {"Hello", "Other"}
        BY FrameType
    <2>3. <<m>> # <<>> /\ <<m>>[1] = m /\ <<m>> \in Seq(Msg) /\ Lone(<<m>>)
        BY <2>2, LoneAppend
    <2>4. /\ lost' = 0 /\ wire["client"] # <<>> /\ wire["client"][1].op = "UpgradeResponse"
          /\ wire' = [wire EXCEPT !["client"] = <<>>, !["server"] = <<m>>]
        BY <2>1, <2>2, UpgradedTakesAll DEF Peer
    <2>5. task["client"] = "upgrading" /\ task' = [task EXCEPT !["client"] = "greeting"]
        BY <2>1 DEF Upgraded
    <2> HIDE DEF m
    <2>6. TypeOK'
        BY <1>2, <2>3, <2>4, <2>5, EmptySeq DEF IInv, TypeOK, ClientUpgrade
    <2>7. InFlight'
        BY <2>2, <2>3, <2>4, <2>5 DEF IInv, TypeOK, InFlight, Lone
    <2>8. Settled' /\ EncodingAgreed'
        BY <1>2, <2>2, <2>3, <2>4, <2>5 DEF IInv, TypeOK, Settled, EncodingAgreed, Supports, ClientUpgrade
    <2>9. Heard'
        BY <1>2, <2>5 DEF IInv, TypeOK, Heard, ClientUpgrade
    <2> QED
        BY <2>4, <2>6, <2>7, <2>8, <2>9 DEF IInv
<1> QED
    BY <1>1, <1>2

(* The server's answer to a greeting: it is the only frame in flight, and     *)
(* what it names is what the server runs with.                               *)
LEMMA AnswerIInv ==
    ASSUME IInv, NEW m \in Msg, NEW t \in {"running", "closed"},
           Greeted("server", "Hello") \/ Greeted("server", "Other"),
           m.op \in {"HelloAck", "GoAway", "Other"},
           m.op = "HelloAck" <=> m.encoding # None,
           foreign # "server" /\ m.encoding # None => FirstInCommon(m.encoding),
           wire' = [wire EXCEPT !["server"] = Tail(@), !["client"] = Append(@, m)],
           settings' = [settings EXCEPT !["server"] = m.encoding],
           task' = [task EXCEPT !["server"] = t],
           UNCHANGED <<configVars, lost, deadline, ready_tx, readyVars, awaitVars, reader>>
    PROVE  IInv'
<1> USE DEF configVars, readyVars, awaitVars, Side
<1>1. /\ wire["server"] # <<>> /\ wire["server"] \in Seq(Msg) /\ Lone(wire["server"])
      /\ wire["client"] = <<>> /\ task["server"] = "greeting"
    BY DEF IInv, TypeOK, InFlight, Greeted
<1>2. Tail(wire["server"]) = <<>> /\ Head(wire["server"]) = wire["server"][1]
    BY <1>1, LoneTaken
<1>3. /\ Append(wire["client"], m) = <<m>> /\ <<m>> # <<>> /\ <<m>>[1] = m
      /\ <<m>> \in Seq(Msg) /\ Lone(<<m>>)
    BY <1>1, LoneAppend
<1>4. wire' = [wire EXCEPT !["server"] = <<>>, !["client"] = <<m>>]
    <2>1. wire' = [wire EXCEPT !["server"] = Tail(wire["server"]), !["client"] = Append(wire["client"], m)]
        BY DEF IInv, TypeOK
    <2> QED
        BY <1>2, <1>3, <2>1
<1>5. m.encoding \in Enc \cup {None}
    BY DEF Msg
<1>6. wire["server"][1].op \in {"Hello", "Other"}
    BY <1>1, <1>2 DEF Greeted
<1>7. task["client"] \in {"greeting", "closed"} /\ settings["client"] = None
    BY <1>1, <1>6 DEF IInv, InFlight, Settled
<1>8. TypeOK' /\ lost' = 0
    <2>1. wire' \in [Side -> Seq(Msg)]
        <3>1. <<>> \in Seq(Msg) /\ wire \in [Side -> Seq(Msg)]
            BY EmptySeq DEF IInv, TypeOK
        <3> QED
            BY <1>3, <1>4, <3>1
    <2>2. settings' \in [Side -> Enc \cup {None}]
        BY <1>5 DEF IInv, TypeOK
    <2> QED
        BY <2>1, <2>2 DEF IInv, TypeOK
<1>9. InFlight'
    BY <1>1, <1>3, <1>4, <1>7 DEF IInv, TypeOK, InFlight, Lone
<1>10. Settled'
    BY <1>3, <1>4, <1>7 DEF IInv, TypeOK, Settled
<1>11. EncodingAgreed'
    BY <1>7 DEF IInv, TypeOK, EncodingAgreed, Supports, FirstInCommon
<1>12. Heard'
    BY <1>1 DEF IInv, TypeOK, Heard
<1> QED
    BY <1>8, <1>9, <1>10, <1>11, <1>12 DEF IInv

(* Handler::handshake of the server, and a server of another make. *)
LEMMA ServerHandshakeIInv ==
    ASSUME IInv, ServerHandshake \/ ForeignHandshake
    PROVE  IInv'
<1>1. CASE ServerHandshake
    <2> DEFINE e == IF Head(wire["server"]).op = "Hello" THEN NegotiateEncoding ELSE None
               m == IF e = None THEN Frame("GoAway")
                    ELSE [op |-> "HelloAck", encoding |-> e, ms |-> IntervalMs]
               t == IF e = None THEN "closed" ELSE "running"
    <2>1. e # None => e \in Enc /\ FirstInCommon(e)
        BY NegotiateFirst DEF IInv
    <2>2. /\ m \in Msg /\ m.op \in {"HelloAck", "GoAway", "Other"} /\ m.encoding = e
          /\ m.op = "HelloAck" <=> m.encoding # None
        <3>1. CASE e = None
            BY <3>1, FrameType
        <3>2. CASE e # None
            <4>1. IntervalMs \in 0 .. MsModulus - 1
                BY IntervalFits DEF IInv
            <4> HIDE DEF e
            <4>2. m = [op |-> "HelloAck", encoding |-> e, ms |-> IntervalMs]
                BY <3>2
            <4> QED
                BY <2>1, <3>2, <4>1, <4>2 DEF Msg
        <3> QED
            BY <3>1, <3>2
    <2>3. /\ wire' = [wire EXCEPT !["server"] = Tail(@), !["client"] = Append(@, m)]
          /\ settings' = [settings EXCEPT !["server"] = e]
          /\ task' = [task EXCEPT !["server"] = t]
          /\ Greeted("server", "Hello") \/ Greeted("server", "Other")
          /\ UNCHANGED <<configVars, lost, deadline, ready_tx, readyVars, awaitVars, reader>>
        BY <1>1 DEF ServerHandshake
    <2>4. t \in {"running", "closed"}
        OBVIOUS
    <2> HIDE DEF e, m, t
    <2> QED
        BY <2>1, <2>2, <2>3, <2>4, AnswerIInv
<1>2. CASE ForeignHandshake
    <2>1. PICK m \in {[op |-> "HelloAck", encoding |-> e, ms |-> IntervalMs] : e \in Enc}
                    \cup {Frame("Other")} :
            /\ wire' = [wire EXCEPT !["server"] = Tail(@), !["client"] = Append(@, m)]
            /\ settings' = [settings EXCEPT !["server"] = m.encoding]
        BY <1>2 DEF ForeignHandshake
    <2>2. IntervalMs \in 0 .. MsModulus - 1
        BY IntervalFits DEF IInv
    <2>3. /\ m \in Msg /\ m.op \in {"HelloAck", "GoAway", "Other"}
          /\ m.op = "HelloAck" <=> m.encoding # None
        <3>1. CASE m = Frame("Other")
            BY <3>1, FrameType
        <3>2. CASE m # Frame("Other")
            <4>1. PICK e \in Enc : m = [op |-> "HelloAck", encoding |-> e, ms |-> IntervalMs]
                BY <2>1, <3>2
            <4> QED
                BY <2>2, <4>1, NoneAssumption DEF Msg
        <3> QED
            BY <3>1, <3>2
    <2>4. /\ foreign = "server" /\ Greeted("server", "Hello")
          /\ task' = [task EXCEPT !["server"] = "running"]
          /\ UNCHANGED <<configVars, lost, deadline, ready_tx, readyVars, awaitVars, reader>>
        BY <1>2 DEF ForeignHandshake
    <2> QED
        BY <2>1, <2>3, <2>4, AnswerIInv
<1> QED
    BY <1>1, <1>2

(* The client takes the answer to its Hello. *)
LEMMA ClientHandshakeIInv ==
    ASSUME IInv, ClientHandshake \/ ClientRefused
    PROVE  IInv'
<1> USE DEF configVars, readyVars, awaitVars, Side
<1> DEFINE ack == wire["client"][1]
<1>1. /\ wire["client"] # <<>> /\ wire["client"] \in Seq(Msg) /\ Lone(wire["client"])
      /\ wire["server"] = <<>> /\ task["client"] = "greeting"
      /\ wire' = [wire EXCEPT !["client"] = Tail(@)]
    BY DEF IInv, TypeOK, InFlight, ClientHandshake, ClientRefused, Greeted
<1>2. Tail(wire["client"]) = <<>> /\ Head(wire["client"]) = ack /\ ack \in Msg
    BY <1>1, LoneTaken
<1>3. wire' = [wire EXCEPT !["client"] = <<>>]
    BY <1>1, <1>2 DEF IInv, TypeOK
<1>4. wire' \in [Side -> Seq(Msg)] /\ wire'["client"] = <<>> /\ wire'["server"] = <<>>
    BY <1>1, <1>3, EmptySeq DEF IInv, TypeOK
<1>5. ack.encoding \in Enc \cup {None}
    BY <1>2 DEF Msg
<1>6. ready_tx # "sent" /\ settings["client"] = None /\ ready = FALSE /\ readyTask \in {"waiting", "gone"}
    BY <1>1 DEF IInv, TypeOK, Heard
<1>7. task["server"] \in {"running", "closed"}
    BY <1>1, <1>2 DEF IInv, InFlight, TypeOK, ClientHandshake, ClientRefused, Greeted
<1> HIDE DEF ack
<1>8. CASE ClientHandshake /\ Supports("client", ack.encoding) /\ readyTask # "gone"
    <2>1. /\ settings' = [settings EXCEPT !["client"] = ack.encoding]
          /\ ready_tx' = "sent"
          /\ task' = [task EXCEPT !["client"] = IF ack.ms = 0 THEN "closed" ELSE "running"]
          /\ UNCHANGED <<configVars, lost, deadline, readyVars, awaitVars, reader>>
        BY <1>2, <1>8 DEF ClientHandshake
    <2>2. ack.encoding = settings["server"] /\ settings["server"] # None
        BY <1>1, <1>2, <1>8 DEF IInv, Settled, ClientHandshake, Greeted, ack
    <2>3. TypeOK' /\ lost' = 0
        BY <1>4, <1>5, <2>1 DEF IInv, TypeOK
    <2>4. InFlight'
        BY <1>4, <1>7, <2>1 DEF IInv, TypeOK, InFlight, Lone
    <2>5. Settled'
        BY <1>4, <1>7, <2>1 DEF IInv, TypeOK, Settled
    <2>6. EncodingAgreed'
        BY <1>8, <2>1, <2>2 DEF IInv, TypeOK, EncodingAgreed, Supports
    <2>7. Heard'
        BY <1>6, <1>8, <2>1, <2>2 DEF IInv, TypeOK, Heard
    <2> QED
        BY <2>3, <2>4, <2>5, <2>6, <2>7 DEF IInv
<1>9. CASE ~(ClientHandshake /\ Supports("client", ack.encoding) /\ readyTask # "gone")
    <2>1. /\ task' = [task EXCEPT !["client"] = "closed"]
          /\ ready_tx' = IF ready_tx = "open" THEN "dropped" ELSE ready_tx
          /\ UNCHANGED <<configVars, lost, settings, deadline, readyVars, awaitVars, reader>>
        BY <1>2, <1>9 DEF ClientHandshake, ClientRefused, TaskEnds
    <2>2. TypeOK' /\ lost' = 0
        BY <1>4, <2>1 DEF IInv, TypeOK
    <2>3. InFlight'
        BY <1>4, <1>7, <2>1 DEF IInv, TypeOK, InFlight, Lone
    <2>4. Settled' /\ EncodingAgreed'
        BY <1>4, <2>1 DEF IInv, TypeOK, Settled, EncodingAgreed, Supports
    <2>5. Heard'
        BY <1>6, <2>1 DEF IInv, TypeOK, Heard
    <2> QED
        BY <2>2, <2>3, <2>4, <2>5 DEF IInv
<1> QED
    BY <1>8, <1>9

(* The ways in which a connection task ends before or while it runs. *)
LEMMA EndIInv ==
    ASSUME IInv,
           ConnectFails \/ \E s \in Side : PeerGone(s) \/ NegotiateTimeout(s) \/ ConnectionEnds(s)
    PROVE  IInv'
<1>1. CASE ConnectFails
    BY <1>1, TaskEndsIInv DEF ConnectFails, Side
<1>2. CASE \E s \in Side : PeerGone(s) \/ NegotiateTimeout(s) \/ ConnectionEnds(s)
    <2>1. PICK s \in Side : PeerGone(s) \/ NegotiateTimeout(s) \/ ConnectionEnds(s)
        BY <1>2
    <2>2. task[s] # "idle" /\ TaskEnds(s)
        BY <2>1 DEF PeerGone, NegotiateTimeout, ConnectionEnds, Handshaking
    <2>3. UNCHANGED <<configVars, wire, lost, settings, deadline, readyVars, awaitVars, reader>>
        BY <2>1 DEF PeerGone, NegotiateTimeout, ConnectionEnds
    <2> QED
        BY <2>2, <2>3, TaskEndsIInv
<1> QED
    BY <1>1, <1>2

(* A step that leaves the connection tasks alone need only keep the types     *)
(* and what the ready task has heard.                                        *)
LEMMA TasksUntouched ==
    ASSUME IInv, UNCHANGED <<configVars, taskVars>>, TypeOK', Heard'
    PROVE  IInv'
<1> USE DEF configVars, taskVars
<1>1. InFlight'
    BY DEF IInv, InFlight
<1>2. Settled' /\ EncodingAgreed'
    BY DEF IInv, Settled, EncodingAgreed, Supports
<1> QED
    BY <1>1, <1>2 DEF IInv

(* The clock, and the task that start_connect spawned. *)
LEMMA ReadyTaskIInv ==
    ASSUME IInv, ReadyTask \/ \E s \in Side : DeadlinePasses(s)
    PROVE  IInv'
<1> USE DEF configVars, taskVars, readyVars, awaitVars
<1>1. CASE \E s \in Side : DeadlinePasses(s)
    <2>1. TypeOK' /\ Heard' /\ UNCHANGED <<configVars, taskVars>>
        BY <1>1 DEF IInv, TypeOK, Heard, DeadlinePasses
    <2> QED
        BY <2>1, TasksUntouched
<1>2. CASE WriteEncoding
    <2>1. TypeOK' /\ Heard' /\ UNCHANGED <<configVars, taskVars>>
        BY <1>2 DEF IInv, TypeOK, Heard, WriteEncoding, Side
    <2> QED
        BY <2>1, TasksUntouched
<1>3. CASE StoreReady
    <2>1. TypeOK' /\ Heard' /\ UNCHANGED <<configVars, taskVars>>
        BY <1>3 DEF IInv, TypeOK, Heard, StoreReady
    <2> QED
        BY <2>1, TasksUntouched
<1>4. CASE ReadyTaskFails
    <2>1. TypeOK'
        BY <1>4, EmptySeq DEF IInv, TypeOK, ReadyTaskFails
    <2>2. Heard' /\ UNCHANGED <<configVars, taskVars>>
        BY <1>4 DEF IInv, TypeOK, Heard, ReadyTaskFails
    <2> QED
        BY <2>1, <2>2, TasksUntouched
<1>5. CASE ServeWaiter
    <2>1. Head(waiterQueue) \in Caller /\ Tail(waiterQueue) \in Seq(Caller)
        BY <1>5, HeadTailProperties DEF IInv, TypeOK, ServeWaiter
    <2>2. parked' \in Seq(Caller)
        BY <1>5, HeadTailProperties DEF IInv, TypeOK, ServeWaiter
    <2>3. TypeOK'
        BY <1>5, <2>1, <2>2 DEF IInv, TypeOK, ServeWaiter
    <2>4. ready
        BY <1>5 DEF IInv, Heard, ServeWaiter
    <2>5. Heard' /\ UNCHANGED <<configVars, taskVars>>
        BY <1>5, <2>1, <2>4 DEF IInv, TypeOK, Heard, ServeWaiter
    <2> QED
        BY <2>3, <2>5, TasksUntouched
<1> QED
    BY <1>1, <1>2, <1>3, <1>4, <1>5 DEF ReadyTask

(* The callers of await_ready and encoding. *)
LEMMA CallerIInv ==
    ASSUME IInv,
           ReadFlag \/ ReadEncoding \/ \E k \in Caller : AwaitReady(k) \/ Await(k)
    PROVE  IInv'
<1> USE DEF configVars, taskVars, readyVars, awaitVars
<1>1. CASE ReadFlag \/ ReadEncoding
    <2>1. TypeOK' /\ UNCHANGED <<configVars, taskVars>>
        BY <1>1 DEF IInv, TypeOK, ReadFlag, ReadEncoding
    <2>2. reader = "sawReady" => encoding # None
        BY DEF IInv, Heard
    <2>3. Heard'
        BY <1>1, <2>2 DEF IInv, TypeOK, Heard, ReadFlag, ReadEncoding
    <2> QED
        BY <2>1, <2>3, TasksUntouched
<1>2. ASSUME NEW k \in Caller, AwaitReady(k) PROVE IInv'
    <2>1. Append(waiterQueue, k) \in Seq(Caller) /\ Append(parked, k) \in Seq(Caller)
        BY DEF IInv, TypeOK
    <2>2. TypeOK' /\ UNCHANGED <<configVars, taskVars>>
        BY <1>2, <2>1 DEF IInv, TypeOK, AwaitReady, Returned
    <2>3. Heard'
        BY <1>2 DEF IInv, TypeOK, Heard, AwaitReady
    <2> QED
        BY <2>2, <2>3, TasksUntouched
<1>3. ASSUME NEW k \in Caller, Await(k) PROVE IInv'
    <2>1. PICK o \in {"waiting", "ok", "TimedOut", "ConnectionClosed"} :
            Return(k, o) /\ (o = "ok" => told[k] = "sent")
        BY <1>3 DEF Await, Flushed, Told, AwaitTimeout
    <2>2. TypeOK' /\ UNCHANGED <<configVars, taskVars>>
        BY <2>1 DEF IInv, TypeOK, Return, Returned
    <2>3. Heard'
        BY <2>1 DEF IInv, TypeOK, Heard, Return
    <2> QED
        BY <2>2, <2>3, TasksUntouched
<1> QED
    BY <1>1, <1>2, <1>3

(* IInv is inductive. *)
LEMMA NextIInv == IInv /\ [Next]_vars => IInv'
<1> SUFFICES ASSUME IInv, [Next]_vars PROVE IInv'
    OBVIOUS
<1>1. CASE Next
    BY <1>1, ConnectIInv, EndIInv, UpgradeIInv, ServerHandshakeIInv, ClientHandshakeIInv,
       ReadyTaskIInv, CallerIInv
    DEF Next, ClientTask, ServerTask
<1>2. CASE UNCHANGED vars
    <2>1. TypeOK' /\ Heard'
        BY <1>2 DEF IInv, TypeOK, Heard, vars, configVars, taskVars, readyVars, awaitVars
    <2> QED
        BY <1>2, <2>1, TasksUntouched DEF vars
<1> QED
    BY <1>1, <1>2

(* What the run checks follows from IInv. *)
LEMMA IInvImplies == IInv => EncodingAgreed /\ HandshakeInv
<1> SUFFICES ASSUME IInv PROVE HandshakeInv
    BY DEF IInv
<1>1. TypeOK /\ NothingLostAtUpgrade
    BY DEF IInv, NothingLostAtUpgrade
<1>2. RunningIsHeard
    BY DEF IInv, Heard, RunningIsHeard
<1>3. ReadyMeansEncoding
    BY DEF IInv, Heard, ReadyMeansEncoding
<1> QED
    BY <1>1, <1>2, <1>3 DEF HandshakeInv

(* negotiate_encoding and handle_handshake_hello_ack, for every pair of       *)
(* configurations and a peer of any make: the client never runs with another  *)
(* encoding than the server or with one it does not support, and between Rust *)
(* ends it is the first of the client's that the server supports.             *)
THEOREM EncodingIsAgreed == Spec => []EncodingAgreed
<1>1. Spec => []IInv
    BY InitIInv, NextIInv, PTL DEF Spec
<1> QED
    BY <1>1, IInvImplies, PTL

(* The handshake loses no frame at the upgrade, leaves no client running that *)
(* its ready task does not hear of, and tells nobody ready who is not; and    *)
(* its states are well typed (the interval fits its 32 bits).                 *)
THEOREM HandshakeIsSound == Spec => []HandshakeInv
<1>1. Spec => []IInv
    BY InitIInv, NextIInv, PTL DEF Spec
<1> QED
    BY <1>1, IInvImplies, PTL
=============================================================================
