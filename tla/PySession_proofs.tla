--------------------------- MODULE PySession_proofs ---------------------------
(***************************************************************************)
(* Proofs about a Python session, as client and as server: answers find    *)
(* their callers, the table of requests in flight is the callers', the run *)
(* loop never sleeps on bytes that it should send, a session that drains   *)
(* owes nobody who came in before, and a pong that was heard counts.  They *)
(* are for any calls, any scenarios and any room in the socket.            *)
(***************************************************************************)
EXTENDS PySession, FiniteSetTheorems, SequenceTheorems, WellFoundedInduction, TLAPS

N == Cardinality(Call)

Msg ==
  [op: {"hello", "hello_ack", "unknown_encoder", "ping", "pong", "request",
        "response", "error", "push", "goaway", "oversized", "rest"},
   seq: 0..N, call: Call \cup {NoCall, Garbled}]

\* What a client and what a server puts on the wire.
ClientSays ==
  {"hello", "unknown_encoder", "ping", "pong", "request", "push", "goaway",
   "oversized", "rest"}
ServerSays ==
  {"hello_ack", "unknown_encoder", "ping", "pong", "response", "error", "push",
   "goaway", "oversized", "rest"}

-----------------------------------------------------------------------------
(* The books: numbers of calls bound the counters                          *)

\* Calls that have asked for their switch, calls that have drawn a number, and
\* requests that the peer has numbered.
Spent(cs) ==
  {c \in Call : cs[c][1] \notin {"idle", "await_ready", "coming", "deferred"}}
Numbered(cs) ==
  {c \in Call : cs[c][1] \in {"waiting", "answered", "error", "terminated"}}
Sent(num) == {c \in Call : num[c] # 0}

Makes(c) == c \in scenario.pushes \/ (IsClient /\ c \in scenario.requests)

NumOK(cs, num) ==
  /\ num \in [Call -> 0..N]
  /\ \A c \in Call : cs[c] = At("idle") => num[c] = 0
  /\ \A c \in Call : num[c] <= Cardinality(Sent(num))
  /\ \A c, d \in Call : num[c] = num[d] /\ num[c] # 0 => c = d

-----------------------------------------------------------------------------
(* The table and the frames on their way, of a session t with calls cs     *)
(* before it handles the frames q, when o is what it has written           *)

Holds(t, n, c) == n \in DOMAIN t.inflight /\ t.inflight[n] = c

\* The frame f is of the call that its number stands for.
Owed(t, f) ==
  f.seq \in 1..t.seq /\ (f.seq \in DOMAIN t.inflight => t.inflight[f.seq] = f.call)

ClientTable(t, cs) ==
  /\ t.ping = 0 /\ t.shared = {}
  /\ t.ponged \/ Holds(t, 0, NoCall)
  /\ t.heard => t.ponged
  /\ 0 \in DOMAIN t.inflight => t.inflight[0] = NoCall
  /\ \A n \in DOMAIN t.inflight \ {0} :
       n <= t.seq /\ t.inflight[n] \in Call /\ cs[t.inflight[n]] = At("waiting")
  /\ \A m, n \in DOMAIN t.inflight : t.inflight[m] = t.inflight[n] => m = n
  /\ \A c \in Call :
       /\ cs[c] = At("waiting") => \E n \in DOMAIN t.inflight : t.inflight[n] = c
       /\ cs[c] # At("deferred")

ClientFrames(t, q, o, todo) ==
  /\ \A i \in DOMAIN o :
       /\ o[i].op \in ClientSays
       /\ o[i].op = "request" => Owed(t, o[i])
       /\ o[i].op = "ping" => o[i].seq = 0
  /\ \A f \in todo : Owed(t, f)
  /\ \A i \in DOMAIN q :
       /\ q[i].op \in ServerSays \ {"push"}
       /\ q[i].op \in {"response", "error"} => Owed(t, q[i])
       /\ q[i].op = "pong" => q[i].seq = 0

\* Once the decoder has failed, a frame that nobody sent may take an entry, or
\* answer the ping.
ServerTable(t, cs, num) ==
  /\ \A n \in DOMAIN t.inflight : t.inflight[n] \in Call =>
       /\ n >= 1 /\ num[t.inflight[n]] = n
       /\ t.shutting \/ cs[t.inflight[n]] = At("deferred")
  /\ \A c \in Call : cs[c] = At("deferred") => c \in t.shared \/ Holds(t, num[c], c)
  /\ \/ t.ponged \/ Holds(t, t.ping, NoCall) \/ t.misread
     \/ \E c \in t.shared : num[c] = t.ping
  /\ t.heard => t.ponged \/ t.shared # {} \/ t.misread
  /\ \A c \in t.shared : num[c] # 0
  /\ \A c \in Call : cs[c] # At("waiting")

\* A request that comes is in one place, and so is the ping or its pong.
ServerFrames(t, cs, q, o, num) ==
  /\ \A i \in DOMAIN o :
       /\ o[i].op \in ServerSays
       /\ o[i].op = "ping" => o[i].seq = t.ping /\ (t.misread \/ ~t.ponged)
  /\ \A i \in DOMAIN q :
       /\ q[i].op \in ClientSays \ {"push"}
       /\ q[i].op = "pong" => q[i].seq = t.ping /\ (t.misread \/ ~t.ponged)
       /\ q[i].op = "request" =>
            /\ q[i].call \in Call /\ cs[q[i].call] = At("coming")
            /\ q[i].seq >= 1 /\ q[i].seq = num[q[i].call]
  /\ \A i, j \in DOMAIN q :
       /\ q[i].op = "request" /\ q[j].op = "request" /\ q[i].call = q[j].call => i = j
       /\ q[i].op = "pong" /\ q[j].op = "pong" => i = j
  /\ \A i, j \in DOMAIN o : o[i].op = "ping" /\ o[j].op = "ping" => i = j
  /\ \A i \in DOMAIN o, j \in DOMAIN q : ~(o[i].op = "ping" /\ q[j].op = "pong")

\* Whose answers the calls got.
Own(t, cs) ==
  \A c \in Call : cs[c][1] \in {"answered", "error"} =>
                   cs[c][2] = c \/ (cs[c][2] = Garbled /\ t.misread)

\* The calls of an open session.
Open(t, cs) == Own(t, cs) /\ \A c \in Call : cs[c] # At("terminated")

ClientOK(t, cs, q, p, todo) ==
  /\ t \in Session /\ t.sock /\ cs \in [Call -> CallState] /\ q \in Seq(Msg)
  /\ Open(t, cs) /\ ClientTable(t, cs) /\ ClientFrames(t, q, p \o t.out, todo)

ServerOK(t, cs, q, p, num) ==
  /\ t \in Session /\ t.sock /\ cs \in [Call -> CallState] /\ q \in Seq(Msg)
  /\ Open(t, cs) /\ ServerTable(t, cs, num) /\ ServerFrames(t, cs, q, p \o t.out, num)

-----------------------------------------------------------------------------
(* The inductive invariant, of a session t, calls cs, k switches, the      *)
(* input q, the kernel's p and the peer pr                                 *)

Peers ==
  [todo: SUBSET Msg, num: [Call -> 0..N], muted: BOOLEAN,
   left: SUBSET {"ping", "goaway", "close", "mute", "error", "unknown_encoder",
                 "oversized", "rest"}]

Flags == [read: BOOLEAN, write: BOOLEAN, blocked: BOOLEAN, switching: BOOLEAN]

Core(t, cs, q, p, pr) ==
  IF IsClient THEN ClientOK(t, cs, q, p, pr.todo)
  ELSE pr.todo = {} /\ ServerOK(t, cs, q, p, pr.num)

Typed(t, cs, q, p, pr) ==
  /\ t \in Session /\ cs \in [Call -> CallState] /\ pr \in Peers
  /\ q \in Seq(Msg) /\ p \in Seq(Msg) /\ Len(p) <= TxCap

Books(t, cs, k, num) ==
  /\ \A c \in Call : cs[c] = At("await_ready") => Makes(c)
  /\ IsClient => t.seq <= Cardinality(Numbered(cs))
  /\ k \in Nat /\ k <= Cardinality(Spent(cs)) + IF t.sock THEN 1 ELSE 2
  /\ NumOK(cs, num)

\* What is so for ever: whose answers the calls got, and why it was closed.
Fair(t, cs) ==
  /\ Own(t, cs)
  /\ t.wronged => t.shared # {}
  /\ t.misread => t.shutting

\* Who waits, or is in the table, after the end came in after the end.
Told(t, cs) ==
  ~t.sock =>
    /\ \A c \in Call :
         IsClient /\ scenario.python = 2 /\ cs[c] = At("waiting") => c \in t.late
    /\ \A n \in DOMAIN t.inflight : t.inflight[n] \in t.late

Good(t, cs, k, q, p, pr) ==
  /\ Typed(t, cs, q, p, pr)
  /\ Books(t, cs, k, pr.num)
  /\ Fair(t, cs) /\ Told(t, cs)
  /\ t.sock => Core(t, cs, q, p, pr)

\* A session that has ended because it was drained, d.
Ended(d, t, cs) ==
  d => /\ ~t.sock
       /\ \A c \in Call :
            /\ cs[c] \in {At("terminated"), At("waiting")} => c \in t.late
            /\ cs[c] = At("deferred") => c \in t.shared

\* The flags f of the watcher and the write watcher w, while the loop l sleeps.
Watched(t, f, w, l, k) ==
  t.sock /\ l = "wait" =>
    /\ f.read \/ f.write \/ f.blocked \/ f.switching => w
    /\ w => t.out # <<>>
    /\ (\E i \in DOMAIN t.out : t.out[i].op # "goaway") => k > 0 \/ w

Plain ==
  /\ scenario \in Scenarios /\ watcher \in Flags
  /\ writing \in BOOLEAN /\ eof \in BOOLEAN /\ drained \in BOOLEAN
  /\ loop \in {"wait", "done"} /\ pinger \in {"wait", "done"}

IInv ==
  /\ Plain
  /\ Good(s, call, switches, rx, tx, peer)
  /\ Ended(drained, s, call)
  /\ Watched(s, watcher, writing, loop, switches)

-----------------------------------------------------------------------------
(* Numbers, sets and queues                                                *)

\* Induction up to a number, from the least number that is left out.
LEMMA UpTo ==
  ASSUME NEW k \in Nat, NEW P, 0 \in P, \A n \in 0..k - 1 : n \in P => n + 1 \in P
  PROVE  0..k \subseteq P
<1> SUFFICES ASSUME ~(0..k \subseteq P) PROVE FALSE
  OBVIOUS
<1> DEFINE T == {n \in 0..k : n \notin P}
<1>1. T \subseteq Nat /\ T # {}
  OBVIOUS
<1>2. PICK x \in T : \A y \in T : ~(<<y, x>> \in OpToRel(<, Nat))
  BY <1>1, NatLessThanWellFounded, WFMin
<1>3. \A y \in T : ~(y < x)
  BY <1>1, <1>2 DEF OpToRel
<1>4. x # 0 /\ x - 1 \in 0..k - 1
  OBVIOUS
<1>5. x - 1 \in P
  BY <1>3, <1>4
<1> QED BY <1>4, <1>5

\* The least of two numbers is one of them.
LEMMA MinOfTwo ==
  ASSUME NEW a \in Nat, NEW b \in Nat
  PROVE  /\ Min({a, b}) \in Nat
         /\ Min({a, b}) <= a /\ Min({a, b}) <= b
         /\ Min({a, b}) = a \/ Min({a, b}) = b
<1>1. CASE a <= b
  <2>1. a \in {a, b} /\ \A y \in {a, b} : a <= y
    BY <1>1
  <2> QED BY <2>1, SMT DEF Min
<1>2. CASE b <= a
  <2>1. b \in {a, b} /\ \A y \in {a, b} : b <= y
    BY <1>2
  <2> QED BY <2>1, SMT DEF Min
<1> QED BY <1>1, <1>2

LEMMA NIsNat == N \in Nat /\ IsFiniteSet(Call)
BY PySessionAssumption, FS_CardinalityType DEF N

\* A set of calls is finite, no larger than Call, and grows with its members.
LEMMA CallSets ==
  \A A, B \in SUBSET Call :
    /\ IsFiniteSet(A) /\ Cardinality(A) \in 0..N
    /\ A \subseteq B => Cardinality(A) <= Cardinality(B)
    /\ \A c \in B \ A : A \subseteq B => Cardinality(A) + 1 <= Cardinality(B)
<1> TAKE A, B \in SUBSET Call
<1>1. IsFiniteSet(A) /\ IsFiniteSet(B) /\ Cardinality(A) <= N
  BY NIsNat, FS_Subset DEF N
<1>2. Cardinality(A) \in 0..N
  BY <1>1, NIsNat, FS_CardinalityType
<1>3. ASSUME A \subseteq B PROVE Cardinality(A) <= Cardinality(B)
  BY <1>1, <1>3, FS_Subset
<1>4. ASSUME NEW c \in B \ A, A \subseteq B
      PROVE  Cardinality(A) + 1 <= Cardinality(B)
  <2>1. IsFiniteSet(A \cup {c}) /\ Cardinality(A \cup {c}) = Cardinality(A) + 1
    BY <1>1, FS_AddElement
  <2>2. A \cup {c} \subseteq B
    BY <1>4
  <2> QED BY <1>1, <2>1, <2>2, FS_Subset
<1> QED BY <1>1, <1>2, <1>3, <1>4

LEMMA AppendFacts ==
  ASSUME NEW S, NEW q \in Seq(S), NEW f \in S
  PROVE  /\ Append(q, f) \in Seq(S) /\ Append(q, f) # <<>>
         /\ DOMAIN Append(q, f) = 1..Len(q) + 1
         /\ DOMAIN q = 1..Len(q) /\ Len(q) \in Nat
         /\ \A i \in DOMAIN q : i \in DOMAIN Append(q, f) /\ Append(q, f)[i] = q[i]
         /\ \A i \in DOMAIN Append(q, f) :
              (i \in DOMAIN q /\ Append(q, f)[i] = q[i]) \/ (i = Len(q) + 1 /\ Append(q, f)[i] = f)
<1>1. Len(q) \in Nat /\ DOMAIN q = 1..Len(q)
  BY LenProperties
<1>2. /\ Append(q, f) \in Seq(S) /\ Append(q, f) # <<>>
      /\ Len(Append(q, f)) = Len(q) + 1
      /\ \A i \in 1..Len(q) : Append(q, f)[i] = q[i]
      /\ Append(q, f)[Len(q) + 1] = f
  BY AppendProperties
<1>3. DOMAIN Append(q, f) = 1..Len(q) + 1
  BY <1>2, LenProperties
<1>4. \A i \in 1..Len(q) + 1 : i \in 1..Len(q) \/ i = Len(q) + 1
  BY <1>1
<1>5. \A i \in 1..Len(q) : i \in 1..Len(q) + 1
  BY <1>1
<1> QED BY <1>1, <1>2, <1>3, <1>4, <1>5, Zenon

LEMMA ConcatAppend ==
  ASSUME NEW S, NEW p \in Seq(S), NEW q \in Seq(S), NEW f \in S
  PROVE  p \o Append(q, f) = Append(p \o q, f)
OBVIOUS

\* The frame f is put last in x, which then is y, behind p.
PutLast(p, x, f, y) == p \o y = Append(p \o x, f) /\ y # <<>>

LEMMA PutsLast ==
  \A p, x \in Seq(Msg) : \A f \in Msg : \A y : y = Append(x, f) => PutLast(p, x, f, y)
<1> SUFFICES ASSUME NEW p \in Seq(Msg), NEW x \in Seq(Msg), NEW f \in Msg
             PROVE  PutLast(p, x, f, Append(x, f))
  OBVIOUS
<1>1. p \o Append(x, f) = Append(p \o x, f) /\ Append(x, f) # <<>>
  BY ConcatAppend, AppendFacts
<1> QED BY <1>1 DEF PutLast

LEMMA ConcatThree ==
  ASSUME NEW S, NEW x \in Seq(S), NEW y \in Seq(S), NEW z \in Seq(S)
  PROVE  (x \o y) \o z = x \o (y \o z)
BY ConcatAssociative

LEMMA ConcatOne ==
  ASSUME NEW S, NEW q \in Seq(S), NEW f \in S
  PROVE  q \o <<f>> = Append(q, f)
OBVIOUS

\* The end of a queue.
Suffix(p, q) ==
  \E k \in Nat : /\ Len(q) = Len(p) + k
                 /\ \A i \in 1..Len(p) : p[i] = q[i + k]

LEMMA SuffixTypes ==
  ASSUME NEW S, NEW p \in Seq(S), NEW q \in Seq(S), Suffix(p, q)
  PROVE  \E k \in Nat :
           \A i \in DOMAIN p : i + k \in DOMAIN q /\ p[i] = q[i + k]
<1>1. DOMAIN p = 1..Len(p) /\ DOMAIN q = 1..Len(q) /\ Len(p) \in Nat
  BY LenProperties
<1>2. PICK k \in Nat : Len(q) = Len(p) + k /\ \A i \in 1..Len(p) : p[i] = q[i + k]
  BY DEF Suffix
<1>3. \A i \in DOMAIN p : i + k \in DOMAIN q /\ p[i] = q[i + k]
  BY <1>1, <1>2
<1> QED BY <1>3

LEMMA TailSuffix ==
  ASSUME NEW S, NEW q \in Seq(S), q # <<>>
  PROVE  Tail(q) \in Seq(S) /\ Suffix(Tail(q), q)
<1>1. Tail(q) \in Seq(S) /\ Len(Tail(q)) = Len(q) - 1 /\ Len(q) >= 1
      /\ \A i \in 1..Len(Tail(q)) : Tail(q)[i] = q[i + 1]
  OBVIOUS
<1> QED BY <1>1 DEF Suffix

LEMMA ConcatSuffix ==
  ASSUME NEW S, NEW p \in Seq(S), NEW q \in Seq(S)
  PROVE  p \o q \in Seq(S) /\ Suffix(q, p \o q)
<1>1. p \o q \in Seq(S) /\ Len(p \o q) = Len(p) + Len(q)
      /\ \A i \in 1..Len(q) : q[i] = (p \o q)[i + Len(p)]
  OBVIOUS
<1> QED BY <1>1 DEF Suffix

LEMMA ConcatTail ==
  ASSUME NEW S, NEW p \in Seq(S), NEW q \in Seq(S), p # <<>>
  PROVE  Tail(p) \o q = Tail(p \o q) /\ Head(p) = Head(p \o q) /\ p \o q # <<>>
OBVIOUS

FrontMoved(S, p, q, n) ==
  /\ SubSeq(q, 1, n) \in Seq(S) /\ Len(SubSeq(q, 1, n)) = n
  /\ SubSeq(q, n + 1, Len(q)) \in Seq(S)
  /\ p \o SubSeq(q, 1, n) \in Seq(S) /\ Len(p \o SubSeq(q, 1, n)) = Len(p) + n
  /\ (p \o SubSeq(q, 1, n)) \o SubSeq(q, n + 1, Len(q)) = p \o q

\* Moving the front of a queue to the end of the one before it changes nothing.
LEMMA MoveFront ==
  ASSUME NEW S, NEW p \in Seq(S), NEW q \in Seq(S), NEW n \in 0..Len(q)
  PROVE  FrontMoved(S, p, q, n)
<1> DEFINE a == SubSeq(q, 1, n)
           b == SubSeq(q, n + 1, Len(q))
<1>1. a \in Seq(S) /\ Len(a) = n /\ \A i \in 1..n : a[i] = q[i]
  OBVIOUS
<1>2. b \in Seq(S) /\ Len(b) = Len(q) - n /\ \A i \in 1..Len(q) - n : b[i] = q[i + n]
  OBVIOUS
<1> HIDE DEF a, b
<1>0. Len(p) \in Nat /\ Len(q) \in Nat /\ n \in Nat /\ Len(q) - n \in Nat
  BY LenProperties
<1>3. /\ p \o a \in Seq(S) /\ Len(p \o a) = Len(p) + n
      /\ \A i \in 1..Len(p) + n : (p \o a)[i] = IF i <= Len(p) THEN p[i] ELSE a[i - Len(p)]
  BY <1>1, ConcatProperties
<1>4. /\ (p \o a) \o b \in Seq(S) /\ Len((p \o a) \o b) = Len(p) + Len(q)
      /\ \A i \in 1..Len(p) + Len(q) :
           ((p \o a) \o b)[i] = IF i <= Len(p) + n THEN (p \o a)[i] ELSE b[i - (Len(p) + n)]
  <2>1. Len(p \o a) + Len(b) = Len(p) + Len(q)
    BY <1>0, <1>2, <1>3
  <2>2. /\ (p \o a) \o b \in Seq(S) /\ Len((p \o a) \o b) = Len(p \o a) + Len(b)
        /\ \A i \in 1..Len(p \o a) + Len(b) :
             ((p \o a) \o b)[i] = IF i <= Len(p \o a) THEN (p \o a)[i] ELSE b[i - Len(p \o a)]
    BY <1>2, <1>3, ConcatProperties
  <2>3. Len(p \o a) = Len(p) + n
    BY <1>3
  <2> QED BY <2>1, <2>2, <2>3
<1>7. /\ p \o q \in Seq(S) /\ Len(p \o q) = Len(p) + Len(q)
      /\ \A i \in 1..Len(p) + Len(q) :
           (p \o q)[i] = IF i <= Len(p) THEN p[i] ELSE q[i - Len(p)]
  BY ConcatProperties
<1>5. ASSUME NEW i \in 1..Len(p) + Len(q) PROVE ((p \o a) \o b)[i] = (p \o q)[i]
  <2>1. CASE i <= Len(p)
    <3>1. i \in 1..Len(p) + n
      BY <1>0, <2>1
    <3> QED BY <1>0, <1>3, <1>4, <1>7, <2>1, <3>1
  <2>2. CASE i > Len(p) /\ i <= Len(p) + n
    <3>1. i \in 1..Len(p) + n /\ i - Len(p) \in 1..n /\ ~(i <= Len(p))
      BY <1>0, <2>2
    <3> QED BY <1>1, <1>3, <1>4, <1>7, <2>2, <3>1
  <2>3. CASE i > Len(p) + n
    <3>1. /\ i - (Len(p) + n) \in 1..Len(q) - n /\ ~(i <= Len(p)) /\ ~(i <= Len(p) + n)
          /\ (i - (Len(p) + n)) + n = i - Len(p)
      BY <1>0, <2>3
    <3> QED BY <1>2, <1>4, <1>7, <3>1
  <2>4. i \in Nat
    BY <1>0
  <2>5. i <= Len(p) \/ (i > Len(p) /\ i <= Len(p) + n) \/ i > Len(p) + n
    BY <1>0, <2>4
  <2> QED BY <2>1, <2>2, <2>3, <2>5, Zenon
<1>6. (p \o a) \o b = p \o q
  BY <1>4, <1>5, <1>7, SeqEqual
<1> QED BY <1>1, <1>2, <1>3, <1>6 DEF a, b, FrontMoved

-----------------------------------------------------------------------------
(* The table and the session                                               *)

Tables == UNION {[D -> Call \cup {NoCall, Garbled}] : D \in SUBSET (0..Cardinality(Call))}

OutMsg ==
  [op: {"hello", "hello_ack", "ping", "pong", "request", "response", "push", "goaway"},
   seq: 0..Cardinality(Call), call: Call \cup {NoCall, Garbled}]

LEMMA SessionDef ==
  Session =
    [sock: BOOLEAN, shutting: BOOLEAN, ready: BOOLEAN,
     timer: {"none", "armed", "done"}, seq: 0..N, ping: 0..N, ponged: BOOLEAN,
     inflight: Tables, out: Seq(OutMsg), heard: BOOLEAN, wronged: BOOLEAN,
     shared: SUBSET Call, misread: BOOLEAN, late: SUBSET Call]
BY Zenon DEF Session, Tables, OutMsg, N

LEMMA TableFacts ==
  ASSUME NEW i \in Tables
  PROVE  /\ DOMAIN i \subseteq 0..N
         /\ \A m \in DOMAIN i : i[m] \in Call \cup {NoCall, Garbled}
<1>1. PICK D \in SUBSET (0..N) : i \in [D -> Call \cup {NoCall, Garbled}]
  BY DEF Tables, N
<1> QED BY <1>1

LEMMA TableMade ==
  ASSUME NEW D \in SUBSET (0..N), NEW i \in [D -> Call \cup {NoCall, Garbled}]
  PROVE  i \in Tables
BY DEF Tables, N

LEMMA EmptyTable == <<>> \in Tables /\ DOMAIN <<>> = {}
<1>1. <<>> \in [{} -> Call \cup {NoCall, Garbled}] /\ DOMAIN <<>> = {}
  OBVIOUS
<1> QED BY <1>1, TableMade

LEMMA PutFacts ==
  ASSUME NEW i \in Tables, NEW n \in 0..N, NEW c \in Call \cup {NoCall, Garbled}
  PROVE  /\ Put(i, n, c) \in Tables
         /\ DOMAIN Put(i, n, c) = DOMAIN i \cup {n}
         /\ Put(i, n, c)[n] = c
         /\ \A m \in DOMAIN i \ {n} : Put(i, n, c)[m] = i[m]
<1> DEFINE j == [m \in DOMAIN i \cup {n} |-> IF m = n THEN c ELSE i[m]]
<1>1. Put(i, n, c) = j
  BY DEF Put
<1>2. j \in [DOMAIN i \cup {n} -> Call \cup {NoCall, Garbled}] /\ DOMAIN i \cup {n} \in SUBSET (0..N)
  BY TableFacts
<1>3. j \in Tables
  <2> HIDE DEF j
  <2> QED BY <1>2, TableMade
<1> QED BY <1>1, <1>3

LEMMA ForgetFacts ==
  ASSUME NEW i \in Tables, NEW n
  PROVE  /\ Forget(i, n) \in Tables
         /\ DOMAIN Forget(i, n) = DOMAIN i \ {n}
         /\ \A m \in DOMAIN i \ {n} : Forget(i, n)[m] = i[m]
<1> DEFINE j == [m \in DOMAIN i \ {n} |-> i[m]]
<1>1. Forget(i, n) = j
  BY DEF Forget, Restrict
<1>2. j \in [DOMAIN i \ {n} -> Call \cup {NoCall, Garbled}] /\ DOMAIN i \ {n} \in SUBSET (0..N)
  BY TableFacts
<1>3. j \in Tables
  <2> HIDE DEF j
  <2> QED BY <1>2, TableMade
<1> QED BY <1>1, <1>3

\* An empty table is the empty sequence.
LEMMA EmptyMeansNone ==
  ASSUME NEW i \in Tables, DOMAIN i = {}
  PROVE  i = <<>>
<1>1. PICK D \in SUBSET (0..N) : i \in [D -> Call \cup {NoCall, Garbled}]
  BY DEF Tables, N
<1>2. i = [x \in {} |-> x] /\ <<>> = [x \in {} |-> x]
  BY <1>1
<1> QED BY <1>2

LEMMA FrameFacts ==
  /\ \A f \in OutMsg : f \in Msg
  /\ \A q \in Seq(OutMsg) : q \in Seq(Msg)
  /\ \A n \in 0..N, c \in Call \cup {NoCall, Garbled} :
       /\ \A op \in {"hello", "hello_ack", "ping", "pong", "request", "response", "push", "goaway"} :
            Frame(op, n, c) \in OutMsg
       /\ \A op \in {"hello", "hello_ack", "unknown_encoder", "ping", "pong", "request",
                     "response", "error", "push", "goaway", "oversized", "rest"} :
            Frame(op, n, c) \in Msg
  /\ \A op, n, c : Frame(op, n, c).op = op /\ Frame(op, n, c).seq = n /\ Frame(op, n, c).call = c
<1>1. \A f \in OutMsg : f \in Msg
  BY DEF OutMsg, Msg, N
<1>2. \A q \in Seq(OutMsg) : q \in Seq(Msg)
  <2> TAKE q \in Seq(OutMsg)
  <2> HIDE DEF OutMsg
  <2>1. q \in [1..Len(q) -> OutMsg] /\ Len(q) \in Nat
    BY LenProperties
  <2>2. q \in [1..Len(q) -> Msg]
    BY <1>1, <2>1
  <2> QED BY <2>1, <2>2, SeqDef
<1>3. \A n \in 0..N, c \in Call \cup {NoCall, Garbled} :
       /\ \A op \in {"hello", "hello_ack", "ping", "pong", "request", "response", "push", "goaway"} :
            Frame(op, n, c) \in OutMsg
       /\ \A op \in {"hello", "hello_ack", "unknown_encoder", "ping", "pong", "request",
                     "response", "error", "push", "goaway", "oversized", "rest"} :
            Frame(op, n, c) \in Msg
  BY DEF Frame, OutMsg, Msg, N
<1>4. \A op, n, c : Frame(op, n, c).op = op /\ Frame(op, n, c).seq = n /\ Frame(op, n, c).call = c
  BY DEF Frame
<1> QED BY <1>1, <1>2, <1>3, <1>4

\* What of a session the two tables speak of.
SameTable(t, u) ==
  /\ u.seq = t.seq /\ u.ping = t.ping /\ u.ponged = t.ponged /\ u.heard = t.heard
  /\ u.inflight = t.inflight /\ u.shared = t.shared
  /\ u.misread = t.misread /\ u.late = t.late

LEMMA EnqueueFacts ==
  ASSUME NEW t \in Session, NEW f \in OutMsg
  PROVE  /\ Enqueue(t, f) \in Session
         /\ Enqueue(t, f).out = Append(t.out, f) /\ Enqueue(t, f).out # <<>>
         /\ Enqueue(t, f).sock = t.sock /\ Enqueue(t, f).shutting = t.shutting
         /\ Enqueue(t, f).ready = t.ready /\ Enqueue(t, f).timer = t.timer
         /\ Enqueue(t, f).wronged = t.wronged
         /\ SameTable(t, Enqueue(t, f))
<1>1. t.out \in Seq(OutMsg)
  BY SessionDef
<1>2. Append(t.out, f) \in Seq(OutMsg) /\ Append(t.out, f) # <<>>
  BY <1>1, AppendProperties
<1>3. Enqueue(t, f) = [t EXCEPT !.out = Append(t.out, f)]
  BY DEF Enqueue
<1> QED BY <1>2, <1>3, SessionDef DEF SameTable

LEMMA CloseFacts ==
  ASSUME NEW t \in Session, NEW a \in BOOLEAN
  PROVE  /\ Close(t, a) \in Session /\ Close(t, a).shutting
         /\ Close(t, a).sock = t.sock /\ Close(t, a).ready = t.ready
         /\ Close(t, a).wronged = t.wronged
         /\ \/ Close(t, a).out = t.out
            \/ a /\ Close(t, a).out = Append(t.out, Frame("goaway", 0, NoCall))
         /\ SameTable(t, Close(t, a))
<1> DEFINE g == Frame("goaway", 0, NoCall)
<1>1. t.out \in Seq(OutMsg) /\ g \in OutMsg
  BY SessionDef, FrameFacts, NIsNat
<1> HIDE DEF g
<1>2. Append(t.out, g) \in Seq(OutMsg)
  BY <1>1, AppendProperties
<1>3. CASE t.shutting
  BY <1>3 DEF Close, SameTable
<1>4. CASE ~t.shutting
  <2>1. PICK out \in Seq(OutMsg) :
          /\ Close(t, a) = [t EXCEPT !.shutting = TRUE, !.timer = "armed", !.out = out]
          /\ out = t.out \/ (a /\ out = Append(t.out, g))
    BY <1>1, <1>2, <1>4 DEF Close, g
  <2> QED BY <2>1, SessionDef DEF SameTable, g
<1> QED BY <1>3, <1>4

\* A handled answer only takes from the table.
Shrinks(t, u) ==
  /\ u.seq = t.seq
  /\ DOMAIN u.inflight \subseteq DOMAIN t.inflight
  /\ \A n \in DOMAIN u.inflight : u.inflight[n] = t.inflight[n]

LEMMA ClientFramesKept ==
  ASSUME NEW t, NEW u, Shrinks(t, u), NEW q \in Seq(Msg), NEW o \in Seq(Msg),
         NEW r \in Seq(Msg), NEW p \in Seq(Msg), Suffix(r, q), Suffix(p, o),
         NEW todo, ClientFrames(t, q, o, todo)
  PROVE  ClientFrames(u, r, p, todo)
<1>1. \A f : Owed(t, f) => Owed(u, f)
  BY DEF Shrinks, Owed
<1>2. PICK k \in Nat : \A i \in DOMAIN r : i + k \in DOMAIN q /\ r[i] = q[i + k]
  BY SuffixTypes
<1>3. PICK l \in Nat : \A i \in DOMAIN p : i + l \in DOMAIN o /\ p[i] = o[i + l]
  BY SuffixTypes
<1> QED BY <1>1, <1>2, <1>3 DEF ClientFrames

LEMMA SuffixSelf == \A q : Len(q) \in Nat => Suffix(q, q)
BY DEF Suffix

LEMMA ClientSends ==
  ASSUME NEW t, NEW q \in Seq(Msg), NEW o \in Seq(Msg), NEW todo,
         ClientFrames(t, q, o, todo), NEW f \in Msg, f.op \in ClientSays,
         f.op = "request" => Owed(t, f), f.op = "ping" => f.seq = 0
  PROVE  ClientFrames(t, q, Append(o, f), todo)
<1>1. \A i \in DOMAIN Append(o, f) :
        (i \in DOMAIN o /\ Append(o, f)[i] = o[i]) \/ Append(o, f)[i] = f
  BY AppendFacts
<1> QED BY <1>1 DEF ClientFrames

LEMMA ClientReceives ==
  ASSUME NEW t, NEW q \in Seq(Msg), NEW o \in Seq(Msg), NEW todo,
         ClientFrames(t, q, o, todo), NEW f \in Msg, f.op \in ServerSays \ {"push"},
         f.op \in {"response", "error"} => Owed(t, f), f.op = "pong" => f.seq = 0
  PROVE  ClientFrames(t, Append(q, f), o, todo)
<1>1. \A i \in DOMAIN Append(q, f) :
        (i \in DOMAIN q /\ Append(q, f)[i] = q[i]) \/ Append(q, f)[i] = f
  BY AppendFacts
<1> QED BY <1>1 DEF ClientFrames

LEMMA ClientTableSame ==
  ASSUME NEW t, NEW u, NEW cs, SameTable(t, u), ClientTable(t, cs)
  PROVE  ClientTable(u, cs)
BY DEF SameTable, ClientTable, Holds

-----------------------------------------------------------------------------
(* What handling an event does to the calls and to the rest of the session *)

Onward(cs, ds) ==
  \A c \in Call :
    /\ ds[c] = At("idle") => cs[c] = At("idle")
    /\ ds[c] = At("await_ready") => cs[c] = At("await_ready")
    /\ c \in Spent(cs) => c \in Spent(ds)
    /\ c \in Numbered(cs) => c \in Numbered(ds)

Along(t, u) ==
  /\ u.sock = t.sock /\ u.seq = t.seq /\ u.wronged = t.wronged
  /\ t.shared \subseteq u.shared /\ u.late = t.late
  /\ t.shutting => u.shutting
  /\ t.misread => u.misread
  /\ u.misread => t.misread \/ u.shutting
  /\ t.out # <<>> => u.out # <<>>

LEMMA AlongSteps ==
  /\ \A t : Along(t, t)
  /\ \A t, u, v : Along(t, u) /\ Along(u, v) => Along(t, v)
  /\ \A cs : Onward(cs, cs)
  /\ \A cs, ds, es : Onward(cs, ds) /\ Onward(ds, es) => Onward(cs, es)
BY DEF Along, Onward

LEMMA AfterFacts ==
  \A t, cs : /\ After(t, cs).session = t /\ After(t, cs).calls = cs /\ After(t, cs).raised = FALSE
            /\ Raise(t, cs).session = t /\ Raise(t, cs).calls = cs /\ Raise(t, cs).raised = TRUE
BY DEF After, Raise

LEMMA CallFacts ==
  ASSUME NEW cs \in [Call -> CallState]
  PROVE  \A c \in Call : \E place, d :
           /\ cs[c] = <<place, d>>
           /\ \/ d = NoCall /\ place \in {"idle", "await_ready", "waiting", "sent", "terminated",
                   "refused", "coming", "deferred", "responded", "dropped"}
              \/ d \in Call \cup {Garbled} /\ place \in {"answered", "error"}
BY DEF CallState

LEMMA CallSet ==
  ASSUME NEW cs \in [Call -> CallState], NEW c \in Call, NEW x \in CallState
  PROVE  /\ [cs EXCEPT ![c] = x] \in [Call -> CallState]
         /\ [cs EXCEPT ![c] = x][c] = x
         /\ \A d \in Call \ {c} : [cs EXCEPT ![c] = x][d] = cs[d]
OBVIOUS

LEMMA AtFacts ==
  /\ \A place \in {"idle", "await_ready", "waiting", "sent", "terminated",
                   "refused", "coming", "deferred", "responded", "dropped"} :
       At(place) \in CallState
  /\ \A place \in {"answered", "error"}, c \in Call \cup {Garbled} : <<place, c>> \in CallState
  /\ \A place : At(place)[1] = place /\ At(place)[2] = NoCall
  /\ \A x, y : At(x) = At(y) => x = y
<1>1. \A place : At(place) = <<place, NoCall>>
  BY DEF At
<1>2. \A place \in {"idle", "await_ready", "waiting", "sent", "terminated",
                   "refused", "coming", "deferred", "responded", "dropped"} :
       At(place) \in CallState
  BY DEF At, CallState
<1>3. \A place \in {"answered", "error"}, c \in Call \cup {Garbled} : <<place, c>> \in CallState
  BY DEF CallState
<1> QED BY <1>1, <1>2, <1>3

\* A call that moves between places that are spent, or from one that is not.
LEMMA OnwardSet ==
  ASSUME NEW cs \in [Call -> CallState], NEW c \in Call, NEW x \in CallState,
         x[1] \notin {"idle", "await_ready"},
         \/ cs[c] = At("waiting") /\ x[1] \in {"answered", "error", "terminated"}
         \/ cs[c][1] \in {"coming", "deferred", "idle", "await_ready"}
  PROVE  Onward(cs, [cs EXCEPT ![c] = x])
<1>1. /\ [cs EXCEPT ![c] = x][c] = x
      /\ \A d \in Call \ {c} : [cs EXCEPT ![c] = x][d] = cs[d]
  BY CallSet
<1>2. x # At("idle") /\ x # At("await_ready")
  BY AtFacts
<1>3. c \in Spent(cs) => x[1] \notin {"idle", "await_ready", "coming", "deferred"}
  BY AtFacts DEF Spent
<1>4. c \in Numbered(cs) => x[1] \in {"waiting", "answered", "error", "terminated"}
  BY AtFacts DEF Numbered
<1> QED BY <1>1, <1>2, <1>3, <1>4 DEF Onward, Spent, Numbered

-----------------------------------------------------------------------------
(* Events of a client                                                      *)

\* The entry of n leaves the table.
Takes(t, u, n) ==
  /\ u \in Session /\ u.inflight = Forget(t.inflight, n)
  /\ u.sock = t.sock /\ u.out = t.out /\ u.seq = t.seq /\ u.ping = t.ping
  /\ u.shared = t.shared /\ u.wronged = t.wronged /\ u.shutting = t.shutting
  /\ u.misread = t.misread /\ u.late = t.late

\* What the session of the handler may be: with a pong heard or not, and the ping
\* answered or not.
LEMMA TakesFacts ==
  ASSUME NEW t \in Session, NEW n, NEW u,
         \/ u = [t EXCEPT !.inflight = Forget(t.inflight, n)]
         \/ u = [t EXCEPT !.inflight = Forget(t.inflight, n), !.ponged = TRUE]
         \/ \E h \in BOOLEAN :
              \/ u = [t EXCEPT !.inflight = Forget(t.inflight, n), !.heard = h]
              \/ u = [t EXCEPT !.inflight = Forget(t.inflight, n), !.heard = h, !.ponged = TRUE]
  PROVE  Takes(t, u, n)
<1> DEFINE j == Forget(t.inflight, n)
<1>1. j \in Tables
  BY SessionDef, ForgetFacts
<1> DEFINE Goal ==
             /\ u \in Session /\ u.inflight = j
             /\ u.sock = t.sock /\ u.out = t.out /\ u.seq = t.seq /\ u.ping = t.ping
             /\ u.shared = t.shared /\ u.wronged = t.wronged /\ u.shutting = t.shutting
             /\ u.misread = t.misread /\ u.late = t.late
<1>2. ASSUME u = [t EXCEPT !.inflight = j] PROVE Goal
  <2> HIDE DEF j
  <2> QED BY <1>1, <1>2, SessionDef
<1>3. ASSUME u = [t EXCEPT !.inflight = j, !.ponged = TRUE] PROVE Goal
  <2> HIDE DEF j
  <2> QED BY <1>1, <1>3, SessionDef
<1>4. ASSUME NEW h \in BOOLEAN, u = [t EXCEPT !.inflight = j, !.heard = h] PROVE Goal
  <2> HIDE DEF j
  <2> QED BY <1>1, <1>4, SessionDef
<1>5. ASSUME NEW h \in BOOLEAN, u = [t EXCEPT !.inflight = j, !.heard = h, !.ponged = TRUE]
      PROVE  Goal
  <2> HIDE DEF j
  <2> QED BY <1>1, <1>5, SessionDef
<1>6. Goal
  <2> HIDE DEF Goal
  <2> QED BY <1>2, <1>3, <1>4, <1>5
<1> QED BY <1>6 DEF Takes

LEMMA ClientFramesTaken ==
  ASSUME NEW t, NEW cs, NEW q, NEW p \in Seq(Msg), NEW todo, ClientOK(t, cs, q, p, todo),
         NEW n, NEW u, Takes(t, u, n)
  PROVE  ClientFrames(u, q, p \o u.out, todo)
<1>1. /\ t \in Session /\ q \in Seq(Msg) /\ ClientFrames(t, q, p \o t.out, todo)
      /\ u.inflight = Forget(t.inflight, n) /\ u.out = t.out /\ u.seq = t.seq
  BY DEF ClientOK, Takes
<1>2. Shrinks(t, u)
  <2> DEFINE i == t.inflight
  <2>1. i \in Tables
    BY <1>1, SessionDef
  <2>2. /\ DOMAIN Forget(i, n) = DOMAIN i \ {n}
        /\ \A m \in DOMAIN i \ {n} : Forget(i, n)[m] = i[m]
    BY <2>1, ForgetFacts
  <2> QED BY <1>1, <2>2 DEF Shrinks
<1> DEFINE o == p \o t.out
<1>3. o \in Seq(Msg)
  BY <1>1, SessionDef, FrameFacts, ConcatProperties
<1> HIDE DEF o
<1>4. Suffix(q, q) /\ Suffix(o, o)
  BY <1>1, <1>3, SuffixSelf, LenProperties
<1>5. ClientFrames(t, q, o, todo)
  BY <1>1 DEF o
<1>6. ClientFrames(u, q, o, todo)
  BY <1>1, <1>2, <1>3, <1>4, <1>5, ClientFramesKept
<1> QED BY <1>1, <1>6 DEF o

\* A result d is handed to the call that the number n stands for.
LEMMA ClientTakes ==
  ASSUME NEW t, NEW cs, NEW q, NEW p \in Seq(Msg), NEW todo, ClientOK(t, cs, q, p, todo),
         NEW n \in DOMAIN t.inflight, t.inflight[n] \in Call,
         NEW place \in {"answered", "error"}, NEW d,
         d = t.inflight[n] \/ (d = Garbled /\ t.misread),
         NEW u, Takes(t, u, n), u.ponged = t.ponged, u.heard = t.heard
  PROVE  /\ ClientOK(u, [cs EXCEPT ![t.inflight[n]] = <<place, d>>], q, p, todo)
         /\ Along(t, u) /\ Onward(cs, [cs EXCEPT ![t.inflight[n]] = <<place, d>>])
<1> DEFINE i == t.inflight
           ds == [cs EXCEPT ![i[n]] = <<place, d>>]
<1>1. i \in Tables /\ t \in Session /\ t.sock /\ cs \in [Call -> CallState] /\ q \in Seq(Msg)
  BY SessionDef DEF ClientOK
<1>2. i[n] # NoCall /\ n # 0
  BY PySessionAssumption DEF ClientOK, ClientTable
<1>3. cs[i[n]] = At("waiting")
  BY <1>2 DEF ClientOK, ClientTable
<1>4. /\ DOMAIN Forget(i, n) = DOMAIN i \ {n}
      /\ \A m \in DOMAIN i \ {n} : Forget(i, n)[m] = i[m]
  BY <1>1, ForgetFacts
<1>5. /\ u \in Session /\ u.inflight = Forget(i, n) /\ u.sock = t.sock /\ u.out = t.out
      /\ u.seq = t.seq /\ u.ping = t.ping /\ u.ponged = t.ponged /\ u.heard = t.heard
      /\ u.shared = t.shared /\ u.misread = t.misread
  BY DEF Takes
<1>6. <<place, d>> \in CallState /\ <<place, d>>[1] = place /\ <<place, d>>[2] = d
  BY AtFacts
<1>7. /\ ds \in [Call -> CallState] /\ ds[i[n]] = <<place, d>>
      /\ \A c \in Call \ {i[n]} : ds[c] = cs[c]
  BY <1>1, <1>6, CallSet
<1>8. Onward(cs, ds)
  BY <1>1, <1>3, <1>6, OnwardSet DEF ds
<1> HIDE DEF ds
<1>9. <<place, d>> # At("terminated") /\ <<place, d>> # At("waiting")
      /\ <<place, d>> # At("deferred")
  BY <1>6, AtFacts
<1>10. Open(u, ds)
  <2>1. Open(t, cs)
    BY DEF ClientOK
  <2> QED BY <1>5, <1>6, <1>7, <1>9, <2>1 DEF Open, Own
<1>11. ClientTable(u, ds)
  <2>1. ClientTable(t, cs)
    BY DEF ClientOK
  <2>2. \A m \in DOMAIN u.inflight : m \in DOMAIN i /\ m # n /\ u.inflight[m] = i[m] /\ i[m] # i[n]
    BY <1>4, <1>5, <2>1 DEF ClientTable
  <2>3. \A m \in DOMAIN i \ {n} : m \in DOMAIN u.inflight
    BY <1>4, <1>5
  <2>4. \A m \in DOMAIN u.inflight \ {0} :
          m <= u.seq /\ u.inflight[m] \in Call /\ ds[u.inflight[m]] = At("waiting")
    BY <1>5, <1>7, <2>1, <2>2 DEF ClientTable
  <2>5. ASSUME NEW c \in Call, ds[c] = At("waiting")
        PROVE  \E m \in DOMAIN u.inflight : u.inflight[m] = c
    <3>1. c # i[n] /\ cs[c] = At("waiting")
      BY <1>7, <1>9, <2>5
    <3>2. PICK m \in DOMAIN i : i[m] = c
      BY <2>1, <3>1 DEF ClientTable
    <3> QED BY <2>2, <2>3, <3>1, <3>2
  <2>6. u.ponged \/ Holds(u, 0, NoCall)
    BY <1>2, <1>5, <2>1, <2>2, <2>3 DEF ClientTable, Holds
  <2>7. \A c \in Call : ds[c] # At("deferred")
    BY <1>7, <1>9, <2>1 DEF ClientTable
  <2> QED BY <1>5, <2>1, <2>2, <2>4, <2>5, <2>6, <2>7 DEF ClientTable
<1>12. ClientFrames(u, q, p \o u.out, todo)
  BY ClientFramesTaken
<1>13. Along(t, u)
  BY DEF Along, Takes
<1> QED BY <1>1, <1>5, <1>7, <1>8, <1>10, <1>11, <1>12, <1>13 DEF ClientOK, ds

\* The ping, which has no caller, leaves the callers alone.
LEMMA ClientTakesPing ==
  ASSUME NEW t, NEW cs, NEW q, NEW p \in Seq(Msg), NEW todo, ClientOK(t, cs, q, p, todo),
         NEW u, Takes(t, u, 0), u.ponged
  PROVE  ClientOK(u, cs, q, p, todo) /\ Along(t, u)
<1> DEFINE i == t.inflight
<1>1. /\ i \in Tables /\ t \in Session /\ t.sock /\ cs \in [Call -> CallState] /\ q \in Seq(Msg)
      /\ ClientTable(t, cs) /\ Open(t, cs)
  BY SessionDef DEF ClientOK
<1>2. /\ DOMAIN Forget(i, 0) = DOMAIN i \ {0}
      /\ \A m \in DOMAIN i \ {0} : Forget(i, 0)[m] = i[m]
  BY <1>1, ForgetFacts
<1>3. /\ u \in Session /\ u.inflight = Forget(i, 0) /\ u.sock = t.sock
      /\ u.seq = t.seq /\ u.ping = t.ping /\ u.shared = t.shared /\ u.misread = t.misread
  BY DEF Takes
<1>4. ClientTable(u, cs)
  <2>1. \A m \in DOMAIN u.inflight : m \in DOMAIN i /\ m # 0 /\ u.inflight[m] = i[m]
    BY <1>2, <1>3
  <2>2. ASSUME NEW c \in Call, cs[c] = At("waiting")
        PROVE  \E m \in DOMAIN u.inflight : u.inflight[m] = c
    <3>1. PICK m \in DOMAIN i : i[m] = c
      BY <1>1, <2>2 DEF ClientTable
    <3>2. m # 0
      BY <1>1, <3>1, PySessionAssumption DEF ClientTable
    <3> QED BY <1>2, <1>3, <3>1, <3>2
  <2> QED BY <1>1, <1>3, <2>1, <2>2 DEF ClientTable
<1>5. Open(u, cs)
  BY <1>1, <1>3 DEF Open, Own
<1>6. Along(t, u)
  BY DEF Along, Takes
<1> QED BY <1>1, <1>3, <1>4, <1>5, <1>6, ClientFramesTaken DEF ClientOK

\* An answer finds the call that its number stands for, or the ping: d is whose
\* answer it is, Garbled if nobody sent it.
LEMMA ClientPop ==
  ASSUME NEW t, NEW cs, NEW q, NEW p \in Seq(Msg), NEW todo,
         ClientOK(t, cs, q, p, todo), NEW n, NEW d,
         n \in DOMAIN t.inflight =>
           d = t.inflight[n] \/ (d = Garbled /\ t.misread),
         NEW place \in {"answered", "error"},
         NEW b, b = PopInflight(After(t, cs), n, <<place, d>>)
  PROVE  /\ ClientOK(b.session, b.calls, q, p, todo) /\ ~b.raised
         /\ Along(t, b.session) /\ Onward(cs, b.calls)
<1> DEFINE i == t.inflight
           u == [t EXCEPT !.inflight = Forget(i, n)]
           v == [t EXCEPT !.inflight = Forget(i, n), !.ponged = TRUE]
           ds == [cs EXCEPT ![i[n]] = <<place, d>>]
<1>1. i \in Tables /\ t \in Session
  BY SessionDef DEF ClientOK
<1>2. After(t, cs).session = t /\ After(t, cs).calls = cs /\ ~After(t, cs).raised
  BY DEF After
<1>3. CASE n \notin DOMAIN i
  <2>1. b = After(t, cs)
    BY <1>2, <1>3 DEF PopInflight
  <2> QED BY <1>2, <2>1, AlongSteps
<1>4. CASE n \in DOMAIN i /\ i[n] = NoCall
  <2>1. n = 0
    BY <1>4, PySessionAssumption DEF ClientOK, ClientTable
  <2>2. [u EXCEPT !.ponged = TRUE] = v
    OBVIOUS
  <2>3. b = After(v, cs)
    BY <1>2, <1>4, <2>2 DEF PopInflight
  <2>4. b.session = v /\ b.calls = cs /\ ~b.raised
    BY <2>3, AfterFacts
  <2>5. Takes(t, v, 0) /\ v.ponged
    BY <1>1, <2>1, TakesFacts, SessionDef
  <2> HIDE DEF v
  <2> QED BY <2>4, <2>5, ClientTakesPing, AlongSteps
<1>5. CASE n \in DOMAIN i /\ i[n] # NoCall
  <2>1. i[n] \in Call
    BY <1>5, PySessionAssumption DEF ClientOK, ClientTable
  <2>2. b = After(u, ds)
    BY <1>2, <1>5 DEF PopInflight
  <2>3. b.session = u /\ b.calls = ds /\ ~b.raised
    BY <2>2, AfterFacts
  <2>4. Takes(t, u, n) /\ u.ponged = t.ponged /\ u.heard = t.heard
    BY <1>1, TakesFacts, SessionDef
  <2>5. d = i[n] \/ (d = Garbled /\ t.misread)
    BY <1>5
  <2> HIDE DEF u
  <2>6. ClientOK(u, ds, q, p, todo) /\ Along(t, u) /\ Onward(cs, ds)
    BY <1>5, <2>1, <2>4, <2>5, ClientTakes, Zenon
  <2> QED BY <2>3, <2>6
<1> QED BY <1>3, <1>4, <1>5

\* What only sets flags or says goodbye.
LEMMA ClientQuiet ==
  ASSUME NEW t, NEW cs, NEW q, NEW p \in Seq(Msg), NEW todo,
         ClientOK(t, cs, q, p, todo), NEW u \in Session, SameTable(t, u),
         u.sock = t.sock, u.wronged = t.wronged, t.shutting => u.shutting,
         \/ u.out = t.out
         \/ \E f \in OutMsg : f.op \in {"goaway", "push", "pong"} /\ u.out = Append(t.out, f)
  PROVE  ClientOK(u, cs, q, p, todo) /\ Along(t, u)
<1>1. /\ t \in Session /\ t.sock /\ cs \in [Call -> CallState] /\ q \in Seq(Msg)
      /\ ClientTable(t, cs) /\ Open(t, cs) /\ ClientFrames(t, q, p \o t.out, todo)
      /\ t.out \in Seq(OutMsg) /\ t.out \in Seq(Msg)
  BY SessionDef, FrameFacts DEF ClientOK
<1>2. ClientTable(u, cs)
  BY <1>1, ClientTableSame
<1> DEFINE o == p \o t.out
<1>3. o \in Seq(Msg) /\ ClientFrames(t, q, o, todo)
  BY <1>1, ConcatProperties
<1>4. ClientFrames(t, q, p \o u.out, todo) /\ (t.out # <<>> => u.out # <<>>)
  <2>1. CASE u.out = t.out
    BY <1>1, <2>1
  <2>2. ASSUME NEW f \in OutMsg, f.op \in {"goaway", "push", "pong"}, u.out = Append(t.out, f)
        PROVE  ClientFrames(t, q, p \o u.out, todo) /\ u.out # <<>>
    <3>1. f \in Msg
      BY FrameFacts
    <3>0. PutLast(p, t.out, f, u.out)
      BY <1>1, <2>2, <3>1, PutsLast, Zenon
    <3>2. p \o u.out = Append(o, f) /\ u.out # <<>>
      BY <3>0 DEF PutLast
    <3> HIDE DEF o
    <3>3. ClientFrames(t, q, Append(o, f), todo)
      BY <1>1, <1>3, <2>2, <3>1, ClientSends DEF ClientSays
    <3> QED BY <1>1, <2>2, <3>2, <3>3, AppendProperties
  <2> QED BY <2>1, <2>2
<1>5. ClientFrames(u, q, p \o u.out, todo)
  BY <1>4 DEF ClientFrames, SameTable, Owed
<1>6. Along(t, u)
  BY <1>4 DEF Along, SameTable
<1>7. Open(u, cs)
  BY <1>1 DEF Open, Own, SameTable
<1> QED BY <1>1, <1>2, <1>5, <1>6, <1>7 DEF ClientOK

\* A pong finds the ping; a misread one may find a call.
LEMMA ClientPong ==
  ASSUME IsClient, NEW t, NEW cs, NEW q, NEW p \in Seq(Msg), NEW todo,
         ClientOK(t, cs, q, p, todo), NEW n \in 0..N, n = 0 \/ t.misread,
         NEW b, b = HandlePong(t, cs, n)
  PROVE  /\ ClientOK(b.session, b.calls, q, p, todo) /\ ~b.raised
         /\ Along(t, b.session) /\ Onward(cs, b.calls)
<1> DEFINE i == t.inflight
           h == t.heard \/ n = t.ping
           u == [t EXCEPT !.inflight = Forget(i, n), !.heard = h]
           v == [t EXCEPT !.inflight = Forget(i, n), !.heard = h, !.ponged = TRUE]
<1>1. /\ i \in Tables /\ t \in Session /\ ClientTable(t, cs) /\ t.heard \in BOOLEAN
  BY SessionDef DEF ClientOK
<1>2. t.ping = 0
  BY <1>1 DEF ClientTable
<1>3. /\ h \in BOOLEAN
      /\ Takes(t, u, n) /\ u.ponged = t.ponged /\ u.heard = h
      /\ Takes(t, v, n) /\ v.ponged /\ v.heard = h
  <2>1. h \in BOOLEAN
    OBVIOUS
  <2> HIDE DEF h
  <2>2. Takes(t, u, n) /\ Takes(t, v, n)
    BY <1>1, <2>1, TakesFacts
  <2>3. u.ponged = t.ponged /\ u.heard = h /\ v.ponged /\ v.heard = h
    BY <1>1, <2>1, SessionDef
  <2> QED BY <2>1, <2>2, <2>3
<1>4. [u EXCEPT !.ponged = TRUE] = v
  OBVIOUS
<1>5. CASE n = 0 /\ n \notin DOMAIN i
  <2>1. t.ponged
    BY <1>1, <1>5 DEF ClientTable, Holds
  <2>2. b = After(u, cs)
    BY <1>5 DEF HandlePong
  <2>3. b.session = u /\ b.calls = cs /\ ~b.raised
    BY <2>2, AfterFacts
  <2> HIDE DEF u
  <2> QED BY <1>3, <1>5, <2>1, <2>3, ClientTakesPing, AlongSteps
<1>6. CASE n # 0 /\ n \notin DOMAIN i
  <2>1. b = After(u, cs)
    BY <1>6 DEF HandlePong
  <2>2. b.session = u /\ b.calls = cs /\ ~b.raised
    BY <2>1, AfterFacts
  <2>3. DOMAIN i \ {n} = DOMAIN i
    BY <1>6
  <2>4. Forget(i, n) = [m \in DOMAIN i |-> i[m]]
    BY <2>3 DEF Forget, Restrict
  <2>5. i = [m \in DOMAIN i |-> i[m]]
    <3>1. PICK D \in SUBSET (0..N) : i \in [D -> Call \cup {NoCall, Garbled}]
      BY <1>1 DEF Tables, N
    <3> QED BY <3>1
  <2>6. h = t.heard
    BY <1>1, <1>2, <1>6
  <2> HIDE DEF u, h
  <2>7. /\ SameTable(t, u) /\ u \in Session /\ u.sock = t.sock /\ u.wronged = t.wronged
        /\ u.shutting = t.shutting /\ u.out = t.out
    BY <1>3, <2>4, <2>5, <2>6 DEF Takes, SameTable
  <2> QED BY <2>2, <2>7, ClientQuiet, AlongSteps
<1>7. CASE n \in DOMAIN i /\ i[n] = NoCall
  <2>1. n = 0
    BY <1>1, <1>7, PySessionAssumption DEF ClientTable
  <2>2. b = After(v, cs)
    BY <1>4, <1>7 DEF HandlePong
  <2>3. b.session = v /\ b.calls = cs /\ ~b.raised
    BY <2>2, AfterFacts
  <2> HIDE DEF v
  <2> QED BY <1>3, <2>1, <2>3, ClientTakesPing, AlongSteps
<1>8. CASE n \in DOMAIN i /\ i[n] # NoCall
  <2> DEFINE ds == [cs EXCEPT ![i[n]] = <<"answered", Garbled>>]
  <2>1. n # 0
    BY <1>1, <1>8 DEF ClientTable
  <2>2. i[n] \in Call /\ t.misread
    BY <1>1, <1>8, <2>1 DEF ClientTable
  <2>3. b = After(u, ds)
    BY <1>8 DEF HandlePong
  <2>4. b.session = u /\ b.calls = ds /\ ~b.raised
    BY <2>3, AfterFacts
  <2>5. h = t.heard
    BY <1>1, <1>2, <2>1
  <2> HIDE DEF u, h
  <2>6. Takes(t, u, n) /\ u.ponged = t.ponged /\ u.heard = t.heard
    BY <1>3, <2>5
  <2>7. ClientOK(u, ds, q, p, todo) /\ Along(t, u) /\ Onward(cs, ds)
    BY <1>8, <2>2, <2>6, ClientTakes, Zenon
  <2> QED BY <2>4, <2>7
<1> QED BY <1>5, <1>6, <1>7, <1>8

\* The first frame is handled and gone.
LEMMA ClientNext ==
  ASSUME NEW t, NEW cs, NEW q, NEW p \in Seq(Msg), NEW todo,
         ClientOK(t, cs, q, p, todo), NEW r \in Seq(Msg), Suffix(r, q)
  PROVE  ClientOK(t, cs, r, p, todo)
<1>1. /\ t \in Session /\ t.sock /\ cs \in [Call -> CallState] /\ q \in Seq(Msg)
      /\ ClientTable(t, cs) /\ Open(t, cs) /\ ClientFrames(t, q, p \o t.out, todo)
      /\ t.out \in Seq(Msg)
  BY SessionDef, FrameFacts DEF ClientOK
<1> DEFINE o == p \o t.out
<1>2. o \in Seq(Msg) /\ ClientFrames(t, q, o, todo)
  BY <1>1, ConcatProperties
<1> HIDE DEF o
<1>3. Suffix(o, o) /\ Shrinks(t, t)
  BY <1>2, SuffixSelf, LenProperties DEF Shrinks
<1>4. ClientFrames(t, r, o, todo)
  BY <1>1, <1>2, <1>3, ClientFramesKept
<1> QED BY <1>1, <1>4 DEF ClientOK, o

\* What a frame does that a server sent, or that was misread.
LEMMA ClientHandles ==
  ASSUME IsClient, NEW t, NEW cs, NEW q, NEW p \in Seq(Msg), NEW todo,
         ClientOK(t, cs, q, p, todo), NEW f,
         f.op \in (ServerSays \ {"push", "oversized"}) \cup {"undecodable"},
         f.op \in {"response", "error"} /\ f.seq \in DOMAIN t.inflight =>
           f.call = t.inflight[f.seq] \/ (f.call = Garbled /\ t.misread),
         f.op = "pong" => f.seq \in 0..N /\ (f.seq = 0 \/ t.misread),
         NEW b, b = HandleEvent(After(t, cs), f)
  PROVE  /\ ClientOK(b.session, b.calls, q, p, todo)
         /\ Along(t, b.session) /\ Onward(cs, b.calls)
         /\ f.op # "undecodable" => ~b.raised
<1> DEFINE a == After(t, cs)
<1>9. t \in Session
  BY DEF ClientOK
<1>10. a.session = t /\ a.calls = cs /\ ~a.raised
  BY AfterFacts
<1> HIDE DEF a
<1>11. b = HandleEvent(a, f)
  BY DEF a
<1>1. CASE f.op = "response"
  <2>1. b = PopInflight(a, f.seq, <<"answered", f.call>>)
    BY <1>10, <1>11, <1>1 DEF HandleEvent
  <2> QED BY <1>1, <2>1, ClientPop DEF a
<1>2. CASE f.op = "error"
  <2>1. b = PopInflight(a, f.seq, <<"error", f.call>>)
    BY <1>10, <1>11, <1>2 DEF HandleEvent
  <2> QED BY <1>2, <2>1, ClientPop DEF a
<1>3. CASE f.op = "pong"
  <2>1. b = HandlePong(t, cs, f.seq)
    BY <1>10, <1>11, <1>3 DEF HandleEvent
  <2> QED BY <1>3, <2>1, ClientPong
<1>4. CASE f.op = "goaway"
  <2>1. b = After(Close(t, FALSE), cs)
    BY <1>10, <1>11, <1>4 DEF HandleEvent
  <2>2. b.session = Close(t, FALSE) /\ b.calls = cs /\ ~b.raised
    <3> DEFINE u == Close(t, FALSE)
    <3> HIDE DEF u
    <3>1. b = After(u, cs)
      BY <2>1 DEF u
    <3>2. b.session = u /\ b.calls = cs /\ ~b.raised
      BY <3>1, AfterFacts
    <3> QED BY <3>2 DEF u
  <2>3. /\ Close(t, FALSE) \in Session /\ SameTable(t, Close(t, FALSE))
        /\ Close(t, FALSE).sock = t.sock /\ Close(t, FALSE).wronged = t.wronged
        /\ Close(t, FALSE).shutting
        /\ Close(t, FALSE).out = t.out
    BY <1>9, CloseFacts
  <2> QED BY <2>2, <2>3, ClientQuiet, AlongSteps
<1>5. CASE f.op = "hello_ack"
  <2> DEFINE u == [t EXCEPT !.ready = TRUE]
  <2>1. b = After(u, cs)
    BY <1>10, <1>11, <1>5 DEF HandleEvent
  <2>2. b.session = u /\ b.calls = cs /\ ~b.raised
    BY <2>1, AfterFacts
  <2>3. /\ u \in Session /\ SameTable(t, u) /\ u.sock = t.sock /\ u.wronged = t.wronged
        /\ u.out = t.out /\ u.shutting = t.shutting
    BY <1>9, SessionDef DEF SameTable
  <2> HIDE DEF u
  <2> QED BY <2>2, <2>3, ClientQuiet, AlongSteps
<1>6. CASE f.op = "unknown_encoder"
  <2>1. b = After(Close(t, TRUE), cs)
    BY <1>10, <1>11, <1>6 DEF HandleEvent
  <2>2. b.session = Close(t, TRUE) /\ b.calls = cs /\ ~b.raised
    <3> DEFINE u == Close(t, TRUE)
    <3> HIDE DEF u
    <3>1. b = After(u, cs)
      BY <2>1 DEF u
    <3>2. b.session = u /\ b.calls = cs /\ ~b.raised
      BY <3>1, AfterFacts
    <3> QED BY <3>2 DEF u
  <2>3. /\ Close(t, TRUE) \in Session /\ SameTable(t, Close(t, TRUE))
        /\ Close(t, TRUE).sock = t.sock /\ Close(t, TRUE).wronged = t.wronged
        /\ Close(t, TRUE).shutting
        /\ \/ Close(t, TRUE).out = t.out
           \/ Close(t, TRUE).out = Append(t.out, Frame("goaway", 0, NoCall))
    BY <1>9, CloseFacts
  <2>4. Frame("goaway", 0, NoCall) \in OutMsg /\ Frame("goaway", 0, NoCall).op = "goaway"
    BY FrameFacts, NIsNat
  <2>5. ClientOK(Close(t, TRUE), cs, q, p, todo) /\ Along(t, Close(t, TRUE))
    <3> DEFINE u == Close(t, TRUE)
               g == Frame("goaway", 0, NoCall)
    <3>1. /\ u \in Session /\ SameTable(t, u) /\ u.sock = t.sock /\ u.wronged = t.wronged
          /\ u.shutting /\ (u.out = t.out \/ u.out = Append(t.out, g))
          /\ g \in OutMsg /\ g.op = "goaway"
      BY <2>3, <2>4
    <3> HIDE DEF u, g
    <3>2. ClientOK(u, cs, q, p, todo) /\ Along(t, u)
      BY <3>1, ClientQuiet
    <3> QED BY <3>2 DEF u
  <2> QED BY <1>6, <2>2, <2>5, AlongSteps
<1>7. CASE f.op \in {"ping", "rest"}
  <2>1. b = a
    BY <1>10, <1>11, <1>7 DEF HandleEvent
  <2> QED BY <1>10, <2>1, AlongSteps
<1>8. CASE f.op = "undecodable"
  <2>1. b = Raise(t, cs)
    BY <1>10, <1>11, <1>8 DEF HandleEvent
  <2> QED BY <1>8, <2>1, AfterFacts, AlongSteps
<1> QED BY <1>1, <1>2, <1>3, <1>4, <1>5, <1>6, <1>7, <1>8 DEF ServerSays

LEMMA ClientEvent ==
  ASSUME IsClient, NEW t, NEW cs, NEW q, NEW p \in Seq(Msg), NEW todo,
         ClientOK(t, cs, q, p, todo), q # <<>>, Head(q).op # "oversized",
         NEW b, b = HandleEvent(After(t, cs), Head(q))
  PROVE  /\ ClientOK(b.session, b.calls, Tail(q), p, todo) /\ ~b.raised
         /\ Along(t, b.session) /\ Onward(cs, b.calls)
<1> DEFINE f == Head(q)
           a == After(t, cs)
<1>1. /\ t \in Session /\ q \in Seq(Msg) /\ ClientFrames(t, q, p \o t.out, todo)
  BY DEF ClientOK
<1>2. f \in Msg /\ f = q[1] /\ 1 \in DOMAIN q
  BY <1>1
<1>3. /\ f.op \in ServerSays \ {"push"}
      /\ f.op \in {"response", "error"} => Owed(t, f)
      /\ f.op = "pong" => f.seq = 0
  BY <1>1, <1>2 DEF ClientFrames
<1>4. a.session = t /\ a.calls = cs /\ ~a.raised
  BY AfterFacts
<1>5. Tail(q) \in Seq(Msg) /\ Suffix(Tail(q), q)
  BY <1>1, TailSuffix
<1>6. /\ ClientOK(b.session, b.calls, q, p, todo) /\ ~b.raised
      /\ Along(t, b.session) /\ Onward(cs, b.calls)
  <2>1. f.op \notin {"oversized", "undecodable"}
    BY <1>3 DEF ServerSays
  <2>2. f.op \in {"response", "error"} /\ f.seq \in DOMAIN t.inflight =>
          f.call = t.inflight[f.seq]
    BY <1>3 DEF Owed
  <2>3. f.op = "pong" => f.seq \in 0..N
    BY <1>2 DEF Msg
  <2> HIDE DEF f
  <2> QED BY <1>3, <1>4, <2>1, <2>2, <2>3, ClientHandles DEF f
<1> QED BY <1>5, <1>6, ClientNext

\* A misread frame is handled like any other.
LEMMA ClientGarbled ==
  ASSUME IsClient, NEW t, NEW cs, NEW q, NEW p \in Seq(Msg), NEW todo,
         ClientOK(t, cs, q, p, todo), t.misread, NEW f \in Garbles,
         NEW b, b = HandleEvent(After(t, cs), f)
  PROVE  /\ ClientOK(b.session, b.calls, q, p, todo)
         /\ Along(t, b.session) /\ Onward(cs, b.calls)
<1>1. /\ f.op \in (ServerSays \ {"push", "oversized"}) \cup {"undecodable"}
      /\ f.call = Garbled /\ f.seq \in 0..N
  BY DEF Garbles, ServerSays, N
<1> QED BY <1>1, ClientHandles

-----------------------------------------------------------------------------
(* Events of a server                                                      *)

Numbers(num) ==
  num \in [Call -> 0..N] /\ \A c, d \in Call : num[c] = num[d] /\ num[c] # 0 => c = d

LEMMA ServerFacts ==
  ASSUME NEW t, NEW cs, NEW q, NEW p \in Seq(Msg), NEW num, ServerOK(t, cs, q, p, num)
  PROVE  /\ t \in Session /\ t.sock /\ cs \in [Call -> CallState] /\ q \in Seq(Msg)
         /\ Open(t, cs) /\ ServerTable(t, cs, num) /\ ServerFrames(t, cs, q, p \o t.out, num)
         /\ t.out \in Seq(OutMsg) /\ t.out \in Seq(Msg) /\ p \o t.out \in Seq(Msg)
         /\ t.inflight \in Tables /\ t.shared \subseteq Call
<1>1. /\ t \in Session /\ t.sock /\ cs \in [Call -> CallState] /\ q \in Seq(Msg)
      /\ Open(t, cs) /\ ServerTable(t, cs, num) /\ ServerFrames(t, cs, q, p \o t.out, num)
  BY DEF ServerOK
<1>2. t.out \in Seq(OutMsg) /\ t.inflight \in Tables /\ t.shared \subseteq Call
  BY <1>1, SessionDef
<1>3. t.out \in Seq(Msg)
  BY <1>2, FrameFacts
<1> QED BY <1>1, <1>2, <1>3, ConcatProperties

LEMMA ServerFramesKept ==
  ASSUME NEW t, NEW u, u.ping = t.ping, u.ponged = t.ponged, u.misread = t.misread,
         NEW cs, NEW ds,
         NEW q \in Seq(Msg), NEW o \in Seq(Msg),
         NEW r \in Seq(Msg), NEW p \in Seq(Msg), Suffix(r, q), Suffix(p, o),
         \A i \in DOMAIN r : r[i].op = "request" => ds[r[i].call] = cs[r[i].call],
         NEW num, ServerFrames(t, cs, q, o, num)
  PROVE  ServerFrames(u, ds, r, p, num)
<1>1. PICK k \in Nat : \A i \in DOMAIN r : i + k \in DOMAIN q /\ r[i] = q[i + k]
  <2>1. r \in Seq(Msg) /\ q \in Seq(Msg) /\ Suffix(r, q)
    OBVIOUS
  <2> QED BY ONLY <2>1, SuffixTypes
<1>2. PICK l \in Nat : \A i \in DOMAIN p : i + l \in DOMAIN o /\ p[i] = o[i + l]
  <2>1. p \in Seq(Msg) /\ o \in Seq(Msg) /\ Suffix(p, o)
    OBVIOUS
  <2> QED BY ONLY <2>1, SuffixTypes
<1>3. DOMAIN r = 1..Len(r) /\ DOMAIN p = 1..Len(p) /\ Len(r) \in Nat /\ Len(p) \in Nat
  BY LenProperties
<1>4. \A i, j \in DOMAIN r : i + k = j + k => i = j
  BY <1>3
<1>5. \A i, j \in DOMAIN p : i + l = j + l => i = j
  BY <1>3
<1>6. \A i \in DOMAIN p :
       /\ p[i].op \in ServerSays
       /\ p[i].op = "ping" => p[i].seq = u.ping /\ (u.misread \/ ~u.ponged)
  BY <1>2 DEF ServerFrames
<1>7. \A i \in DOMAIN r :
       /\ r[i].op \in ClientSays \ {"push"}
       /\ r[i].op = "pong" => r[i].seq = u.ping /\ (u.misread \/ ~u.ponged)
       /\ r[i].op = "request" =>
            /\ r[i].call \in Call /\ ds[r[i].call] = At("coming")
            /\ r[i].seq >= 1 /\ r[i].seq = num[r[i].call]
  <2> TAKE i \in DOMAIN r
  <2> DEFINE f == q[i + k]
  <2>1. f = r[i] /\ i + k \in DOMAIN q
    BY <1>1
  <2>2. /\ f.op \in ClientSays \ {"push"}
        /\ f.op = "pong" => f.seq = t.ping /\ (t.misread \/ ~t.ponged)
        /\ f.op = "request" =>
             /\ f.call \in Call /\ cs[f.call] = At("coming")
             /\ f.seq >= 1 /\ f.seq = num[f.call]
    BY <2>1 DEF ServerFrames
  <2>3. r[i].op = "request" => ds[r[i].call] = cs[r[i].call]
    OBVIOUS
  <2> HIDE DEF f
  <2> QED BY <2>1, <2>2, <2>3
<1>8. \A i, j \in DOMAIN r :
       /\ r[i].op = "request" /\ r[j].op = "request" /\ r[i].call = r[j].call => i = j
       /\ r[i].op = "pong" /\ r[j].op = "pong" => i = j
  BY <1>1, <1>4 DEF ServerFrames
<1>9. \A i, j \in DOMAIN p : p[i].op = "ping" /\ p[j].op = "ping" => i = j
  BY <1>2, <1>5 DEF ServerFrames
<1>10. \A i \in DOMAIN p, j \in DOMAIN r : ~(p[i].op = "ping" /\ r[j].op = "pong")
  BY <1>1, <1>2 DEF ServerFrames
<1> QED BY <1>6, <1>7, <1>8, <1>9, <1>10 DEF ServerFrames

LEMMA ServerSends ==
  ASSUME NEW t, NEW cs, NEW q \in Seq(Msg), NEW o \in Seq(Msg), NEW num,
         ServerFrames(t, cs, q, o, num), NEW f \in Msg, f.op \in ServerSays \ {"ping"}
  PROVE  ServerFrames(t, cs, q, Append(o, f), num)
<1>1. \A i \in DOMAIN Append(o, f) :
        (i \in DOMAIN o /\ Append(o, f)[i] = o[i]) \/ Append(o, f)[i] = f
  BY AppendFacts
<1>2. f.op # "ping" /\ f.op \in ServerSays
  OBVIOUS
<1> QED BY <1>1, <1>2 DEF ServerFrames

\* The first frame is handled and gone.
LEMMA ServerNext ==
  ASSUME NEW t, NEW cs, NEW q, NEW p \in Seq(Msg), NEW num,
         ServerOK(t, cs, q, p, num), NEW r \in Seq(Msg), Suffix(r, q)
  PROVE  ServerOK(t, cs, r, p, num)
<1>1. /\ t \in Session /\ t.sock /\ cs \in [Call -> CallState] /\ q \in Seq(Msg)
      /\ ServerTable(t, cs, num) /\ Open(t, cs) /\ ServerFrames(t, cs, q, p \o t.out, num)
      /\ p \o t.out \in Seq(Msg)
  BY ServerFacts
<1> DEFINE o == p \o t.out
<1>2. o \in Seq(Msg) /\ ServerFrames(t, cs, q, o, num)
  BY <1>1
<1> HIDE DEF o
<1>3. Suffix(o, o)
  BY <1>2, SuffixSelf, LenProperties
<1>4. ServerFrames(t, cs, r, o, num)
  BY <1>1, <1>2, <1>3, ServerFramesKept
<1> QED BY <1>1, <1>4 DEF ServerOK, o

LEMMA ServerTableSame ==
  ASSUME NEW t, NEW u, NEW cs, NEW num, SameTable(t, u), t.shutting => u.shutting,
         ServerTable(t, cs, num)
  PROVE  ServerTable(u, cs, num)
BY DEF SameTable, ServerTable, Holds

\* What only sets flags or sends a frame that is no ping.
LEMMA ServerQuiet ==
  ASSUME NEW t, NEW cs, NEW q, NEW p \in Seq(Msg), NEW num,
         ServerOK(t, cs, q, p, num), NEW u \in Session, SameTable(t, u),
         u.sock = t.sock, u.wronged = t.wronged, t.shutting => u.shutting,
         \/ u.out = t.out
         \/ \E f \in OutMsg : f.op \in ServerSays \ {"ping"} /\ u.out = Append(t.out, f)
  PROVE  ServerOK(u, cs, q, p, num) /\ Along(t, u)
<1>1. /\ t \in Session /\ t.sock /\ cs \in [Call -> CallState] /\ q \in Seq(Msg)
      /\ ServerTable(t, cs, num) /\ Open(t, cs) /\ ServerFrames(t, cs, q, p \o t.out, num)
      /\ t.out \in Seq(OutMsg) /\ t.out \in Seq(Msg) /\ p \o t.out \in Seq(Msg)
  BY ServerFacts
<1>2. ServerTable(u, cs, num)
  BY <1>1, ServerTableSame
<1> DEFINE o == p \o t.out
<1>3. o \in Seq(Msg) /\ ServerFrames(t, cs, q, o, num)
  BY <1>1
<1>4. ServerFrames(t, cs, q, p \o u.out, num) /\ (t.out # <<>> => u.out # <<>>)
  <2>1. CASE u.out = t.out
    BY <1>1, <2>1
  <2>2. ASSUME NEW f \in OutMsg, f.op \in ServerSays \ {"ping"}, u.out = Append(t.out, f)
        PROVE  ServerFrames(t, cs, q, p \o u.out, num) /\ u.out # <<>>
    <3>1. f \in Msg
      BY FrameFacts
    <3>0. PutLast(p, t.out, f, u.out)
      BY <1>1, <2>2, <3>1, PutsLast, Zenon
    <3>2. p \o u.out = Append(o, f) /\ u.out # <<>>
      BY <3>0 DEF PutLast
    <3> HIDE DEF o
    <3>3. ServerFrames(t, cs, q, Append(o, f), num)
      BY <1>1, <1>3, <2>2, <3>1, ServerSends
    <3> QED BY <3>2, <3>3
  <2> QED BY <2>1, <2>2
<1>5. ServerFrames(u, cs, q, p \o u.out, num)
  BY <1>4 DEF ServerFrames, SameTable
<1>6. Along(t, u)
  BY <1>4 DEF Along, SameTable
<1>7. Open(u, cs)
  BY <1>1 DEF Open, Own, SameTable
<1> QED BY <1>1, <1>2, <1>5, <1>6, <1>7 DEF ServerOK

\* A pong is of the last ping, unless it was misread.  A request that it pops is
\* one that has met a ping or a misread frame.
LEMMA ServerPong ==
  ASSUME ~IsClient, NEW t, NEW cs, NEW q, NEW p \in Seq(Msg), NEW num, Numbers(num),
         ServerOK(t, cs, q, p, num), NEW n,
         \/ t.misread
         \/ /\ n = t.ping
            /\ \A j \in DOMAIN q : q[j].op # "pong"
            /\ \A j \in DOMAIN (p \o t.out) : (p \o t.out)[j].op # "ping",
         NEW b, b = HandlePong(t, cs, n)
  PROVE  /\ ServerOK(b.session, b.calls, q, p, num)
         /\ Along(t, b.session) /\ b.calls = cs
<1> DEFINE i == t.inflight
           u == b.session
           o == p \o t.out
           h == t.heard \/ n = t.ping
<1>1. /\ t \in Session /\ t.sock /\ cs \in [Call -> CallState] /\ q \in Seq(Msg)
      /\ Open(t, cs) /\ ServerTable(t, cs, num) /\ ServerFrames(t, cs, q, o, num)
      /\ o \in Seq(Msg) /\ i \in Tables /\ t.shared \subseteq Call
  BY ServerFacts
<1>2. /\ Forget(i, n) \in Tables /\ DOMAIN Forget(i, n) = DOMAIN i \ {n}
      /\ \A m \in DOMAIN i \ {n} : Forget(i, n)[m] = i[m]
  BY <1>1, ForgetFacts
<1>3. h \in BOOLEAN
  OBVIOUS
<1>4. n \in DOMAIN i => i[n] \in Call \cup {NoCall, Garbled}
  BY <1>1, TableFacts
<1> DEFINE v == [t EXCEPT !.inflight = Forget(i, n), !.heard = h]
           w == [v EXCEPT !.ponged = TRUE]
           x == [v EXCEPT !.shared = t.shared \cup ({i[n]} \cap Call)]
<1>5. /\ Takes(t, v, n) /\ v.ponged = t.ponged
      /\ Takes(t, w, n) /\ w.ponged
  <2>1. w = [t EXCEPT !.inflight = Forget(i, n), !.heard = h, !.ponged = TRUE]
    OBVIOUS
  <2> HIDE DEF h
  <2>2. Takes(t, v, n) /\ Takes(t, w, n)
    <3> HIDE DEF w
    <3> QED BY <1>1, <1>3, <2>1, TakesFacts
  <2> QED BY <1>1, <2>2, SessionDef
<1>6. /\ x \in Session /\ x.inflight = Forget(i, n) /\ x.sock = t.sock /\ x.out = t.out
      /\ x.seq = t.seq /\ x.ping = t.ping /\ x.wronged = t.wronged /\ x.shutting = t.shutting
      /\ x.misread = t.misread /\ x.late = t.late /\ x.ponged = t.ponged
      /\ x.shared = t.shared \cup ({i[n]} \cap Call)
  <2>1. t.shared \cup ({i[n]} \cap Call) \in SUBSET Call
    BY <1>1
  <2> HIDE DEF v
  <2> QED BY <1>1, <1>5, <2>1, SessionDef DEF Takes
<1>7. b = IF n \notin DOMAIN i THEN After(v, cs)
          ELSE IF i[n] = NoCall THEN After(w, cs)
          ELSE Raise(x, cs)
  BY DEF HandlePong
<1> HIDE DEF v, w, x, h
<1>8. /\ u \in Session /\ b.calls = cs
      /\ u.inflight = Forget(i, n) /\ u.sock = t.sock /\ u.out = t.out
      /\ u.shutting = t.shutting /\ u.misread = t.misread /\ u.late = t.late
      /\ u.seq = t.seq /\ u.ping = t.ping /\ u.wronged = t.wronged
      /\ t.shared \subseteq u.shared
      /\ \A c \in u.shared : c \in t.shared \/ (c \in Call /\ n \in DOMAIN i /\ i[n] = c)
      /\ n \in DOMAIN i /\ i[n] \in Call => i[n] \in u.shared
      /\ n \in DOMAIN i /\ i[n] = NoCall => u.ponged
      /\ t.ponged => u.ponged
  <2>1. CASE n \notin DOMAIN i
    <3>1. b = After(v, cs)
      BY <1>7, <2>1
    <3>2. u = v /\ b.calls = cs
      BY <3>1, AfterFacts
    <3> HIDE DEF u
    <3> QED BY <1>5, <2>1, <3>2 DEF Takes
  <2>2. CASE n \in DOMAIN i /\ i[n] = NoCall
    <3>1. b = After(w, cs)
      BY <1>7, <2>2
    <3>2. u = w /\ b.calls = cs
      BY <3>1, AfterFacts
    <3>3. i[n] \notin Call
      BY <2>2, PySessionAssumption
    <3> HIDE DEF u
    <3> QED BY <1>5, <2>2, <3>2, <3>3 DEF Takes
  <2>3. CASE n \in DOMAIN i /\ i[n] # NoCall
    <3>1. b = Raise(x, cs)
      BY <1>7, <2>3
    <3>2. u = x /\ b.calls = cs
      BY <3>1, AfterFacts
    <3> HIDE DEF u
    <3> QED BY <1>6, <2>3, <3>2
  <2> QED BY <2>1, <2>2, <2>3
<1> HIDE DEF u
<1>9. \A m \in DOMAIN u.inflight : m \in DOMAIN i /\ m # n /\ u.inflight[m] = i[m]
  BY <1>2, <1>8
<1>10. \A m \in DOMAIN i \ {n} : m \in DOMAIN u.inflight /\ u.inflight[m] = i[m]
  BY <1>2, <1>8
<1>11. ASSUME ~u.ponged, ~t.misread PROVE \E c \in t.shared : num[c] = t.ping
  BY <1>1, <1>8, <1>11 DEF ServerTable, Holds
<1>12. ServerTable(u, cs, num)
  <2>1. \A m \in DOMAIN u.inflight : u.inflight[m] \in Call =>
       /\ m >= 1 /\ num[u.inflight[m]] = m
       /\ u.shutting \/ cs[u.inflight[m]] = At("deferred")
    BY <1>1, <1>8, <1>9 DEF ServerTable
  <2>2. ASSUME NEW c \in Call, cs[c] = At("deferred"), c \notin u.shared
        PROVE  Holds(u, num[c], c)
    <3>1. num[c] \in DOMAIN i /\ i[num[c]] = c
      BY <1>1, <1>8, <2>2 DEF ServerTable, Holds
    <3>2. num[c] # n
      BY <1>8, <2>2, <3>1
    <3> QED BY <1>10, <3>1, <3>2 DEF Holds
  <2>3. u.ponged \/ u.misread \/ \E c \in u.shared : num[c] = u.ping
    BY <1>8, <1>11
  <2>4. u.shared # {} \/ u.ponged \/ u.misread
    BY <2>3
  <2>5. \A c \in u.shared : num[c] # 0
    BY <1>1, <1>8 DEF ServerTable
  <2>6. \A c \in Call : cs[c] # At("waiting")
    BY <1>1 DEF ServerTable
  <2> QED BY <2>1, <2>2, <2>3, <2>4, <2>5, <2>6 DEF ServerTable
<1>13. ServerFrames(u, cs, q, o, num)
  <2> HIDE DEF o
  <2>1. t.misread \/ (/\ \A j \in DOMAIN q : q[j].op # "pong"
                      /\ \A j \in DOMAIN o : o[j].op # "ping")
    BY DEF o
  <2> QED BY <1>1, <1>8, <2>1 DEF ServerFrames
<1>14. Along(t, u)
  BY <1>8 DEF Along
<1>15. Open(u, cs)
  BY <1>1, <1>8 DEF Open, Own
<1> QED BY <1>1, <1>8, <1>12, <1>13, <1>14, <1>15 DEF ServerOK, u

Responded(t, cs, q, p, num, c, b) ==
  /\ ServerOK(b.session, b.calls, q, p, num)
  /\ ~b.raised
  /\ b.calls[c] \in {At("responded"), At("dropped")}
  /\ b.calls[c] = At("dropped") => b.session = t
  /\ b.calls[c] = At("responded") =>
       /\ ~t.shutting /\ b.session.out # <<>>
  /\ Along(t, b.session) /\ Onward(cs, b.calls)
  /\ b.calls = [cs EXCEPT ![c] = b.calls[c]]

\* An answer that is due is sent, unless the session shuts down or a pong
\* has taken the entry of its request.
LEMMA ServerRespond ==
  ASSUME NEW t, NEW cs, NEW q, NEW p \in Seq(Msg), NEW num, Numbers(num),
         ServerOK(t, cs, q, p, num), NEW c \in Call, cs[c] = At("deferred"),
         NEW b, b = Respond(t, cs, num[c], c)
  PROVE  Responded(t, cs, q, p, num, c, b)
<1> DEFINE i == t.inflight
           n == num[c]
           o == p \o t.out
<1>1. /\ t \in Session /\ t.sock /\ cs \in [Call -> CallState] /\ q \in Seq(Msg)
      /\ Open(t, cs) /\ ServerTable(t, cs, num) /\ ServerFrames(t, cs, q, o, num)
      /\ o \in Seq(Msg) /\ i \in Tables /\ t.shared \subseteq Call
      /\ t.out \in Seq(OutMsg) /\ t.out \in Seq(Msg)
  BY ServerFacts
<1>2. n \in 0..N
  BY DEF Numbers
<1>3. \A x \in {"responded", "dropped"} :
        /\ [cs EXCEPT ![c] = At(x)] \in [Call -> CallState]
        /\ [cs EXCEPT ![c] = At(x)][c] = At(x)
        /\ \A d \in Call \ {c} : [cs EXCEPT ![c] = At(x)][d] = cs[d]
        /\ Onward(cs, [cs EXCEPT ![c] = At(x)])
        /\ Open(t, [cs EXCEPT ![c] = At(x)])
        /\ \A d \in Call : [cs EXCEPT ![c] = At(x)][d] # At("waiting")
        /\ \A j \in DOMAIN q : q[j].op = "request" =>
             [cs EXCEPT ![c] = At(x)][q[j].call] = cs[q[j].call]
  <2> TAKE x \in {"responded", "dropped"}
  <2> DEFINE ds == [cs EXCEPT ![c] = At(x)]
  <2>1. At(x) \in CallState /\ At(x)[1] = x
    BY AtFacts
  <2>2. /\ ds \in [Call -> CallState] /\ ds[c] = At(x)
        /\ \A d \in Call \ {c} : ds[d] = cs[d]
    BY <1>1, <2>1, CallSet
  <2>3. cs[c][1] = "deferred" /\ At("deferred") # At("coming") /\ At(x) # At("terminated")
        /\ At(x) # At("waiting")
    BY AtFacts
  <2>4. Onward(cs, ds)
    BY <1>1, <2>1, <2>3, OnwardSet
  <2> HIDE DEF ds
  <2>5. Open(t, ds)
    BY <1>1, <2>1, <2>2, <2>3 DEF Open, Own
  <2>6. \A j \in DOMAIN q : q[j].op = "request" => q[j].call \in Call \ {c}
    BY <1>1, <2>3 DEF ServerFrames
  <2>7. \A d \in Call : ds[d] # At("waiting")
    BY <1>1, <2>2, <2>3 DEF ServerTable
  <2> QED BY <2>2, <2>4, <2>5, <2>6, <2>7 DEF ds
<1>4. CASE t.shutting \/ n \notin DOMAIN i
  <2> DEFINE ds == [cs EXCEPT ![c] = At("dropped")]
  <2>1. b = After(t, ds)
    BY <1>1, <1>4 DEF Respond
  <2>2. /\ ds \in [Call -> CallState] /\ ds[c] = At("dropped") /\ Onward(cs, ds) /\ Open(t, ds)
        /\ \A d \in Call : ds[d] # At("waiting")
        /\ \A d \in Call \ {c} : ds[d] = cs[d]
        /\ \A j \in DOMAIN q : q[j].op = "request" => ds[q[j].call] = cs[q[j].call]
    BY <1>3
  <2>3. At("dropped") # At("deferred") /\ At("dropped") # At("responded")
    BY AtFacts
  <2> HIDE DEF ds
  <2>4. b.session = t /\ b.calls = ds /\ ~b.raised
    BY <2>1, AfterFacts
  <2>5. ServerTable(t, ds, num)
    <3>1. ASSUME NEW m \in DOMAIN i, i[m] \in Call
          PROVE  /\ m >= 1 /\ num[i[m]] = m
                 /\ t.shutting \/ ds[i[m]] = At("deferred")
      <4>1. m >= 1 /\ num[i[m]] = m /\ (t.shutting \/ cs[i[m]] = At("deferred"))
        BY <1>1, <3>1 DEF ServerTable
      <4> QED BY <1>4, <2>2, <3>1, <4>1
    <3>2. \A d \in Call : ds[d] = At("deferred") => d \in t.shared \/ Holds(t, num[d], d)
      BY <1>1, <2>2, <2>3 DEF ServerTable
    <3> QED BY <1>1, <2>2, <3>1, <3>2 DEF ServerTable
  <2>6. ServerFrames(t, ds, q, o, num)
    <3> HIDE DEF o
    <3>1. Suffix(o, o) /\ Suffix(q, q)
      BY <1>1, SuffixSelf, LenProperties
    <3> QED BY <1>1, <2>2, <3>1, ServerFramesKept
  <2> QED BY <1>1, <2>2, <2>3, <2>4, <2>5, <2>6, AlongSteps DEF ServerOK, ds, Responded
<1>5. CASE ~t.shutting /\ n \in DOMAIN i
  <2> DEFINE ds == [cs EXCEPT ![c] = At("responded")]
             f == Frame("response", n, c)
             u == [t EXCEPT !.inflight = Forget(i, n)]
             v == Enqueue(u, f)
  <2>1. b = After(v, ds)
    BY <1>1, <1>5 DEF Respond
  <2>2. /\ ds \in [Call -> CallState] /\ ds[c] = At("responded") /\ Onward(cs, ds) /\ Open(t, ds)
        /\ \A d \in Call : ds[d] # At("waiting")
        /\ \A d \in Call \ {c} : ds[d] = cs[d]
        /\ \A j \in DOMAIN q : q[j].op = "request" => ds[q[j].call] = cs[q[j].call]
    BY <1>3
  <2>3. At("responded") # At("deferred") /\ At("responded") # At("dropped")
    BY AtFacts
  <2>4. f \in OutMsg /\ f \in Msg /\ f.op = "response"
    BY <1>2, FrameFacts
  <2> HIDE DEF ds, f
  <2>5. /\ Forget(i, n) \in Tables /\ DOMAIN Forget(i, n) = DOMAIN i \ {n}
        /\ \A m \in DOMAIN i \ {n} : Forget(i, n)[m] = i[m]
    BY <1>1, ForgetFacts
  <2>6. /\ u \in Session /\ u.inflight = Forget(i, n) /\ u.sock = t.sock /\ u.out = t.out
        /\ u.shutting = t.shutting /\ u.heard = t.heard
        /\ u.seq = t.seq /\ u.ping = t.ping /\ u.ponged = t.ponged
        /\ u.shared = t.shared /\ u.wronged = t.wronged
        /\ u.misread = t.misread /\ u.late = t.late
    BY <1>1, <2>5, SessionDef
  <2> HIDE DEF u
  <2>7. /\ v \in Session /\ v.inflight = Forget(i, n) /\ v.sock = t.sock
        /\ v.out = Append(t.out, f) /\ v.out # <<>>
        /\ v.shutting = t.shutting /\ v.heard = t.heard
        /\ v.seq = t.seq /\ v.ping = t.ping /\ v.ponged = t.ponged
        /\ v.shared = t.shared /\ v.wronged = t.wronged
        /\ v.misread = t.misread /\ v.late = t.late
    BY <2>4, <2>6, EnqueueFacts DEF SameTable
  <2> HIDE DEF v
  <2>8. b.session = v /\ b.calls = ds /\ ~b.raised
    BY <2>1, AfterFacts
  <2>9. \A m \in DOMAIN v.inflight : m \in DOMAIN i /\ m # n /\ v.inflight[m] = i[m]
    BY <2>5, <2>7
  <2>10. \A m \in DOMAIN i \ {n} : m \in DOMAIN v.inflight /\ v.inflight[m] = i[m]
    BY <2>5, <2>7
  <2>11. ServerTable(v, ds, num)
    <3>1. ASSUME NEW m \in DOMAIN v.inflight, v.inflight[m] \in Call
          PROVE  /\ m >= 1 /\ num[v.inflight[m]] = m
                 /\ v.shutting \/ ds[v.inflight[m]] = At("deferred")
      <4>1. m \in DOMAIN i /\ m # n /\ v.inflight[m] = i[m]
        BY <2>9
      <4>2. m >= 1 /\ num[i[m]] = m /\ (t.shutting \/ cs[i[m]] = At("deferred"))
        BY <1>1, <3>1, <4>1 DEF ServerTable
      <4>3. i[m] \in Call \ {c}
        BY <3>1, <4>1, <4>2
      <4> QED BY <2>2, <2>7, <4>1, <4>2, <4>3
    <3>2. ASSUME NEW d \in Call, ds[d] = At("deferred"), d \notin v.shared
          PROVE  Holds(v, num[d], d)
      <4>1. d # c /\ cs[d] = At("deferred")
        BY <2>2, <2>3, <3>2
      <4>2. num[d] \in DOMAIN i /\ i[num[d]] = d
        BY <1>1, <2>7, <3>2, <4>1 DEF ServerTable, Holds
      <4>3. num[d] >= 1
        BY <1>1, <4>2, PySessionAssumption DEF ServerTable
      <4>4. num[d] # n
        BY <1>2, <4>1, <4>3 DEF Numbers
      <4> QED BY <2>10, <4>2, <4>4 DEF Holds
    <3>3. v.ponged \/ Holds(v, v.ping, NoCall) \/ v.misread \/ \E d \in v.shared : num[d] = v.ping
      <4>1. CASE Holds(t, t.ping, NoCall) /\ t.ping = n
        <5>1. c \in t.shared
          BY <1>1, <4>1, PySessionAssumption DEF ServerTable, Holds
        <5> QED BY <2>7, <4>1, <5>1
      <4>2. CASE Holds(t, t.ping, NoCall) /\ t.ping # n
        BY <2>7, <2>10, <4>2 DEF Holds
      <4> QED BY <1>1, <2>7, <4>1, <4>2 DEF ServerTable
    <3> QED BY <1>1, <2>2, <2>7, <3>1, <3>2, <3>3 DEF ServerTable
  <2>12. ServerFrames(v, ds, q, p \o v.out, num)
    <3>0. PutLast(p, t.out, f, v.out)
      BY <1>1, <2>4, <2>7, PutsLast, Zenon
    <3>1. p \o v.out = Append(o, f)
      BY <3>0 DEF PutLast
    <3> HIDE DEF o
    <3>2. Suffix(o, o) /\ Suffix(q, q)
      BY <1>1, SuffixSelf, LenProperties
    <3>3. ServerFrames(v, ds, q, o, num)
      BY <1>1, <2>2, <2>7, <3>2, ServerFramesKept
    <3>4. ServerFrames(v, ds, q, Append(o, f), num)
      BY <1>1, <2>4, <3>3, ServerSends DEF ServerSays
    <3> QED BY <3>1, <3>4
  <2>13. Along(t, v) /\ Open(v, ds)
    BY <2>2, <2>7 DEF Along, Open, Own
  <2> QED BY <1>1, <1>5, <2>2, <2>3, <2>7, <2>8, <2>11, <2>12, <2>13 DEF ServerOK, ds, Responded
<1> QED BY <1>4, <1>5

\* A request enters the table and, unless its handler leaves the answer for
\* later, is answered at once.
LEMMA ServerRequest ==
  ASSUME NEW t, NEW cs, NEW q, NEW p \in Seq(Msg), NEW num, Numbers(num),
         ServerOK(t, cs, q, p, num), q # <<>>, Head(q).op = "request",
         NEW b, b = HandleRequest(t, cs, Head(q).seq, Head(q).call)
  PROVE  /\ ServerOK(b.session, b.calls, Tail(q), p, num)
         /\ Along(t, b.session) /\ Onward(cs, b.calls)
<1> DEFINE i == t.inflight
           n == Head(q).seq
           c == Head(q).call
           r == Tail(q)
           o == p \o t.out
           ds == [cs EXCEPT ![c] = At("deferred")]
           u == [t EXCEPT !.inflight = Put(i, n, c), !.shared = Meets(t, n, c)]
<1>1. /\ t \in Session /\ t.sock /\ cs \in [Call -> CallState] /\ q \in Seq(Msg)
      /\ Open(t, cs) /\ ServerTable(t, cs, num) /\ ServerFrames(t, cs, q, o, num)
      /\ o \in Seq(Msg) /\ i \in Tables /\ t.shared \subseteq Call
  BY ServerFacts
<1>2. 1 \in DOMAIN q /\ Head(q) = q[1]
  BY <1>1
<1>3. c \in Call /\ cs[c] = At("coming") /\ n >= 1 /\ n = num[c]
  BY <1>1, <1>2 DEF ServerFrames
<1>4. n \in 0..N /\ c # NoCall /\ c # Garbled
  BY <1>3, PySessionAssumption DEF Numbers
<1>5. r \in Seq(Msg) /\ Suffix(r, q)
      /\ \A j \in DOMAIN r : j + 1 \in DOMAIN q /\ j + 1 # 1 /\ r[j] = q[j + 1]
  <2>1. r \in Seq(Msg) /\ Suffix(r, q)
    BY <1>1, TailSuffix
  <2> QED BY <1>1, <2>1
<1>6. \A j \in DOMAIN r : r[j].op = "request" => r[j].call \in Call \ {c}
  BY <1>1, <1>2, <1>5 DEF ServerFrames
<1>7. At("deferred") \in CallState /\ At("deferred")[1] = "deferred" /\ At("coming")[1] = "coming"
      /\ At("deferred") # At("terminated") /\ At("deferred") # At("waiting")
  BY AtFacts
<1>8. /\ ds \in [Call -> CallState] /\ ds[c] = At("deferred")
      /\ \A d \in Call \ {c} : ds[d] = cs[d]
  BY <1>1, <1>3, <1>7, CallSet
<1>9. Onward(cs, ds)
  BY <1>1, <1>3, <1>7, OnwardSet
<1>10. \A x : [ds EXCEPT ![c] = x] = [cs EXCEPT ![c] = x]
  BY <1>1, <1>3
<1> HIDE DEF ds
<1>11. Open(t, ds)
  BY <1>1, <1>7, <1>8 DEF Open, Own
<1>12. /\ Put(i, n, c) \in Tables /\ DOMAIN Put(i, n, c) = DOMAIN i \cup {n}
       /\ Put(i, n, c)[n] = c
       /\ \A m \in DOMAIN i \ {n} : Put(i, n, c)[m] = i[m]
  <2> HIDE DEF n, c, i
  <2>1. i \in Tables /\ n \in 0..N /\ c \in Call \cup {NoCall, Garbled}
    BY <1>1, <1>3, <1>4
  <2> QED BY ONLY <2>1, PutFacts, ZenonT(40)
<1>13. /\ Meets(t, n, c) \in SUBSET Call /\ t.shared \subseteq Meets(t, n, c)
       /\ n \in DOMAIN i => c \in Meets(t, n, c)
       /\ n \in DOMAIN i /\ i[n] \in Call => i[n] \in Meets(t, n, c)
  BY <1>1, <1>3, <1>4 DEF Meets
<1>14. /\ u \in Session /\ u.inflight = Put(i, n, c) /\ u.sock = t.sock /\ u.out = t.out
       /\ u.shutting = t.shutting /\ u.heard = t.heard
       /\ u.seq = t.seq /\ u.ping = t.ping /\ u.ponged = t.ponged
       /\ u.shared = Meets(t, n, c) /\ u.wronged = t.wronged
       /\ u.misread = t.misread /\ u.late = t.late
  BY <1>1, <1>12, <1>13, SessionDef
<1> HIDE DEF u
<1>15. \A m \in DOMAIN i \ {n} : m \in DOMAIN u.inflight /\ u.inflight[m] = i[m]
  BY <1>12, <1>14
<1>16. \A m \in DOMAIN u.inflight \ {n} : m \in DOMAIN i /\ u.inflight[m] = i[m]
  BY <1>12, <1>14
<1>17. n \in DOMAIN u.inflight /\ u.inflight[n] = c
  BY <1>12, <1>14
<1> HIDE DEF n, c
<1>18. ServerTable(u, ds, num)
  <2>1. ASSUME NEW m \in DOMAIN u.inflight, u.inflight[m] \in Call
        PROVE  /\ m >= 1 /\ num[u.inflight[m]] = m
               /\ u.shutting \/ ds[u.inflight[m]] = At("deferred")
    <3>1. CASE m = n
      BY <1>3, <1>8, <1>17, <3>1
    <3>2. CASE m # n
      <4>1. m \in DOMAIN i /\ u.inflight[m] = i[m]
        BY <1>16, <3>2
      <4>2. m >= 1 /\ num[i[m]] = m /\ (t.shutting \/ cs[i[m]] = At("deferred"))
        BY <1>1, <2>1, <4>1 DEF ServerTable
      <4>3. i[m] \in Call \ {c}
        BY <1>3, <2>1, <3>2, <4>1, <4>2
      <4> QED BY <1>8, <1>14, <4>1, <4>2, <4>3
    <3> QED BY <3>1, <3>2
  <2>2. ASSUME NEW d \in Call, ds[d] = At("deferred"), d \notin u.shared
        PROVE  Holds(u, num[d], d)
    <3>1. CASE d = c
      BY <1>3, <1>17, <3>1 DEF Holds
    <3>2. CASE d # c
      <4>1. num[d] \in DOMAIN i /\ i[num[d]] = d
        BY <1>1, <1>8, <1>13, <1>14, <2>2, <3>2 DEF ServerTable, Holds
      <4>2. num[d] # n
        BY <1>3, <3>2 DEF Numbers
      <4> QED BY <1>15, <4>1, <4>2 DEF Holds
    <3> QED BY <3>1, <3>2
  <2>3. u.ponged \/ Holds(u, u.ping, NoCall) \/ u.misread \/ \E d \in u.shared : num[d] = u.ping
    <3>1. CASE Holds(t, t.ping, NoCall) /\ t.ping = n
      <4>1. c \in u.shared
        BY <1>13, <1>14, <3>1 DEF Holds
      <4> QED BY <1>3, <1>14, <3>1, <4>1
    <3>2. CASE Holds(t, t.ping, NoCall) /\ t.ping # n
      BY <1>14, <1>15, <3>2 DEF Holds
    <3>3. CASE \E d \in t.shared : num[d] = t.ping
      BY <1>13, <1>14, <3>3
    <3> QED BY <1>1, <1>14, <3>1, <3>2, <3>3 DEF ServerTable
  <2>4. u.heard => u.ponged \/ u.shared # {} \/ u.misread
    BY <1>1, <1>13, <1>14 DEF ServerTable
  <2>5. \A d \in u.shared : num[d] # 0
    <3>1. \A d \in u.shared : d \in t.shared \/ d = c \/ (n \in DOMAIN i /\ d = i[n] /\ d \in Call)
      BY <1>14 DEF Meets
    <3>2. n \in DOMAIN i /\ i[n] \in Call => num[i[n]] = n
      BY <1>1 DEF ServerTable
    <3>3. n # 0
      BY <1>3
    <3> QED BY <1>1, <1>3, <3>1, <3>2, <3>3 DEF ServerTable
  <2>6. \A d \in Call : ds[d] # At("waiting")
    BY <1>1, <1>7, <1>8 DEF ServerTable
  <2> QED BY <2>1, <2>2, <2>3, <2>4, <2>5, <2>6 DEF ServerTable
<1>19. ServerFrames(u, ds, r, o, num)
  <2>1. \A j \in DOMAIN r : r[j].op = "request" => ds[r[j].call] = cs[r[j].call]
    BY <1>6, <1>8
  <2> HIDE DEF r, o
  <2>2. Suffix(o, o)
    BY <1>1, SuffixSelf, LenProperties
  <2> QED BY <1>1, <1>5, <1>14, <2>1, <2>2, ServerFramesKept
<1>20. ServerOK(u, ds, r, p, num) /\ Along(t, u)
  BY <1>1, <1>5, <1>8, <1>11, <1>13, <1>14, <1>18, <1>19 DEF ServerOK, Along, Open, Own
<1>21. CASE ~t.ready
  <2>1. b = Raise(t, cs)
    BY <1>21 DEF HandleRequest
  <2>2. ServerOK(t, cs, r, p, num)
    BY <1>5, ServerNext
  <2> QED BY <2>1, <2>2, AfterFacts, AlongSteps
<1>22. CASE t.ready /\ c \in scenario.defers
  <2>1. b = After(u, ds)
    BY <1>4, <1>22 DEF HandleRequest, u, ds, n, c
  <2>2. b.session = u /\ b.calls = ds
    BY <2>1, AfterFacts
  <2> QED BY <1>9, <1>20, <2>2
<1>23. CASE t.ready /\ c \notin scenario.defers
  <2>1. b = Respond(u, cs, n, c)
    BY <1>4, <1>23 DEF HandleRequest, u, n, c
  <2>2. b = Respond(u, ds, num[c], c)
    BY <1>3, <1>10, <2>1 DEF Respond
  <2>3. /\ ServerOK(b.session, b.calls, r, p, num)
        /\ Along(u, b.session) /\ Onward(ds, b.calls)
    <3> HIDE DEF r
    <3>1. Numbers(num) /\ p \in Seq(Msg) /\ c \in Call /\ ds[c] = At("deferred")
          /\ ServerOK(u, ds, r, p, num)
      BY <1>3, <1>8, <1>20
    <3>2. Responded(u, ds, r, p, num, c, b)
      BY ONLY <2>2, <3>1, ServerRespond
    <3> QED BY <3>2 DEF Responded
  <2> QED BY <1>9, <1>20, <2>3, AlongSteps
<1> QED BY <1>22, <1>23, <1>21

\* A misread request takes an entry, and is not answered.
LEMMA ServerGarbledRequest ==
  ASSUME NEW t, NEW cs, NEW q, NEW p \in Seq(Msg), NEW num,
         ServerOK(t, cs, q, p, num), t.misread, NEW n \in 0..N,
         NEW b, b = HandleRequest(t, cs, n, Garbled)
  PROVE  /\ ServerOK(b.session, b.calls, q, p, num)
         /\ Along(t, b.session) /\ b.calls = cs
<1> DEFINE i == t.inflight
           o == p \o t.out
           u == [t EXCEPT !.inflight = Put(i, n, Garbled), !.shared = Meets(t, n, Garbled)]
<1>1. /\ t \in Session /\ t.sock /\ cs \in [Call -> CallState] /\ q \in Seq(Msg)
      /\ Open(t, cs) /\ ServerTable(t, cs, num) /\ ServerFrames(t, cs, q, o, num)
      /\ o \in Seq(Msg) /\ i \in Tables /\ t.shared \subseteq Call
  BY ServerFacts
<1>2. Garbled \notin Call
  BY PySessionAssumption
<1>3. /\ Put(i, n, Garbled) \in Tables /\ DOMAIN Put(i, n, Garbled) = DOMAIN i \cup {n}
      /\ Put(i, n, Garbled)[n] = Garbled
      /\ \A m \in DOMAIN i \ {n} : Put(i, n, Garbled)[m] = i[m]
  <2>1. i \in Tables /\ n \in 0..N /\ Garbled \in Call \cup {NoCall, Garbled}
    BY <1>1
  <2> QED BY ONLY <2>1, PutFacts, ZenonT(40)
<1>4. /\ Meets(t, n, Garbled) \in SUBSET Call /\ t.shared \subseteq Meets(t, n, Garbled)
      /\ n \in DOMAIN i /\ i[n] \in Call => i[n] \in Meets(t, n, Garbled)
      /\ \A c \in Meets(t, n, Garbled) : c \in t.shared \/ (n \in DOMAIN i /\ c = i[n] /\ c \in Call)
  BY <1>1, <1>2 DEF Meets
<1>5. /\ u \in Session /\ u.inflight = Put(i, n, Garbled) /\ u.sock = t.sock /\ u.out = t.out
      /\ u.shutting = t.shutting /\ u.heard = t.heard
      /\ u.seq = t.seq /\ u.ping = t.ping /\ u.ponged = t.ponged
      /\ u.shared = Meets(t, n, Garbled) /\ u.wronged = t.wronged
      /\ u.misread = t.misread /\ u.late = t.late
  BY <1>1, <1>3, <1>4, SessionDef
<1>6. b = Raise(t, cs) \/ b = After(u, cs)
  BY DEF HandleRequest
<1> HIDE DEF u
<1>7. \A m \in DOMAIN i \ {n} : m \in DOMAIN u.inflight /\ u.inflight[m] = i[m]
  BY <1>3, <1>5
<1>8. \A m \in DOMAIN u.inflight : u.inflight[m] \in Call => m \in DOMAIN i /\ u.inflight[m] = i[m]
  BY <1>2, <1>3, <1>5
<1>9. ServerTable(u, cs, num)
  <2>1. ASSUME NEW c \in Call, cs[c] = At("deferred"), c \notin u.shared
        PROVE  Holds(u, num[c], c)
    <3>1. num[c] \in DOMAIN i /\ i[num[c]] = c
      BY <1>1, <1>4, <1>5, <2>1 DEF ServerTable, Holds
    <3>2. num[c] # n
      BY <1>4, <1>5, <2>1, <3>1
    <3> QED BY <1>7, <3>1, <3>2 DEF Holds
  <2>2. \A m \in DOMAIN u.inflight : u.inflight[m] \in Call =>
          /\ m >= 1 /\ num[u.inflight[m]] = m
          /\ u.shutting \/ cs[u.inflight[m]] = At("deferred")
    BY <1>1, <1>5, <1>8 DEF ServerTable
  <2>3. \A c \in u.shared : num[c] # 0
    BY <1>1, <1>4, <1>5 DEF ServerTable
  <2> QED BY <1>1, <1>5, <2>1, <2>2, <2>3 DEF ServerTable
<1>10. ServerFrames(u, cs, q, o, num)
  <2> HIDE DEF o
  <2> QED BY <1>1, <1>5 DEF ServerFrames
<1>11. Along(t, u)
  BY <1>4, <1>5 DEF Along
<1>12. Open(u, cs)
  BY <1>1, <1>5 DEF Open, Own
<1>13. ServerOK(u, cs, q, p, num)
  BY <1>1, <1>5, <1>9, <1>10, <1>12 DEF ServerOK
<1>14. (b.session = t \/ b.session = u) /\ b.calls = cs
  BY <1>6, AfterFacts
<1> QED BY <1>11, <1>13, <1>14, AlongSteps

LEMMA ServerEvent ==
  ASSUME ~IsClient, NEW t, NEW cs, NEW q, NEW p \in Seq(Msg), NEW num, Numbers(num),
         ServerOK(t, cs, q, p, num), q # <<>>, Head(q).op # "oversized",
         NEW b, b = HandleEvent(After(t, cs), Head(q))
  PROVE  /\ ServerOK(b.session, b.calls, Tail(q), p, num)
         /\ Along(t, b.session) /\ Onward(cs, b.calls)
<1> DEFINE f == Head(q)
           a == After(t, cs)
<1>1. /\ t \in Session /\ q \in Seq(Msg) /\ ServerFrames(t, cs, q, p \o t.out, num)
  BY ServerFacts
<1>2. f \in Msg /\ f = q[1] /\ 1 \in DOMAIN q
  BY <1>1
<1>3. f.op \in ClientSays \ {"push", "oversized"}
  BY <1>1, <1>2 DEF ServerFrames
<1>4. a.session = t /\ a.calls = cs /\ ~a.raised
  BY AfterFacts
<1>5. Tail(q) \in Seq(Msg) /\ Suffix(Tail(q), q)
  BY <1>1, TailSuffix
<1>6. ServerOK(t, cs, Tail(q), p, num)
  BY <1>5, ServerNext
<1> HIDE DEF f, a
<1>0. b = HandleEvent(a, f)
  BY DEF f, a
<1>7. CASE f.op = "hello"
  <2>1. b = HandleHello(t, cs, TRUE)
    BY <1>4, <1>0, <1>7 DEF HandleEvent
  <2>2. CASE t.shutting
    <3>1. b = Raise(t, cs)
      BY <2>1, <2>2 DEF HandleHello
    <3> QED BY <1>6, <3>1, AfterFacts, AlongSteps
  <2>3. CASE ~t.shutting
    <3> DEFINE v == [t EXCEPT !.ready = TRUE]
               g == Frame("hello_ack", 0, NoCall)
               u == Enqueue(v, g)
    <3>1. b = After(u, cs)
      BY <2>1, <2>3 DEF HandleHello
    <3>2. g \in OutMsg /\ g.op = "hello_ack"
      BY FrameFacts, NIsNat
    <3>3. /\ v \in Session /\ SameTable(t, v) /\ v.sock = t.sock /\ v.wronged = t.wronged
          /\ v.out = t.out /\ v.shutting = t.shutting
      BY <1>1, SessionDef DEF SameTable
    <3> HIDE DEF v, g
    <3>4. /\ u \in Session /\ SameTable(v, u) /\ u.sock = v.sock /\ u.wronged = v.wronged
          /\ u.out = Append(v.out, g) /\ u.shutting = v.shutting
      BY <3>2, <3>3, EnqueueFacts
    <3>5. /\ u \in Session /\ SameTable(t, u) /\ u.sock = t.sock /\ u.wronged = t.wronged
          /\ u.out = Append(t.out, g) /\ u.shutting = t.shutting
      BY <3>3, <3>4 DEF SameTable
    <3> HIDE DEF u
    <3>6. b.session = u /\ b.calls = cs
      BY <3>1, AfterFacts
    <3>7. g.op \in ServerSays \ {"ping"}
      BY <3>2 DEF ServerSays
    <3>8. ServerOK(u, cs, Tail(q), p, num) /\ Along(t, u)
      BY <1>6, <3>2, <3>5, <3>7, ServerQuiet
    <3> QED BY <3>6, <3>8, AlongSteps
  <2> QED BY <2>2, <2>3
<1>8. CASE f.op = "unknown_encoder"
  <2>1. b = Raise(t, cs)
    BY <1>4, <1>0, <1>8 DEF HandleEvent, HandleHello
  <2> QED BY <1>6, <2>1, AfterFacts, AlongSteps
<1>9. CASE f.op \in {"ping", "rest"}
  <2>1. b = a
    BY <1>4, <1>0, <1>9 DEF HandleEvent
  <2> QED BY <1>4, <1>6, <2>1, AlongSteps
<1>10. CASE f.op = "pong"
  <2>1. b = HandlePong(t, cs, f.seq)
    BY <1>4, <1>0, <1>10 DEF HandleEvent
  <2>2. f.seq = t.ping /\ \A j \in DOMAIN (p \o t.out) : (p \o t.out)[j].op # "ping"
    BY <1>1, <1>2, <1>10 DEF ServerFrames
  <2>3. \A j \in DOMAIN Tail(q) : Tail(q)[j].op # "pong"
    <3>1. \A j \in DOMAIN Tail(q) : j + 1 \in DOMAIN q /\ j + 1 # 1 /\ Tail(q)[j] = q[j + 1]
      BY <1>1, <1>2
    <3> QED BY <1>1, <1>2, <1>10, <3>1 DEF ServerFrames
  <2> DEFINE r == Tail(q)
  <2>4. /\ ServerOK(t, cs, r, p, num) /\ Numbers(num) /\ p \in Seq(Msg) /\ ~IsClient
        /\ \A j \in DOMAIN r : r[j].op # "pong"
    BY <1>6, <2>3
  <2> HIDE DEF r
  <2>5. ServerOK(b.session, b.calls, r, p, num) /\ Along(t, b.session) /\ b.calls = cs
    BY ONLY <2>1, <2>2, <2>4, ServerPong
  <2> QED BY <2>5, AlongSteps DEF r
<1>11. CASE f.op = "request"
  <2>1. b = HandleRequest(t, cs, f.seq, f.call)
    BY <1>4, <1>0, <1>11 DEF HandleEvent
  <2> QED BY <1>11, <2>1, ServerRequest DEF f
<1>12. CASE f.op = "goaway"
  <2> DEFINE u == Close(t, FALSE)
  <2>1. b = After(u, cs)
    BY <1>4, <1>0, <1>12 DEF HandleEvent
  <2>2. /\ u \in Session /\ SameTable(t, u) /\ u.sock = t.sock /\ u.wronged = t.wronged
        /\ u.out = t.out /\ u.shutting
    BY <1>1, CloseFacts
  <2> HIDE DEF u
  <2>3. b.session = u /\ b.calls = cs
    BY <2>1, AfterFacts
  <2>4. ServerOK(u, cs, Tail(q), p, num) /\ Along(t, u)
    BY <1>6, <2>2, ServerQuiet
  <2> QED BY <2>3, <2>4, AlongSteps
<1> QED BY <1>3, <1>7, <1>8, <1>9, <1>10, <1>11, <1>12 DEF ClientSays

LEMMA ServerGarbled ==
  ASSUME ~IsClient, NEW t, NEW cs, NEW q, NEW p \in Seq(Msg), NEW num, Numbers(num),
         ServerOK(t, cs, q, p, num), t.misread, NEW f \in Garbles,
         NEW b, b = HandleEvent(After(t, cs), f)
  PROVE  /\ ServerOK(b.session, b.calls, q, p, num)
         /\ Along(t, b.session) /\ Onward(cs, b.calls)
<1> DEFINE a == After(t, cs)
<1>1. /\ f.op \in {"ping", "pong", "goaway", "undecodable", "request"}
      /\ f.call = Garbled /\ f.seq \in 0..N
  BY DEF Garbles, N
<1>2. a.session = t /\ a.calls = cs /\ ~a.raised
  BY AfterFacts
<1>3. t \in Session
  BY ServerFacts
<1> HIDE DEF a
<1>4. b = HandleEvent(a, f)
  BY DEF a
<1>5. CASE f.op = "ping"
  <2>1. b = a
    BY <1>2, <1>4, <1>5 DEF HandleEvent
  <2> QED BY <1>2, <2>1, AlongSteps
<1>6. CASE f.op = "pong"
  <2>1. b = HandlePong(t, cs, f.seq)
    BY <1>2, <1>4, <1>6 DEF HandleEvent
  <2> QED BY <2>1, ServerPong, AlongSteps
<1>7. CASE f.op = "goaway"
  <2> DEFINE u == Close(t, FALSE)
  <2>1. b = After(u, cs)
    BY <1>2, <1>4, <1>7 DEF HandleEvent
  <2>2. /\ u \in Session /\ SameTable(t, u) /\ u.sock = t.sock /\ u.wronged = t.wronged
        /\ u.out = t.out /\ u.shutting
    BY <1>3, CloseFacts
  <2> HIDE DEF u
  <2>3. b.session = u /\ b.calls = cs
    BY <2>1, AfterFacts
  <2>4. ServerOK(u, cs, q, p, num) /\ Along(t, u)
    BY <2>2, ServerQuiet
  <2> QED BY <2>3, <2>4, AlongSteps
<1>8. CASE f.op = "undecodable"
  <2>1. b = Raise(t, cs)
    BY <1>2, <1>4, <1>8 DEF HandleEvent
  <2> QED BY <2>1, AfterFacts, AlongSteps
<1>9. CASE f.op = "request"
  <2>1. b = HandleRequest(t, cs, f.seq, Garbled)
    BY <1>1, <1>2, <1>4, <1>9 DEF HandleEvent
  <2> QED BY <1>1, <2>1, ServerGarbledRequest, AlongSteps
<1> QED BY <1>1, <1>5, <1>6, <1>7, <1>8, <1>9

-----------------------------------------------------------------------------
(* The events of a chunk, one after the other                              *)

\* What is left of a queue when its first n frames are gone.
Left(q, n) == SubSeq(q, n + 1, Len(q))

LEMMA LeftFacts ==
  ASSUME NEW S, NEW q \in Seq(S)
  PROVE  /\ Left(q, 0) = q /\ Left(q, Len(q)) = <<>>
         /\ \A n \in 0..Len(q) - 1 :
              /\ Left(q, n) \in Seq(S) /\ Left(q, n) # <<>>
              /\ Head(Left(q, n)) = q[n + 1] /\ Tail(Left(q, n)) = Left(q, n + 1)
<1>0. Len(q) \in Nat /\ q \in [1..Len(q) -> S]
  BY LenProperties
<1>1. Left(q, 0) = q
  <2>1. Left(q, 0) \in Seq(S) /\ Len(Left(q, 0)) = Len(q)
        /\ \A i \in 1..Len(q) : Left(q, 0)[i] = q[i]
    BY <1>0, SubSeqProperties DEF Left
  <2> QED BY <2>1, SeqEqual
<1>2. Left(q, Len(q)) = <<>>
  BY <1>0, SubSeqEmpty DEF Left
<1>3. ASSUME NEW n \in 0..Len(q) - 1
      PROVE  /\ Left(q, n) \in Seq(S) /\ Left(q, n) # <<>>
             /\ Head(Left(q, n)) = q[n + 1] /\ Tail(Left(q, n)) = Left(q, n + 1)
  <2>0. ASSUME NEW m \in 0..Len(q)
        PROVE  /\ Left(q, m) \in Seq(S) /\ Len(Left(q, m)) = Len(q) - m
               /\ \A i \in 1..Len(q) - m : Left(q, m)[i] = q[i + m]
    <3>1. \A i \in m + 1..Len(q) : q[i] \in S
      BY <1>0
    <3>2. /\ Left(q, m) \in Seq(S)
          /\ Len(Left(q, m)) = IF m + 1 <= Len(q) THEN Len(q) - (m + 1) + 1 ELSE 0
          /\ \A i \in 1..Len(q) - (m + 1) + 1 : Left(q, m)[i] = q[(m + 1) + i - 1]
      BY <1>0, <3>1, SubSeqProperties DEF Left
    <3>3. Len(Left(q, m)) = Len(q) - m
      <4>1. (IF m + 1 <= Len(q) THEN Len(q) - (m + 1) + 1 ELSE 0) = Len(q) - m
        <5>1. m \in Nat /\ Len(q) \in Nat /\ m <= Len(q)
          BY <1>0
        <5>2. CASE m + 1 <= Len(q)
          BY <5>1, <5>2
        <5>3. CASE ~(m + 1 <= Len(q))
          <6>1. m = Len(q)
            BY <5>1, <5>3
          <6> QED BY <5>1, <5>3, <6>1
        <5> QED BY <5>2, <5>3
      <4> QED BY <3>2, <4>1
    <3>4. Len(q) - (m + 1) + 1 = Len(q) - m /\ \A i \in Int : (m + 1) + i - 1 = i + m
      BY <1>0
    <3> QED BY <3>2, <3>3, <3>4
  <2>1. /\ Left(q, n) \in Seq(S) /\ Len(Left(q, n)) = Len(q) - n
        /\ \A i \in 1..Len(q) - n : Left(q, n)[i] = q[i + n]
    <3>1. n \in 0..Len(q)
      BY <1>0
    <3> QED BY <2>0, <3>1
  <2>2. /\ Left(q, n + 1) \in Seq(S) /\ Len(Left(q, n + 1)) = Len(q) - (n + 1)
        /\ \A i \in 1..Len(q) - (n + 1) : Left(q, n + 1)[i] = q[i + (n + 1)]
    <3>1. n + 1 \in 0..Len(q)
      BY <1>0
    <3> QED BY <2>0, <3>1
  <2>3. Left(q, n) # <<>>
    BY <1>0, <2>1
  <2>4. Head(Left(q, n)) = q[n + 1]
    <3>1. 1 \in 1..Len(q) - n
      BY <1>0
    <3>2. Left(q, n)[1] = q[1 + n]
      BY <2>1, <3>1
    <3> QED BY <1>0, <2>1, <2>3, <3>2
  <2>6. Tail(Left(q, n)) = Left(q, n + 1)
    <3> DEFINE l == Left(q, n)
               k == Left(q, n + 1)
    <3> HIDE DEF l, k
    <3>1. l \in Seq(S) /\ Len(l) = Len(q) - n /\ l # <<>> /\ \A i \in 1..Len(q) - n : l[i] = q[i + n]
      BY <2>1, <2>3 DEF l
    <3>2. Tail(l) \in Seq(S) /\ Len(Tail(l)) = Len(l) - 1
          /\ \A i \in 1..Len(Tail(l)) : Tail(l)[i] = l[i + 1]
      BY <3>1
    <3>3. k \in Seq(S) /\ Len(k) = Len(q) - (n + 1)
          /\ \A i \in 1..Len(q) - (n + 1) : k[i] = q[i + (n + 1)]
      BY <2>2 DEF k
    <3>4. Len(Tail(l)) = Len(k)
      <4>1. (Len(q) - n) - 1 = Len(q) - (n + 1)
        BY <1>0
      <4> QED BY <3>1, <3>2, <3>3, <4>1
    <3>5. ASSUME NEW i \in 1..Len(k) PROVE Tail(l)[i] = k[i]
      <4>1. i + 1 \in 1..Len(q) - n /\ (i + 1) + n = i + (n + 1) /\ i \in 1..Len(q) - (n + 1)
        BY <1>0, <3>3
      <4>2. Tail(l)[i] = l[i + 1]
        BY <3>2, <3>4
      <4>3. l[i + 1] = q[(i + 1) + n]
        BY <3>1, <4>1
      <4>4. k[i] = q[i + (n + 1)]
        BY <3>3, <4>1
      <4> QED BY <4>1, <4>2, <4>3, <4>4
    <3>6. Tail(l) = k
      BY <3>2, <3>3, <3>4, <3>5, SeqEqual
    <3> QED BY <3>6 DEF l, k
  <2> QED BY <2>1, <2>3, <2>4, <2>6
<1> QED BY <1>1, <1>2, <1>3

Shaped(b) == b = After(b.session, b.calls) \/ b = Raise(b.session, b.calls)

LEMMA ShapeFacts ==
  /\ \A t, cs : Shaped(After(t, cs)) /\ Shaped(Raise(t, cs))
  /\ \A b : Shaped(b) /\ ~b.raised => b = After(b.session, b.calls)
BY AfterFacts DEF Shaped

\* What the decoder makes of the bytes: what was sent, or what it misreads.
Event ==
  [op: {"hello", "hello_ack", "unknown_encoder", "ping", "pong", "request",
        "response", "error", "push", "goaway", "oversized", "rest", "undecodable"},
   seq: 0..N, call: Call \cup {NoCall, Garbled}]

LEMMA EventFacts == Msg \subseteq Event /\ Seq(Msg) \subseteq Seq(Event)
<1>1. Msg \subseteq Event
  BY DEF Msg, Event
<1> QED BY <1>1, SeqMonotonic

LEMMA EventShape ==
  ASSUME NEW b, Shaped(b), NEW f \in Event, f.op \notin {"push", "oversized"}
  PROVE  Shaped(HandleEvent(b, f))
<1> DEFINE t == b.session
           cs == b.calls
<1>1. CASE b.raised
  BY <1>1 DEF HandleEvent
<1>2. CASE ~b.raised
  <2>1. \A n, x : Shaped(PopInflight(b, n, x))
    BY ShapeFacts DEF PopInflight
  <2>2. \A n : Shaped(HandlePong(t, cs, n))
    BY ShapeFacts DEF HandlePong
  <2>3. \A u, n, c : Shaped(Respond(u, cs, n, c))
    BY ShapeFacts DEF Respond
  <2>4. \A n, c : Shaped(HandleRequest(t, cs, n, c))
    BY <2>3, ShapeFacts DEF HandleRequest
  <2>5. \A k \in BOOLEAN : Shaped(HandleHello(t, cs, k))
    BY ShapeFacts DEF HandleHello
  <2>6. f.op \in {"hello", "hello_ack", "unknown_encoder", "ping", "pong", "request",
                  "response", "error", "goaway", "rest", "undecodable"}
    BY DEF Event
  <2>7. CASE f.op \in {"response", "error"}
    BY <1>2, <2>1, <2>7 DEF HandleEvent
  <2>8. CASE f.op = "pong"
    BY <1>2, <2>2, <2>8 DEF HandleEvent
  <2>9. CASE f.op = "request"
    BY <1>2, <2>4, <2>9 DEF HandleEvent
  <2>10. CASE f.op = "hello"
    BY <1>2, <2>5, <2>10 DEF HandleEvent
  <2>11. CASE f.op = "unknown_encoder"
    <3>1. HandleEvent(b, f) = IF IsClient THEN After(Close(t, TRUE), cs) ELSE HandleHello(t, cs, FALSE)
      BY <1>2, <2>11 DEF HandleEvent
    <3> QED BY <2>5, <3>1, ShapeFacts
  <2>12. CASE f.op = "goaway"
    <3>1. HandleEvent(b, f) = After(Close(t, FALSE), cs)
      BY <1>2, <2>12 DEF HandleEvent
    <3> QED BY <3>1, ShapeFacts
  <2>13. CASE f.op = "hello_ack"
    <3>1. HandleEvent(b, f) = After([t EXCEPT !.ready = TRUE], cs)
      BY <1>2, <2>13 DEF HandleEvent
    <3> QED BY <3>1, ShapeFacts
  <2>14. CASE f.op \in {"ping", "rest"}
    BY <1>2, <2>14 DEF HandleEvent
  <2>15. CASE f.op = "undecodable"
    <3>1. HandleEvent(b, f) = Raise(t, cs)
      BY <1>2, <2>15 DEF HandleEvent
    <3> QED BY <3>1, ShapeFacts
  <2> QED BY <2>6, <2>7, <2>8, <2>9, <2>10, <2>11, <2>12, <2>13, <2>14, <2>15
<1> QED BY <1>1, <1>2

\* The two recursive functions of a chunk satisfy their equations.
Ponged(w, f) == w \o IF f.op # "ping" THEN <<>> ELSE <<[f EXCEPT !.op = "pong"]>>
Before(q) == After([s EXCEPT !.out = @ \o Pongs(q)], call)

LEMMA PongsRuns ==
  ASSUME NEW q \in Seq(Event)
  PROVE  \E h : /\ h = [n \in 0..Len(q) |-> IF n = 0 THEN <<>> ELSE Ponged(h[n - 1], q[n])]
               /\ Pongs(q) = h[Len(q)]
<1> DEFINE Runs(h, m) ==
             h = [n \in 0..m |-> IF n = 0 THEN <<>> ELSE Ponged(h[n - 1], q[n])]
           P == {m \in 0..Len(q) : \E h : Runs(h, m)}
<1>0. Len(q) \in Nat
  BY LenProperties
<1>1. 0 \in P
  <2> DEFINE h == [n \in 0..0 |-> <<>>]
  <2>1. Runs(h, 0)
    OBVIOUS
  <2> HIDE DEF h, Runs
  <2> QED BY <2>1, <1>0
<1>2. ASSUME NEW m \in 0..Len(q) - 1, m \in P PROVE m + 1 \in P
  <2>1. PICK h : Runs(h, m)
    BY <1>2
  <2> DEFINE g == [n \in 0..m + 1 |-> IF n = m + 1 THEN Ponged(h[m], q[m + 1]) ELSE h[n]]
  <2>2. Runs(g, m + 1)
    <3>1. ASSUME NEW n \in 0..m + 1
          PROVE  g[n] = IF n = 0 THEN <<>> ELSE Ponged(g[n - 1], q[n])
      BY <2>1
    <3> QED BY <3>1
  <2> HIDE DEF g, Runs
  <2> QED BY <2>2, <1>0
<1> HIDE DEF P
<1>3. Len(q) \in P
  <2>1. 0..Len(q) \subseteq P
    BY <1>0, <1>1, <1>2, UpTo
  <2> QED BY <1>0, <2>1
<1>4. PICK h : Runs(h, Len(q))
  BY <1>3 DEF P
<1> DEFINE f == CHOOSE g : Runs(g, Len(q))
<1>5. Runs(f, Len(q))
  BY <1>4
<1>6. Pongs(q) = f[Len(q)]
  BY DEF Pongs, Ponged
<1> QED BY <1>5, <1>6

LEMMA HandledRuns ==
  ASSUME NEW q \in Seq(Event), TooLarge(q) = {}
  PROVE  \E h : /\ h = [n \in 0..Len(q) |-> IF n = 0 THEN Before(q) ELSE HandleEvent(h[n - 1], q[n])]
               /\ Handled(q) = h[Len(q)]
<1> DEFINE Runs(h, m) ==
             h = [n \in 0..m |-> IF n = 0 THEN Before(q) ELSE HandleEvent(h[n - 1], q[n])]
           P == {m \in 0..Len(q) : \E h : Runs(h, m)}
<1>0. Len(q) \in Nat
  BY LenProperties
<1>1. 0 \in P
  <2> DEFINE h == [n \in 0..0 |-> Before(q)]
  <2>1. Runs(h, 0)
    OBVIOUS
  <2> HIDE DEF h, Runs
  <2> QED BY <2>1, <1>0
<1>2. ASSUME NEW m \in 0..Len(q) - 1, m \in P PROVE m + 1 \in P
  <2>1. PICK h : Runs(h, m)
    BY <1>2
  <2> DEFINE g == [n \in 0..m + 1 |-> IF n = m + 1 THEN HandleEvent(h[m], q[m + 1]) ELSE h[n]]
  <2>2. Runs(g, m + 1)
    <3>1. ASSUME NEW n \in 0..m + 1
          PROVE  g[n] = IF n = 0 THEN Before(q) ELSE HandleEvent(g[n - 1], q[n])
      BY <2>1
    <3> QED BY <3>1
  <2> HIDE DEF g, Runs
  <2> QED BY <2>2, <1>0
<1> HIDE DEF P
<1>3. Len(q) \in P
  <2>1. 0..Len(q) \subseteq P
    BY <1>0, <1>1, <1>2, UpTo
  <2> QED BY <1>0, <2>1
<1>4. PICK h : Runs(h, Len(q))
  BY <1>3 DEF P
<1> DEFINE f == CHOOSE g : Runs(g, Len(q))
<1>5. Runs(f, Len(q))
  BY <1>4
<1>6. Handled(q) = f[Len(q)]
  BY DEF Handled, Before
<1> QED BY <1>5, <1>6

PongMsg == {f \in OutMsg : f.op = "pong"}

LEMMA PongsType ==
  ASSUME NEW q \in Seq(Event)
  PROVE  Pongs(q) \in Seq(PongMsg)
<1>1. PICK h : /\ h = [n \in 0..Len(q) |-> IF n = 0 THEN <<>> ELSE Ponged(h[n - 1], q[n])]
               /\ Pongs(q) = h[Len(q)]
  BY PongsRuns
<1> DEFINE P == {n \in 0..Len(q) : h[n] \in Seq(PongMsg)}
<1>2. Len(q) \in Nat /\ q \in [1..Len(q) -> Event]
  BY LenProperties
<1>3. 0 \in P
  <2>1. h[0] = <<>>
    BY <1>1, <1>2
  <2>2. <<>> \in Seq(PongMsg)
    OBVIOUS
  <2>3. h[0] \in Seq(PongMsg) /\ 0 \in 0..Len(q)
    BY <1>2, <2>1, <2>2
  <2> QED BY <2>3
<1>4. ASSUME NEW n \in 0..Len(q) - 1, n \in P PROVE n + 1 \in P
  <2>1. n + 1 \in 0..Len(q) /\ n + 1 # 0 /\ (n + 1) - 1 = n /\ n + 1 \in 1..Len(q)
    BY <1>2
  <2>2. h[n + 1] = Ponged(h[n], q[n + 1])
    BY <1>1, <2>1
  <2>3. q[n + 1] \in Event /\ h[n] \in Seq(PongMsg)
    BY <1>2, <1>4, <2>1
  <2>4. CASE q[n + 1].op # "ping"
    <3>1. h[n + 1] = h[n] \o <<>>
      BY <2>2, <2>4 DEF Ponged
    <3>2. h[n + 1] \in Seq(PongMsg)
      BY <2>3, <3>1, ConcatEmptySeq
    <3> QED BY <2>1, <3>2
  <2>5. CASE q[n + 1].op = "ping"
    <3> DEFINE g == [q[n + 1] EXCEPT !.op = "pong"]
    <3>1. h[n + 1] = h[n] \o <<g>>
      BY <2>2, <2>5 DEF Ponged
    <3>2. g \in PongMsg
      BY <2>3 DEF PongMsg, OutMsg, Event, N
    <3> HIDE DEF g
    <3>3. <<g>> \in Seq(PongMsg)
      BY <3>2
    <3>4. h[n + 1] \in Seq(PongMsg)
      BY <2>3, <3>1, <3>3, ConcatProperties
    <3> QED BY <2>1, <3>4
  <2> QED BY <2>4, <2>5
<1> HIDE DEF P
<1>5. 0..Len(q) \subseteq P
  BY <1>2, <1>3, <1>4, UpTo
<1> QED BY <1>1, <1>2, <1>5 DEF P

MorePongs(o, v) ==
  \A i \in DOMAIN v : v[i].op = "pong" \/ (i \in DOMAIN o /\ v[i] = o[i])

\* Pongs are put behind what is to be sent.
LEMMA PongsAdded ==
  ASSUME NEW t \in Session, NEW w \in Seq(PongMsg), NEW p \in Seq(Msg), NEW u,
         u = [t EXCEPT !.out = @ \o w]
  PROVE  /\ u \in Session /\ SameTable(t, u) /\ Along(t, u) /\ u.shutting = t.shutting
         /\ MorePongs(p \o t.out, p \o u.out)
<1>1. t.out \in Seq(OutMsg) /\ w \in Seq(OutMsg)
  <2>1. PongMsg \subseteq OutMsg
    BY DEF PongMsg
  <2> QED BY <2>1, SessionDef, SeqMonotonic
<1>2. t.out \o w \in Seq(OutMsg)
  BY <1>1, ConcatProperties
<1>3. /\ u \in Session /\ u.out = t.out \o w /\ SameTable(t, u) /\ u.shutting = t.shutting
      /\ u.sock = t.sock /\ u.wronged = t.wronged
  BY <1>2, SessionDef DEF SameTable
<1>4. t.out # <<>> => u.out # <<>>
  BY <1>1, <1>3
<1>5. Along(t, u)
  BY <1>3, <1>4 DEF Along, SameTable
<1>6. t.out \in Seq(Msg) /\ w \in Seq(Msg) /\ u.out \in Seq(Msg)
  BY <1>1, <1>2, <1>3, FrameFacts
<1> DEFINE o == p \o t.out
<1>7. o \in Seq(Msg) /\ p \o u.out \in Seq(Msg)
  BY <1>6, ConcatProperties
<1>8. p \o u.out = o \o w
  <2> DEFINE x == t.out
  <2>1. u.out = x \o w /\ o = p \o x /\ x \in Seq(Msg)
    BY <1>3, <1>6
  <2> HIDE DEF x, o
  <2>2. (p \o x) \o w = p \o (x \o w)
    <3>1. p \in Seq(Msg) /\ x \in Seq(Msg) /\ w \in Seq(Msg)
      BY <1>6, <2>1
    <3>2. \A S : \A a, b, c \in Seq(S) : (a \o b) \o c = a \o (b \o c)
      BY ConcatThree
    <3> QED BY ONLY <3>1, <3>2
  <2> QED BY <2>1, <2>2
<1> HIDE DEF o
<1>9. Len(o) \in Nat /\ DOMAIN o = 1..Len(o) /\ Len(w) \in Nat /\ w \in [1..Len(w) -> PongMsg]
  BY <1>7, LenProperties
<1>10. /\ o \o w \in Seq(Msg) /\ Len(o \o w) = Len(o) + Len(w)
       /\ \A i \in 1..Len(o) + Len(w) : (o \o w)[i] = IF i <= Len(o) THEN o[i] ELSE w[i - Len(o)]
  BY <1>6, <1>7, ConcatProperties
<1>11. DOMAIN (o \o w) = 1..Len(o) + Len(w)
  BY <1>10, LenProperties
<1>12. ASSUME NEW i \in 1..Len(o) + Len(w)
       PROVE  \/ i \in 1..Len(o) /\ (o \o w)[i] = o[i]
              \/ (o \o w)[i].op = "pong"
  <2>1. CASE i <= Len(o)
    BY <1>9, <1>10, <2>1
  <2>2. CASE ~(i <= Len(o))
    <3>1. i - Len(o) \in 1..Len(w)
      BY <1>9, <2>2
    <3>2. (o \o w)[i] = w[i - Len(o)] /\ w[i - Len(o)] \in PongMsg
      BY <1>9, <1>10, <2>2, <3>1
    <3> QED BY <3>2 DEF PongMsg
  <2> QED BY <2>1, <2>2
<1>13. \A i \in DOMAIN (o \o w) : \/ i \in DOMAIN o /\ (o \o w)[i] = o[i]
                                  \/ (o \o w)[i].op = "pong"
  BY <1>9, <1>11, <1>12
<1> QED BY <1>3, <1>5, <1>7, <1>8, <1>13 DEF o, MorePongs

LEMMA ClientPongs ==
  ASSUME NEW t, NEW cs, NEW q, NEW p \in Seq(Msg), NEW todo, ClientOK(t, cs, q, p, todo),
         NEW w \in Seq(PongMsg), NEW u, u = [t EXCEPT !.out = @ \o w]
  PROVE  ClientOK(u, cs, q, p, todo) /\ Along(t, u)
<1>1. /\ t \in Session /\ t.sock /\ cs \in [Call -> CallState] /\ q \in Seq(Msg)
      /\ ClientTable(t, cs) /\ Open(t, cs) /\ ClientFrames(t, q, p \o t.out, todo)
  BY DEF ClientOK
<1>2. /\ u \in Session /\ SameTable(t, u) /\ Along(t, u)
      /\ MorePongs(p \o t.out, p \o u.out)
  BY <1>1, PongsAdded
<1>3. ClientTable(u, cs)
  BY <1>1, <1>2, ClientTableSame
<1>4. \A f : Owed(t, f) => Owed(u, f)
  BY <1>2 DEF SameTable, Owed
<1>5. ClientFrames(u, q, p \o u.out, todo)
  BY <1>1, <1>2, <1>4 DEF ClientFrames, ClientSays, MorePongs
<1>6. Open(u, cs)
  BY <1>1, <1>2 DEF Open, Own, SameTable
<1> QED BY <1>1, <1>2, <1>3, <1>5, <1>6 DEF ClientOK, Along

LEMMA ServerPongs ==
  ASSUME NEW t, NEW cs, NEW q, NEW p \in Seq(Msg), NEW num, ServerOK(t, cs, q, p, num),
         NEW w \in Seq(PongMsg), NEW u, u = [t EXCEPT !.out = @ \o w]
  PROVE  ServerOK(u, cs, q, p, num) /\ Along(t, u)
<1>1. /\ t \in Session /\ t.sock /\ cs \in [Call -> CallState] /\ q \in Seq(Msg)
      /\ ServerTable(t, cs, num) /\ Open(t, cs) /\ ServerFrames(t, cs, q, p \o t.out, num)
  BY ServerFacts
<1>2. /\ u \in Session /\ SameTable(t, u) /\ Along(t, u) /\ u.shutting = t.shutting
      /\ MorePongs(p \o t.out, p \o u.out)
  BY <1>1, PongsAdded
<1>3. ServerTable(u, cs, num)
  BY <1>1, <1>2, ServerTableSame
<1>4. u.ping = t.ping /\ u.ponged = t.ponged /\ u.misread = t.misread
  BY <1>2 DEF SameTable
<1> DEFINE o == p \o t.out
           v == p \o u.out
<1>5. ServerFrames(u, cs, q, v, num)
  <2>1. ServerFrames(t, cs, q, o, num)
    BY <1>1
  <2>2. \A i \in DOMAIN v : v[i].op = "pong" \/ (i \in DOMAIN o /\ v[i] = o[i])
    BY <1>2 DEF MorePongs
  <2> HIDE DEF o, v
  <2>3. \A i \in DOMAIN v : v[i].op = "ping" => i \in DOMAIN o /\ v[i] = o[i]
    BY <2>2
  <2>4. \A i \in DOMAIN v : v[i].op \in ServerSays
    BY <2>1, <2>2 DEF ServerFrames, ServerSays
  <2> QED BY <1>4, <2>1, <2>3, <2>4 DEF ServerFrames
<1>6. Open(u, cs)
  BY <1>1, <1>2 DEF Open, Own, SameTable
<1> QED BY <1>1, <1>2, <1>3, <1>5, <1>6 DEF ServerOK, Along

\* A client that handles what has come keeps its books, and nothing raises:
\* what was sent, it can decode.
LEMMA ClientHandled ==
  ASSUME IsClient, tx \in Seq(Msg), NEW todo, ClientOK(s, call, rx, tx, todo),
         TooLarge(rx) = {},
         NEW b, b = Handled(rx)
  PROVE  /\ ClientOK(b.session, b.calls, <<>>, tx, todo) /\ ~b.raised
         /\ Along(s, b.session) /\ Onward(call, b.calls)
<1>0. rx \in Seq(Msg) /\ Len(rx) \in Nat
  BY LenProperties DEF ClientOK
<1>7. rx \in Seq(Event) /\ \A i \in 1..Len(rx) : rx[i] \in Event /\ rx[i].op # "oversized"
  BY <1>0, EventFacts, LenProperties DEF TooLarge
<1>1. PICK h : /\ h = [n \in 0..Len(rx) |-> IF n = 0 THEN Before(rx) ELSE HandleEvent(h[n - 1], rx[n])]
               /\ Handled(rx) = h[Len(rx)]
  BY <1>7, HandledRuns
<1> DEFINE G(a, n) ==
             /\ ClientOK(a.session, a.calls, Left(rx, n), tx, todo) /\ ~a.raised /\ Shaped(a)
             /\ Along(s, a.session) /\ Onward(call, a.calls)
           P == {n \in 0..Len(rx) : G(h[n], n)}
<1>2. 0 \in P
  <2> DEFINE u == [s EXCEPT !.out = @ \o Pongs(rx)]
  <2>1. h[0] = Before(rx) /\ 0 \in 0..Len(rx)
    BY <1>0, <1>1
  <2>2. Before(rx) = After(u, call)
    BY DEF Before
  <2>3. Pongs(rx) \in Seq(PongMsg)
    BY <1>7, PongsType
  <2>4. ClientOK(u, call, rx, tx, todo) /\ Along(s, u)
    BY <2>3, ClientPongs
  <2> HIDE DEF u
  <2>5. h[0].session = u /\ h[0].calls = call /\ ~h[0].raised /\ Shaped(h[0])
    BY <2>1, <2>2, AfterFacts, ShapeFacts
  <2>6. Left(rx, 0) = rx
    BY <1>0, LeftFacts
  <2> QED BY <2>1, <2>4, <2>5, <2>6, AlongSteps
<1>3. ASSUME NEW n \in 0..Len(rx) - 1, n \in P PROVE n + 1 \in P
  <2> DEFINE a == h[n]
             q == Left(rx, n)
  <2>1. n + 1 \in 0..Len(rx) /\ n + 1 # 0 /\ (n + 1) - 1 = n
    BY <1>0
  <2>2. h[n + 1] = HandleEvent(a, rx[n + 1])
    BY <1>1, <2>1
  <2>3. q \in Seq(Msg) /\ q # <<>> /\ Head(q) = rx[n + 1] /\ Tail(q) = Left(rx, n + 1)
    BY <1>0, LeftFacts
  <2>4. G(a, n)
    BY <1>3
  <2> HIDE DEF a, q
  <2>5. a = After(a.session, a.calls) /\ ClientOK(a.session, a.calls, q, tx, todo)
        /\ Along(s, a.session) /\ Onward(call, a.calls) /\ Shaped(a)
    BY <2>4, ShapeFacts DEF q
  <2>6. h[n + 1] = HandleEvent(After(a.session, a.calls), Head(q))
    BY <2>2, <2>3, <2>5
  <2>7. /\ ClientOK(h[n + 1].session, h[n + 1].calls, Tail(q), tx, todo) /\ ~h[n + 1].raised
        /\ Along(a.session, h[n + 1].session) /\ Onward(a.calls, h[n + 1].calls)
    <3>1. Head(q).op # "oversized"
      BY <1>0, <1>7, <2>1, <2>3
    <3> QED BY <2>3, <2>5, <2>6, <3>1, ClientEvent
  <2>8. Shaped(h[n + 1])
    <3>1. rx[n + 1] \in Event /\ rx[n + 1].op \notin {"push", "oversized"}
      <4>1. ClientFrames(a.session, q, tx \o a.session.out, todo)
        BY <2>5 DEF ClientOK
      <4>2. 1 \in DOMAIN q /\ q[1] = Head(q) /\ Head(q) \in Msg
        BY <2>3
      <4> QED BY <1>0, <1>7, <2>1, <2>3, <4>1, <4>2 DEF ClientFrames
    <3> QED BY <2>2, <2>5, <3>1, EventShape
  <2>9. Along(s, h[n + 1].session) /\ Onward(call, h[n + 1].calls)
    BY <2>5, <2>7, AlongSteps
  <2> QED BY <2>1, <2>3, <2>7, <2>8, <2>9
<1> HIDE DEF P
<1>4. 0..Len(rx) \subseteq P
  BY <1>0, <1>2, <1>3, UpTo
<1>5. G(b, Len(rx))
  BY <1>0, <1>1, <1>4 DEF P
<1>6. Left(rx, Len(rx)) = <<>>
  BY <1>0, LeftFacts
<1> QED BY <1>5, <1>6

\* So does a server; a handler that raises leaves the frames behind it out.
LEMMA ServerHandled ==
  ASSUME ~IsClient, tx \in Seq(Msg), NEW num, Numbers(num), ServerOK(s, call, rx, tx, num),
         TooLarge(rx) = {},
         NEW b, b = Handled(rx)
  PROVE  /\ ServerOK(b.session, b.calls, <<>>, tx, num)
         /\ Along(s, b.session) /\ Onward(call, b.calls)
<1>0. rx \in Seq(Msg) /\ Len(rx) \in Nat
  BY LenProperties DEF ServerOK
<1>7. rx \in Seq(Event) /\ \A i \in 1..Len(rx) : rx[i] \in Event /\ rx[i].op # "oversized"
  BY <1>0, EventFacts, LenProperties DEF TooLarge
<1>1. PICK h : /\ h = [n \in 0..Len(rx) |-> IF n = 0 THEN Before(rx) ELSE HandleEvent(h[n - 1], rx[n])]
               /\ Handled(rx) = h[Len(rx)]
  BY <1>7, HandledRuns
<1> DEFINE G(a, n) ==
             /\ ServerOK(a.session, a.calls, Left(rx, n), tx, num) /\ Shaped(a)
             /\ Along(s, a.session) /\ Onward(call, a.calls)
           P == {n \in 0..Len(rx) : G(h[n], n)}
<1>2. 0 \in P
  <2> DEFINE u == [s EXCEPT !.out = @ \o Pongs(rx)]
  <2>1. h[0] = Before(rx) /\ 0 \in 0..Len(rx)
    BY <1>0, <1>1
  <2>2. Before(rx) = After(u, call)
    BY DEF Before
  <2>3. Pongs(rx) \in Seq(PongMsg)
    BY <1>7, PongsType
  <2>4. ServerOK(u, call, rx, tx, num) /\ Along(s, u)
    BY <2>3, ServerPongs
  <2> HIDE DEF u
  <2>5. h[0].session = u /\ h[0].calls = call /\ Shaped(h[0])
    BY <2>1, <2>2, AfterFacts, ShapeFacts
  <2>6. Left(rx, 0) = rx
    BY <1>0, LeftFacts
  <2> QED BY <2>1, <2>4, <2>5, <2>6, AlongSteps
<1>3. ASSUME NEW n \in 0..Len(rx) - 1, n \in P PROVE n + 1 \in P
  <2> DEFINE a == h[n]
             q == Left(rx, n)
  <2>1. n + 1 \in 0..Len(rx) /\ n + 1 # 0 /\ (n + 1) - 1 = n
    BY <1>0
  <2>2. h[n + 1] = HandleEvent(a, rx[n + 1])
    BY <1>1, <2>1
  <2>3. q \in Seq(Msg) /\ q # <<>> /\ Head(q) = rx[n + 1] /\ Tail(q) = Left(rx, n + 1)
    BY <1>0, LeftFacts
  <2>4. G(a, n)
    BY <1>3
  <2> HIDE DEF a, q
  <2>5. ServerOK(a.session, a.calls, q, tx, num)
        /\ Along(s, a.session) /\ Onward(call, a.calls) /\ Shaped(a)
    BY <2>4 DEF q
  <2>6. CASE a.raised
    <3>1. h[n + 1] = a
      BY <2>2, <2>6 DEF HandleEvent
    <3>2. Tail(q) \in Seq(Msg) /\ Suffix(Tail(q), q)
      BY <2>3, TailSuffix
    <3>3. ServerOK(a.session, a.calls, Tail(q), tx, num)
      BY <2>5, <3>2, ServerNext
    <3> QED BY <2>1, <2>3, <2>5, <3>1, <3>3
  <2>7. CASE ~a.raised
    <3>1. a = After(a.session, a.calls)
      BY <2>5, <2>7, ShapeFacts
    <3>2. h[n + 1] = HandleEvent(After(a.session, a.calls), Head(q))
      BY <2>2, <2>3, <3>1
    <3>3. /\ ServerOK(h[n + 1].session, h[n + 1].calls, Tail(q), tx, num)
          /\ Along(a.session, h[n + 1].session) /\ Onward(a.calls, h[n + 1].calls)
      <4>1. Head(q).op # "oversized"
        BY <1>0, <1>7, <2>1, <2>3
      <4> QED BY <2>3, <2>5, <3>2, <4>1, ServerEvent
    <3>4. Shaped(h[n + 1])
      <4>1. rx[n + 1] \in Event /\ rx[n + 1].op \notin {"push", "oversized"}
        <5>1. ServerFrames(a.session, a.calls, q, tx \o a.session.out, num)
          BY <2>5 DEF ServerOK
        <5>2. 1 \in DOMAIN q /\ q[1] = Head(q) /\ Head(q) \in Msg
          BY <2>3
        <5> QED BY <1>0, <1>7, <2>1, <2>3, <5>1, <5>2 DEF ServerFrames
      <4> QED BY <2>2, <2>5, <4>1, EventShape
    <3>5. Along(s, h[n + 1].session) /\ Onward(call, h[n + 1].calls)
      BY <2>5, <3>3, AlongSteps
    <3> QED BY <2>1, <2>3, <3>3, <3>4, <3>5
  <2> QED BY <2>6, <2>7
<1> HIDE DEF P
<1>4. 0..Len(rx) \subseteq P
  BY <1>0, <1>2, <1>3, UpTo
<1>5. G(b, Len(rx))
  BY <1>0, <1>1, <1>4 DEF P
<1>6. Left(rx, Len(rx)) = <<>>
  BY <1>0, LeftFacts
<1> QED BY <1>5, <1>6

\* A chunk of a decoder that is out of step.
LEMMA GarbledHandled ==
  ASSUME NEW frames, frames = <<>> \/ \E f \in Garbles : frames = <<f>>
  PROVE  \E w \in Seq(PongMsg) : \E u, a :
           /\ u = [s EXCEPT !.out = @ \o w] /\ a = After(u, call)
           /\ \/ Handled(frames) = a
              \/ \E f \in Garbles : Handled(frames) = HandleEvent(a, f)
<1>1. \A f \in Garbles : f \in Event /\ f.op # "oversized"
  BY DEF Garbles, Event, N
<1>2. frames \in Seq(Event) /\ Len(frames) \in {0, 1} /\ (Len(frames) = 1 => frames[1] \in Garbles)
  <2>1. CASE frames = <<>>
    BY <2>1
  <2>2. ASSUME NEW f \in Garbles, frames = <<f>>
        PROVE  frames \in Seq(Event) /\ Len(frames) = 1 /\ frames[1] = f
    <3>1. f \in Event
      BY <1>1
    <3> QED BY <2>2, <3>1
  <2> QED BY <2>1, <2>2
<1>3. TooLarge(frames) = {}
  BY <1>1, <1>2 DEF TooLarge
<1>9. frames \in Seq(Event)
  BY <1>2
<1>4. PICK h : /\ h = [n \in 0..Len(frames) |->
                        IF n = 0 THEN Before(frames) ELSE HandleEvent(h[n - 1], frames[n])]
               /\ Handled(frames) = h[Len(frames)]
  BY ONLY <1>3, <1>9, HandledRuns
<1>5. h[0] = Before(frames)
  BY <1>2, <1>4
<1>6. Len(frames) = 1 => h[1] = HandleEvent(Before(frames), frames[1])
  <2> SUFFICES ASSUME Len(frames) = 1 PROVE h[1] = HandleEvent(h[0], frames[1])
    BY <1>5
  <2>1. 1 \in 0..Len(frames) /\ 1 # 0 /\ 1 - 1 = 0
    OBVIOUS
  <2> QED BY <1>4, <2>1
<1>7. Pongs(frames) \in Seq(PongMsg)
  BY ONLY <1>9, PongsType
<1>8. \/ Handled(frames) = Before(frames)
      \/ \E f \in Garbles : Handled(frames) = HandleEvent(Before(frames), f)
  BY <1>2, <1>4, <1>5, <1>6
<1> QED BY <1>7, <1>8 DEF Before

\* The decoder fails amid a frame, which changes nothing that the table says.
LEMMA ClientMisreads ==
  ASSUME NEW t, NEW cs, NEW q, NEW p \in Seq(Msg), NEW todo, ClientOK(t, cs, q, p, todo),
         NEW u, u = [t EXCEPT !.misread = TRUE]
  PROVE  ClientOK(u, cs, q, p, todo)
<1>1. /\ t \in Session /\ ClientTable(t, cs) /\ Open(t, cs)
      /\ ClientFrames(t, q, p \o t.out, todo)
  BY DEF ClientOK
<1>2. /\ u \in Session /\ u.sock = t.sock /\ u.out = t.out /\ u.seq = t.seq /\ u.ping = t.ping
      /\ u.ponged = t.ponged /\ u.heard = t.heard /\ u.inflight = t.inflight
      /\ u.shared = t.shared /\ u.misread
  BY <1>1, SessionDef
<1>3. ClientTable(u, cs)
  BY <1>1, <1>2 DEF ClientTable, Holds
<1>4. ClientFrames(u, q, p \o u.out, todo)
  BY <1>1, <1>2 DEF ClientFrames, Owed
<1>5. Open(u, cs)
  BY <1>1, <1>2 DEF Open, Own
<1> QED BY <1>2, <1>3, <1>4, <1>5 DEF ClientOK

LEMMA ServerMisreads ==
  ASSUME NEW t, NEW cs, NEW q, NEW p \in Seq(Msg), NEW num, ServerOK(t, cs, q, p, num),
         NEW u, u = [t EXCEPT !.misread = TRUE]
  PROVE  ServerOK(u, cs, q, p, num)
<1>1. /\ t \in Session /\ ServerTable(t, cs, num) /\ Open(t, cs)
      /\ ServerFrames(t, cs, q, p \o t.out, num)
  BY DEF ServerOK
<1>2. /\ u \in Session /\ u.sock = t.sock /\ u.out = t.out /\ u.seq = t.seq /\ u.ping = t.ping
      /\ u.ponged = t.ponged /\ u.heard = t.heard /\ u.inflight = t.inflight
      /\ u.shared = t.shared /\ u.misread /\ u.shutting = t.shutting
  BY <1>1, SessionDef
<1>3. ServerTable(u, cs, num)
  BY <1>1, <1>2 DEF ServerTable, Holds
<1>4. ServerFrames(u, cs, q, p \o u.out, num)
  <2> DEFINE o == p \o t.out
  <2>1. ServerFrames(t, cs, q, o, num)
    BY <1>1
  <2> HIDE DEF o
  <2>2. ServerFrames(u, cs, q, o, num)
    BY <1>2, <2>1 DEF ServerFrames
  <2> QED BY <1>2, <2>2 DEF o
<1>5. Open(u, cs)
  BY <1>1, <1>2 DEF Open, Own
<1> QED BY <1>2, <1>3, <1>4, <1>5 DEF ServerOK

\* The end of a chunk that the decoder has failed at: the pongs and the goodbye.
LEMMA DecoderFailure ==
  ASSUME s \in Session, rx \in Seq(Msg), TooLarge(rx) # {}
  PROVE  \E w \in Seq(PongMsg) : \E u, v :
           /\ u = [s EXCEPT !.out = @ \o w] /\ v = [u EXCEPT !.misread = TRUE]
           /\ Handled(rx) = After(Close(v, TRUE), call)
<1> DEFINE m == Min(TooLarge(rx))
           w == Pongs(SubSeq(rx, 1, m - 1))
           u == [s EXCEPT !.out = @ \o w]
           v == [u EXCEPT !.misread = TRUE]
<1>1. m \in 1..Len(rx)
  <2>1. PICK i \in TooLarge(rx) : TRUE
    OBVIOUS
  <2>2. TooLarge(rx) \subseteq 1..Len(rx) /\ Len(rx) \in Nat
    BY LenProperties DEF TooLarge
  <2> DEFINE T == TooLarge(rx)
  <2>3. T \in SUBSET Nat /\ T # {}
    BY <2>1, <2>2
  <2> HIDE DEF T
  <2>4. \E x \in T : \A y \in T : ~(<<y, x>> \in OpToRel(<, Nat))
    BY <2>3, NatLessThanWellFounded, WFMin
  <2>7. PICK x \in T : \A y \in T : ~(<<y, x>> \in OpToRel(<, Nat))
    BY <2>4
  <2>8. \A y \in T : ~(y < x)
    BY <2>3, <2>7 DEF OpToRel
  <2>5. \E z \in T : \A y \in T : z <= y
    BY <2>3, <2>8
  <2>6. Min(T) \in T
    BY <2>5 DEF Min
  <2> QED BY <2>2, <2>6 DEF T
<1>2. SubSeq(rx, 1, m - 1) \in Seq(Msg)
  <2> HIDE DEF m
  <2>1. Len(rx) \in Nat /\ m - 1 <= Len(rx)
    BY <1>1, LenProperties
  <2> QED BY <1>1, <2>1, SubSeqProperties
<1>3. w \in Seq(PongMsg)
  <2> HIDE DEF m
  <2> QED BY <1>2, PongsType, EventFacts
<1>4. [s EXCEPT !.misread = TRUE, !.out = @ \o w] = v
  BY SessionDef
<1>5. Handled(rx) = After(Close(v, TRUE), call)
  BY <1>4 DEF Handled, DecoderFails
<1> HIDE DEF w
<1> QED BY <1>3, <1>5

LEMMA CloseQuiet ==
  ASSUME NEW t \in Session
  PROVE  LET u == Close(t, TRUE)
         IN  /\ u \in Session /\ SameTable(t, u) /\ u.sock = t.sock /\ u.wronged = t.wronged
             /\ u.shutting
             /\ \/ u.out = t.out
                \/ \E f \in OutMsg : f.op = "goaway" /\ u.out = Append(t.out, f)
<1>1. Frame("goaway", 0, NoCall) \in OutMsg /\ Frame("goaway", 0, NoCall).op = "goaway"
  BY FrameFacts, NIsNat
<1> QED BY <1>1, CloseFacts

\* What a chunk is decoded as, and handled: what was sent, in whole or up to a
\* decoder error, or a frame that nobody sent.
LEMMA ClientChunk ==
  ASSUME IsClient, tx \in Seq(Msg), NEW todo, ClientOK(s, call, rx, tx, todo),
         NEW frames \in Decodes(rx), NEW b, b = Handled(frames)
  PROVE  /\ ClientOK(b.session, b.calls, <<>>, tx, todo)
         /\ Along(s, b.session) /\ Onward(call, b.calls)
<1>1. s \in Session /\ rx \in Seq(Msg)
  BY DEF ClientOK
<1>2. <<>> \in Seq(Msg) /\ Suffix(<<>>, rx)
  <2>1. Len(rx) \in Nat /\ Len(<<>>) = 0 /\ <<>> \in Seq(Msg)
    BY <1>1, LenProperties
  <2> QED BY <2>1 DEF Suffix
<1>3. ClientOK(s, call, <<>>, tx, todo)
  BY <1>2, ClientNext
<1>4. CASE frames = rx /\ TooLarge(rx) = {}
  BY <1>4, ClientHandled
<1>5. CASE frames = rx /\ TooLarge(rx) # {}
  <2>1. PICK w \in Seq(PongMsg) : \E u, v :
           /\ u = [s EXCEPT !.out = @ \o w] /\ v = [u EXCEPT !.misread = TRUE]
           /\ Handled(rx) = After(Close(v, TRUE), call)
    BY <1>1, <1>5, DecoderFailure
  <2>2. PICK u, v : /\ u = [s EXCEPT !.out = @ \o w] /\ v = [u EXCEPT !.misread = TRUE]
                    /\ Handled(rx) = After(Close(v, TRUE), call)
    BY <2>1
  <2>3. ClientOK(u, call, <<>>, tx, todo) /\ Along(s, u)
    BY <1>3, <2>2, ClientPongs
  <2>4. ClientOK(v, call, <<>>, tx, todo)
    BY <2>2, <2>3, ClientMisreads
  <2>5. u \in Session /\ v \in Session
    BY <2>3, <2>4 DEF ClientOK
  <2>6. v.sock = u.sock /\ v.seq = u.seq /\ v.wronged = u.wronged /\ v.shared = u.shared
        /\ v.late = u.late /\ v.out = u.out /\ v.misread
    BY <2>2, <2>5, SessionDef
  <2> DEFINE x == Close(v, TRUE)
  <2>7. /\ x \in Session /\ SameTable(v, x) /\ x.sock = v.sock /\ x.wronged = v.wronged
        /\ x.shutting
        /\ \/ x.out = v.out
           \/ \E f \in OutMsg : f.op = "goaway" /\ x.out = Append(v.out, f)
    BY <2>5, CloseQuiet
  <2>8. b = After(x, call)
    BY <1>5, <2>2
  <2> HIDE DEF x
  <2>9. ClientOK(x, call, <<>>, tx, todo) /\ Along(v, x)
    BY <2>4, <2>7, ClientQuiet
  <2>10. Along(s, x)
    BY <2>3, <2>6, <2>7, <2>9 DEF Along, SameTable
  <2> QED BY <2>8, <2>9, <2>10, AfterFacts, AlongSteps
<1>6. ASSUME s.misread, frames = <<>> \/ \E f \in Garbles : frames = <<f>>
      PROVE  /\ ClientOK(b.session, b.calls, <<>>, tx, todo)
             /\ Along(s, b.session) /\ Onward(call, b.calls)
  <2>1. PICK w \in Seq(PongMsg) : \E u : \E a :
          /\ u = [s EXCEPT !.out = @ \o w] /\ a = After(u, call)
          /\ \/ b = a
             \/ \E f \in Garbles : b = HandleEvent(a, f)
    BY <1>1, <1>6, GarbledHandled
  <2>2. PICK u : u = [s EXCEPT !.out = @ \o w] /\ (b = After(u, call)
                 \/ \E f \in Garbles : b = HandleEvent(After(u, call), f))
    BY <2>1
  <2>3. ClientOK(u, call, <<>>, tx, todo) /\ Along(s, u)
    BY <1>3, <2>2, ClientPongs
  <2>4. CASE b = After(u, call)
    BY <2>3, <2>4, AfterFacts, AlongSteps
  <2>5. ASSUME NEW f \in Garbles, b = HandleEvent(After(u, call), f)
        PROVE  /\ ClientOK(b.session, b.calls, <<>>, tx, todo)
               /\ Along(u, b.session) /\ Onward(call, b.calls)
    <3>1. u.misread
      BY <1>6, <2>3 DEF Along
    <3> QED BY <2>3, <2>5, <3>1, ClientGarbled
  <2> QED BY <2>2, <2>3, <2>4, <2>5, AlongSteps
<1>7. \/ frames = rx
      \/ s.misread /\ (frames = <<>> \/ \E f \in Garbles : frames = <<f>>)
  BY DEF Decodes
<1> QED BY <1>4, <1>5, <1>6, <1>7

LEMMA ServerChunk ==
  ASSUME ~IsClient, tx \in Seq(Msg), NEW num, Numbers(num), ServerOK(s, call, rx, tx, num),
         NEW frames \in Decodes(rx), NEW b, b = Handled(frames)
  PROVE  /\ ServerOK(b.session, b.calls, <<>>, tx, num)
         /\ Along(s, b.session) /\ Onward(call, b.calls)
<1>1. s \in Session /\ rx \in Seq(Msg)
  BY DEF ServerOK
<1>2. <<>> \in Seq(Msg) /\ Suffix(<<>>, rx)
  <2>1. Len(rx) \in Nat /\ Len(<<>>) = 0 /\ <<>> \in Seq(Msg)
    BY <1>1, LenProperties
  <2> QED BY <2>1 DEF Suffix
<1>3. ServerOK(s, call, <<>>, tx, num)
  BY <1>2, ServerNext
<1>4. CASE frames = rx /\ TooLarge(rx) = {}
  BY <1>4, ServerHandled
<1>5. CASE frames = rx /\ TooLarge(rx) # {}
  <2>1. PICK w \in Seq(PongMsg) : \E u, v :
           /\ u = [s EXCEPT !.out = @ \o w] /\ v = [u EXCEPT !.misread = TRUE]
           /\ Handled(rx) = After(Close(v, TRUE), call)
    BY <1>1, <1>5, DecoderFailure
  <2>2. PICK u, v : /\ u = [s EXCEPT !.out = @ \o w] /\ v = [u EXCEPT !.misread = TRUE]
                    /\ Handled(rx) = After(Close(v, TRUE), call)
    BY <2>1
  <2>3. ServerOK(u, call, <<>>, tx, num) /\ Along(s, u)
    BY <1>3, <2>2, ServerPongs
  <2>4. ServerOK(v, call, <<>>, tx, num)
    BY <2>2, <2>3, ServerMisreads
  <2>5. u \in Session /\ v \in Session
    BY <2>3, <2>4 DEF ServerOK
  <2>6. v.sock = u.sock /\ v.seq = u.seq /\ v.wronged = u.wronged /\ v.shared = u.shared
        /\ v.late = u.late /\ v.out = u.out /\ v.misread
    BY <2>2, <2>5, SessionDef
  <2> DEFINE x == Close(v, TRUE)
  <2>7. /\ x \in Session /\ SameTable(v, x) /\ x.sock = v.sock /\ x.wronged = v.wronged
        /\ x.shutting
        /\ \/ x.out = v.out
           \/ \E f \in OutMsg : f.op = "goaway" /\ x.out = Append(v.out, f)
    BY <2>5, CloseQuiet
  <2>8. b = After(x, call)
    BY <1>5, <2>2
  <2> HIDE DEF x
  <2>9. ServerOK(x, call, <<>>, tx, num) /\ Along(v, x)
    <3>1. \A f : f.op = "goaway" => f.op \in ServerSays \ {"ping"}
      BY DEF ServerSays
    <3> QED BY <2>4, <2>7, <3>1, ServerQuiet
  <2>10. Along(s, x)
    BY <2>3, <2>6, <2>7, <2>9 DEF Along, SameTable
  <2> QED BY <2>8, <2>9, <2>10, AfterFacts, AlongSteps
<1>6. ASSUME s.misread, frames = <<>> \/ \E f \in Garbles : frames = <<f>>
      PROVE  /\ ServerOK(b.session, b.calls, <<>>, tx, num)
             /\ Along(s, b.session) /\ Onward(call, b.calls)
  <2>1. PICK w \in Seq(PongMsg) : \E u : \E a :
          /\ u = [s EXCEPT !.out = @ \o w] /\ a = After(u, call)
          /\ \/ b = a
             \/ \E f \in Garbles : b = HandleEvent(a, f)
    BY <1>1, <1>6, GarbledHandled
  <2>2. PICK u : u = [s EXCEPT !.out = @ \o w] /\ (b = After(u, call)
                 \/ \E f \in Garbles : b = HandleEvent(After(u, call), f))
    BY <2>1
  <2>3. ServerOK(u, call, <<>>, tx, num) /\ Along(s, u)
    BY <1>3, <2>2, ServerPongs
  <2>4. CASE b = After(u, call)
    BY <2>3, <2>4, AfterFacts, AlongSteps
  <2>5. ASSUME NEW f \in Garbles, b = HandleEvent(After(u, call), f)
        PROVE  /\ ServerOK(b.session, b.calls, <<>>, tx, num)
               /\ Along(u, b.session) /\ Onward(call, b.calls)
    <3>1. u.misread
      BY <1>6, <2>3 DEF Along
    <3> QED BY <2>3, <2>5, <3>1, ServerGarbled
  <2> QED BY <2>2, <2>3, <2>4, <2>5, AlongSteps
<1>7. \/ frames = rx
      \/ s.misread /\ (frames = <<>> \/ \E f \in Garbles : frames = <<f>>)
  BY DEF Decodes
<1> QED BY <1>4, <1>5, <1>6, <1>7

-----------------------------------------------------------------------------
(* The invariant and what the operations do to it                          *)

LEMMA GoodFacts ==
  ASSUME NEW t, NEW cs, NEW k, NEW q, NEW p, NEW pr, Good(t, cs, k, q, p, pr)
  PROVE  /\ t \in Session /\ cs \in [Call -> CallState] /\ pr \in Peers
         /\ q \in Seq(Msg) /\ p \in Seq(Msg) /\ k \in Nat
         /\ pr.todo \in SUBSET Msg /\ pr.num \in [Call -> 0..N]
         /\ Numbers(pr.num) /\ NumOK(cs, pr.num)
         /\ t.out \in Seq(OutMsg) /\ t.out \in Seq(Msg) /\ p \o t.out \in Seq(Msg)
         /\ t.inflight \in Tables /\ t.shared \subseteq Call /\ t.seq \in 0..N
         /\ t.sock \in BOOLEAN /\ t.shutting \in BOOLEAN
<1>1. /\ t \in Session /\ cs \in [Call -> CallState] /\ pr \in Peers
      /\ q \in Seq(Msg) /\ p \in Seq(Msg) /\ k \in Nat /\ NumOK(cs, pr.num)
  BY DEF Good, Typed, Books
<1>2. pr.todo \in SUBSET Msg /\ pr.num \in [Call -> 0..N]
  BY <1>1 DEF Peers
<1>3. Numbers(pr.num)
  BY <1>1 DEF NumOK, Numbers
<1>4. /\ t.out \in Seq(OutMsg) /\ t.inflight \in Tables /\ t.shared \subseteq Call /\ t.seq \in 0..N
      /\ t.sock \in BOOLEAN /\ t.shutting \in BOOLEAN
  BY <1>1, SessionDef
<1>5. t.out \in Seq(Msg)
  BY <1>4, FrameFacts
<1> QED BY <1>1, <1>2, <1>3, <1>4, <1>5, ConcatProperties

LEMMA FewerSwitches ==
  ASSUME NEW t, NEW cs, NEW k, NEW q, NEW p, NEW pr, Good(t, cs, k, q, p, pr),
         NEW j \in Nat, j <= k
  PROVE  Good(t, cs, j, q, p, pr)
<1>1. Cardinality(Spent(cs)) \in Nat /\ k \in Nat
  BY CallSets, NIsNat DEF Spent, Good, Books
<1>2. Books(t, cs, k, pr.num)
  BY DEF Good
<1>3. j <= Cardinality(Spent(cs)) + IF t.sock THEN 1 ELSE 2
  BY <1>1, <1>2 DEF Books
<1>4. Books(t, cs, j, pr.num)
  BY <1>2, <1>3 DEF Books
<1> QED BY <1>4 DEF Good

\* Calls that go on bound the counters as well as before, and a call that is
\* newly spent may have asked for a switch.
LEMMA OnwardBooks ==
  ASSUME NEW t, NEW u, NEW cs, NEW ds, NEW k, NEW num, Books(t, cs, k, num),
         Onward(cs, ds), u.sock = t.sock, u.seq = t.seq, t.seq \in Nat
  PROVE  /\ Books(u, ds, k, num)
         /\ \A c \in Call : c \in Spent(ds) \ Spent(cs) => Books(u, ds, k + 1, num)
<1>1. Spent(cs) \in SUBSET Call /\ Spent(ds) \in SUBSET Call /\ Spent(cs) \subseteq Spent(ds)
  BY DEF Spent, Onward
<1>2. Numbered(cs) \in SUBSET Call /\ Numbered(ds) \in SUBSET Call /\ Numbered(cs) \subseteq Numbered(ds)
  BY DEF Numbered, Onward
<1>3. /\ Cardinality(Spent(cs)) \in Nat /\ Cardinality(Spent(ds)) \in Nat
      /\ Cardinality(Spent(cs)) <= Cardinality(Spent(ds))
      /\ \A c \in Call : c \in Spent(ds) \ Spent(cs) =>
           Cardinality(Spent(cs)) + 1 <= Cardinality(Spent(ds))
  BY <1>1, CallSets, NIsNat
<1>4. /\ Cardinality(Numbered(cs)) \in Nat /\ Cardinality(Numbered(ds)) \in Nat
      /\ Cardinality(Numbered(cs)) <= Cardinality(Numbered(ds))
  BY <1>2, CallSets, NIsNat
<1>5. \A c \in Call : ds[c] = At("await_ready") => Makes(c)
  BY DEF Books, Onward
<1>6. IsClient => u.seq <= Cardinality(Numbered(ds))
  <2> SUFFICES ASSUME IsClient PROVE u.seq <= Cardinality(Numbered(ds))
    OBVIOUS
  <2>1. t.seq <= Cardinality(Numbered(cs))
    BY DEF Books
  <2> QED BY <1>4, <2>1
<1>7. NumOK(ds, num)
  BY DEF Books, NumOK, Onward
<1>8. k \in Nat /\ k <= Cardinality(Spent(cs)) + IF t.sock THEN 1 ELSE 2
  BY DEF Books
<1>9. k <= Cardinality(Spent(ds)) + IF u.sock THEN 1 ELSE 2
  BY <1>3, <1>8
<1>10. \A c \in Call : c \in Spent(ds) \ Spent(cs) =>
         k + 1 <= Cardinality(Spent(ds)) + IF u.sock THEN 1 ELSE 2
  BY <1>3, <1>8
<1> QED BY <1>5, <1>6, <1>7, <1>8, <1>9, <1>10 DEF Books

\* A caller that is turned away, has sent its push, or waits for the encoder.
LEMMA CallerMoves ==
  ASSUME NEW t, NEW cs, NEW k, NEW q, NEW p, NEW pr, Good(t, cs, k, q, p, pr),
         NEW c \in Call, cs[c] \in {At("idle"), At("await_ready")},
         NEW place \in {"refused", "sent", "await_ready"},
         place = "await_ready" => Makes(c) /\ cs[c] = At("idle")
  PROVE  LET ds == [cs EXCEPT ![c] = At(place)]
         IN  /\ Good(t, ds, k, q, p, pr)
             /\ place # "await_ready" => Good(t, ds, k + 1, q, p, pr)
             /\ ds[c] = At(place) /\ \A d \in Call \ {c} : ds[d] = cs[d]
<1> DEFINE ds == [cs EXCEPT ![c] = At(place)]
<1>1. /\ t \in Session /\ cs \in [Call -> CallState] /\ t.seq \in 0..N /\ k \in Nat
      /\ Typed(t, cs, q, p, pr) /\ Books(t, cs, k, pr.num) /\ Fair(t, cs) /\ Told(t, cs)
      /\ t.sock => Core(t, cs, q, p, pr)
  BY GoodFacts DEF Good
<1>2. /\ At(place) \in CallState /\ At(place)[1] = place
      /\ At("idle")[1] = "idle" /\ At("await_ready")[1] = "await_ready"
      /\ At(place) \notin {At("waiting"), At("deferred"), At("terminated"), At("coming"), At("idle")}
      /\ place # "await_ready" => At(place) # At("await_ready")
  BY AtFacts
<1>3. /\ cs[c] \notin {At("waiting"), At("deferred"), At("terminated"), At("coming")}
      /\ cs[c][1] \notin {"answered", "error"} /\ cs[c][1] \in {"idle", "await_ready"}
  BY AtFacts
<1>4. /\ ds \in [Call -> CallState] /\ ds[c] = At(place)
      /\ \A d \in Call \ {c} : ds[d] = cs[d]
  BY <1>1, <1>2, CallSet
<1> HIDE DEF ds
<1>5. Typed(t, ds, q, p, pr)
  BY <1>1, <1>4 DEF Typed
<1>6. Fair(t, ds) /\ Told(t, ds)
  BY <1>1, <1>2, <1>4 DEF Fair, Own, Told
<1>7. ASSUME t.sock PROVE Core(t, ds, q, p, pr)
  <2>1. Open(t, cs) => Open(t, ds)
    BY <1>2, <1>4 DEF Open, Own
  <2>2. CASE IsClient
    <3>1. ClientOK(t, cs, q, p, pr.todo)
      BY <1>1, <1>7, <2>2 DEF Core
    <3>2. ClientTable(t, cs)
      BY <3>1 DEF ClientOK
    <3>3. ClientTable(t, ds)
      BY <1>2, <1>3, <1>4, <3>2 DEF ClientTable
    <3> QED BY <1>4, <2>1, <2>2, <3>1, <3>3 DEF Core, ClientOK
  <2>3. CASE ~IsClient
    <3>1. ServerOK(t, cs, q, p, pr.num) /\ pr.todo = {}
      BY <1>1, <1>7, <2>3 DEF Core
    <3>2. /\ t.inflight \in Tables /\ ServerTable(t, cs, pr.num)
          /\ ServerFrames(t, cs, q, p \o t.out, pr.num)
      BY <1>1, <3>1, SessionDef DEF ServerOK
    <3>3. ServerTable(t, ds, pr.num)
      <4>1. \A n \in DOMAIN t.inflight : t.inflight[n] \in Call =>
              t.shutting \/ ds[t.inflight[n]] = At("deferred")
        BY <1>3, <1>4, <3>2 DEF ServerTable
      <4>2. \A d \in Call : /\ ds[d] = At("deferred") => cs[d] = At("deferred")
                            /\ ds[d] = At("waiting") => cs[d] = At("waiting")
        BY <1>2, <1>4
      <4> QED BY <3>2, <4>1, <4>2 DEF ServerTable
    <3>4. ServerFrames(t, ds, q, p \o t.out, pr.num)
      BY <1>3, <1>4, <3>2 DEF ServerFrames
    <3> QED BY <1>4, <2>1, <2>3, <3>1, <3>3, <3>4 DEF Core, ServerOK
  <2> QED BY <2>2, <2>3
<1>8. CASE place # "await_ready"
  <2>1. Onward(cs, ds)
    BY <1>1, <1>2, <1>3, <1>8, OnwardSet DEF ds
  <2>2. c \in Spent(ds) \ Spent(cs)
    BY <1>2, <1>3, <1>4, <1>8 DEF Spent
  <2>3. t.seq \in Nat
    BY <1>1, NIsNat
  <2>4. Books(t, ds, k, pr.num) /\ Books(t, ds, k + 1, pr.num)
    BY <1>1, <2>1, <2>2, <2>3, OnwardBooks
  <2> QED BY <1>4, <1>5, <1>6, <1>7, <2>4 DEF Good, ds
<1>9. CASE place = "await_ready"
  <2>1. Spent(ds) = Spent(cs)
    BY <1>2, <1>3, <1>4, <1>9 DEF Spent
  <2>2. Numbered(ds) = Numbered(cs)
    BY <1>2, <1>3, <1>4, <1>9 DEF Numbered
  <2>3. \A d \in Call : ds[d] = At("await_ready") => Makes(d)
    BY <1>1, <1>4, <1>9 DEF Books
  <2>4. NumOK(ds, pr.num)
    BY <1>1, <1>2, <1>4 DEF Books, NumOK
  <2>5. Books(t, ds, k, pr.num)
    BY <1>1, <2>1, <2>2, <2>3, <2>4 DEF Books
  <2> QED BY <1>4, <1>5, <1>6, <1>7, <1>9, <2>5 DEF Good, ds
<1> QED BY <1>8, <1>9

\* A session that has changed only what the tables do not speak of.
LEMMA QuietChange ==
  ASSUME NEW t, NEW cs, NEW k, NEW q, NEW p, NEW pr, Good(t, cs, k, q, p, pr),
         NEW u \in Session, SameTable(t, u), u.sock = t.sock, t.shutting => u.shutting,
         u.wronged => u.shared # {},
         \/ u.out = t.out
         \/ \E f \in OutMsg : f.op \in {"goaway", "push"} /\ u.out = Append(t.out, f)
  PROVE  Good(u, cs, k, q, p, pr)
<1>1. /\ t \in Session /\ cs \in [Call -> CallState] /\ t.seq \in 0..N /\ k \in Nat /\ p \in Seq(Msg)
      /\ Typed(t, cs, q, p, pr) /\ Books(t, cs, k, pr.num) /\ Fair(t, cs) /\ Told(t, cs)
      /\ t.sock => Core(t, cs, q, p, pr)
  BY GoodFacts DEF Good
<1>2. /\ Typed(u, cs, q, p, pr) /\ Books(u, cs, k, pr.num) /\ Fair(u, cs) /\ Told(u, cs)
      /\ Open(t, cs) => Open(u, cs)
  BY <1>1 DEF Typed, Books, Fair, Own, Open, Told, SameTable
<1> DEFINE v == [u EXCEPT !.wronged = t.wronged]
<1>3. /\ v \in Session /\ SameTable(t, v) /\ v.sock = t.sock /\ v.wronged = t.wronged
      /\ v.shutting = u.shutting /\ v.out = u.out
  BY <1>1, SessionDef DEF SameTable
<1> HIDE DEF v
<1>4. ASSUME t.sock PROVE Core(u, cs, q, p, pr)
  <2>1. CASE IsClient
    <3>1. ClientOK(t, cs, q, p, pr.todo)
      BY <1>1, <1>4, <2>1 DEF Core
    <3>2. ClientOK(v, cs, q, p, pr.todo)
      BY <1>1, <1>3, <3>1, ClientQuiet
    <3>3. ClientTable(t, cs)
      BY <3>1 DEF ClientOK
    <3>4. ClientTable(u, cs)
      BY <3>3, ClientTableSame
    <3>5. ClientFrames(u, q, p \o u.out, pr.todo)
      BY <1>3, <3>2 DEF ClientOK, ClientFrames, Owed, SameTable
    <3> QED BY <1>2, <1>4, <2>1, <3>1, <3>4, <3>5 DEF Core, ClientOK
  <2>2. CASE ~IsClient
    <3>1. ServerOK(t, cs, q, p, pr.num) /\ pr.todo = {}
      BY <1>1, <1>4, <2>2 DEF Core
    <3>2. ServerOK(v, cs, q, p, pr.num)
      BY <1>1, <1>3, <3>1, ServerQuiet DEF ServerSays
    <3>3. ServerTable(t, cs, pr.num)
      BY <3>1 DEF ServerOK
    <3>4. ServerTable(u, cs, pr.num)
      BY <3>3, ServerTableSame
    <3>5. ServerFrames(u, cs, q, p \o u.out, pr.num)
      BY <1>3, <3>2 DEF ServerOK, ServerFrames, SameTable
    <3> QED BY <1>2, <1>4, <2>2, <3>1, <3>4, <3>5 DEF Core, ServerOK
  <2> QED BY <2>1, <2>2
<1> QED BY <1>2, <1>4 DEF Good

LEMMA CountsUp == \A n : NextSeq(n) = n + 1
BY DEF NextSeq

\* A client's call draws the next number, enters the table and is sent.
Registered(t, c) ==
  Enqueue([t EXCEPT !.seq = t.seq + 1, !.inflight = Put(t.inflight, t.seq + 1, c),
                    !.late = IF t.sock THEN t.late ELSE t.late \cup {c}],
          Frame("request", t.seq + 1, c))
Waits(cs, c) == [cs EXCEPT ![c] = At("waiting")]

LEMMA Registers ==
  ASSUME IsClient, NEW t, NEW cs, NEW k, NEW q, NEW p, NEW pr, Good(t, cs, k, q, p, pr),
         NEW c \in Call, cs[c] \in {At("idle"), At("await_ready")}, NEW u,
         u = Registered(t, c), NEW ds, ds = Waits(cs, c)
  PROVE  /\ Good(u, ds, k, q, p, pr) /\ Good(u, ds, k + 1, q, p, pr)
         /\ u.sock = t.sock /\ u.out # <<>> /\ u.shared = t.shared
         /\ t.late \subseteq u.late /\ (t.sock \/ c \in u.late)
<1> DEFINE n == t.seq + 1
           i == t.inflight
           f == Frame("request", n, c)
           o == p \o t.out
           w == IF t.sock THEN t.late ELSE t.late \cup {c}
           v == [t EXCEPT !.seq = n, !.inflight = Put(i, n, c), !.late = w]
<1>1. /\ t \in Session /\ cs \in [Call -> CallState] /\ t.seq \in 0..N /\ k \in Nat /\ p \in Seq(Msg)
      /\ q \in Seq(Msg) /\ o \in Seq(Msg) /\ t.out \in Seq(Msg) /\ i \in Tables
      /\ Typed(t, cs, q, p, pr) /\ Books(t, cs, k, pr.num) /\ Fair(t, cs) /\ Told(t, cs)
      /\ t.sock => Core(t, cs, q, p, pr)
  BY GoodFacts DEF Good
<1>2. /\ At("waiting") \in CallState /\ At("waiting")[1] = "waiting"
      /\ At("idle")[1] = "idle" /\ At("await_ready")[1] = "await_ready"
      /\ At("waiting") \notin {At("idle"), At("await_ready"), At("terminated"), At("deferred")}
  BY AtFacts
<1>3. /\ ds \in [Call -> CallState] /\ ds[c] = At("waiting")
      /\ \A d \in Call \ {c} : ds[d] = cs[d]
  BY <1>1, <1>2, CallSet DEF Waits
<1>4. cs[c][1] \in {"idle", "await_ready"} /\ cs[c] # At("waiting")
  BY <1>2
<1>5. Onward(cs, ds)
  BY <1>1, <1>2, <1>4, OnwardSet DEF Waits
<1>6. c \in Spent(ds) \ Spent(cs) /\ c \in Numbered(ds) \ Numbered(cs)
  BY <1>2, <1>3, <1>4 DEF Spent, Numbered
<1>7. /\ Cardinality(Numbered(cs)) \in Nat /\ Cardinality(Numbered(ds)) \in 0..N
      /\ Cardinality(Numbered(cs)) + 1 <= Cardinality(Numbered(ds))
  <2>1. Numbered(cs) \in SUBSET Call /\ Numbered(ds) \in SUBSET Call
        /\ Numbered(cs) \subseteq Numbered(ds)
    BY <1>5 DEF Numbered, Onward
  <2>2. Cardinality(Numbered(cs)) \in 0..N /\ Cardinality(Numbered(ds)) \in 0..N
    BY <2>1, CallSets
  <2>3. Cardinality(Numbered(cs)) + 1 <= Cardinality(Numbered(ds))
    BY <1>6, <2>1, CallSets
  <2> QED BY <2>2, <2>3, NIsNat
<1>8. n <= Cardinality(Numbered(ds)) /\ n \in 1..N /\ n \in 0..N
  <2>1. t.seq <= Cardinality(Numbered(cs))
    BY <1>1 DEF Books
  <2> QED BY <1>1, <1>7, <2>1, NIsNat
<1>9. f \in OutMsg /\ f \in Msg /\ f.op = "request" /\ f.seq = n /\ f.call = c
  BY <1>8, FrameFacts
<1>10. /\ Put(i, n, c) \in Tables /\ DOMAIN Put(i, n, c) = DOMAIN i \cup {n}
       /\ Put(i, n, c)[n] = c
       /\ \A m \in DOMAIN i \ {n} : Put(i, n, c)[m] = i[m]
  <2> HIDE DEF n, i
  <2>1. i \in Tables /\ n \in 0..N /\ c \in Call \cup {NoCall, Garbled}
    BY <1>1, <1>8
  <2> QED BY ONLY <2>1, PutFacts, ZenonT(40)
<1>11. /\ v \in Session /\ v.inflight = Put(i, n, c) /\ v.seq = n
       /\ v.sock = t.sock /\ v.out = t.out /\ v.ping = t.ping /\ v.ponged = t.ponged
       /\ v.heard = t.heard /\ v.shared = t.shared /\ v.wronged = t.wronged
       /\ v.shutting = t.shutting /\ v.misread = t.misread /\ v.late = w
  <2>1. w \in SUBSET Call
    BY <1>1, SessionDef
  <2> HIDE DEF w
  <2> QED BY <1>1, <1>8, <1>10, <2>1, SessionDef
<1> HIDE DEF v, f
<1>12. /\ u \in Session /\ u.inflight = Put(i, n, c) /\ u.seq = n
       /\ u.sock = t.sock /\ u.out = Append(t.out, f) /\ u.out # <<>>
       /\ u.ping = t.ping /\ u.ponged = t.ponged
       /\ u.heard = t.heard /\ u.shared = t.shared /\ u.wronged = t.wronged
       /\ u.shutting = t.shutting /\ u.misread = t.misread /\ u.late = w
  <2>1. u = Enqueue(v, f)
    BY DEF v, f, Registered
  <2> QED BY <1>9, <1>11, <2>1, EnqueueFacts DEF SameTable
<1>13. Books(v, ds, k, pr.num) /\ Books(v, ds, k + 1, pr.num)
  <2> DEFINE x == [v EXCEPT !.seq = t.seq]
  <2>1. x.sock = t.sock /\ x.seq = t.seq /\ t.seq \in Nat
    BY <1>1, <1>11, NIsNat, SessionDef
  <2> HIDE DEF x
  <2>2. Books(x, ds, k, pr.num) /\ Books(x, ds, k + 1, pr.num)
    BY <1>1, <1>5, <1>6, <2>1, OnwardBooks
  <2>3. v.sock = x.sock /\ v.seq <= Cardinality(Numbered(ds))
    BY <1>8, <1>11, <2>1
  <2> QED BY <2>2, <2>3 DEF Books
<1>14. Books(u, ds, k, pr.num) /\ Books(u, ds, k + 1, pr.num)
  <2>1. u.sock = v.sock /\ u.seq = v.seq
    BY <1>11, <1>12
  <2> QED BY <1>13, <2>1 DEF Books
<1>15. Typed(u, ds, q, p, pr) /\ Fair(u, ds)
  <2>1. Typed(u, ds, q, p, pr)
    BY <1>1, <1>3, <1>12 DEF Typed
  <2>2. Own(t, cs) /\ (u.wronged => u.shared # {}) /\ (u.misread => u.shutting)
    BY <1>1, <1>12 DEF Fair
  <2>3. \A d \in Call : ds[d][1] \in {"answered", "error"} => ds[d] = cs[d]
    BY <1>2, <1>3
  <2>4. Own(u, ds)
    BY <1>12, <2>2, <2>3 DEF Own
  <2> QED BY <2>1, <2>2, <2>4 DEF Fair
<1>17. Told(u, ds)
  <2> SUFFICES ASSUME ~t.sock PROVE Told(u, ds)
    BY <1>12 DEF Told
  <2>1. c \in u.late /\ t.late \subseteq u.late
    BY <1>12
  <2>2. \A m \in DOMAIN u.inflight : u.inflight[m] = c \/ (m \in DOMAIN i /\ u.inflight[m] = i[m])
    BY <1>10, <1>12
  <2> QED BY <1>1, <1>3, <2>1, <2>2 DEF Told
<1>16. ASSUME t.sock PROVE ClientOK(u, ds, q, p, pr.todo)
  <2>1. /\ Open(t, cs) /\ ClientTable(t, cs) /\ ClientFrames(t, q, o, pr.todo)
    BY <1>1, <1>16 DEF Core, ClientOK
  <2>2. Open(u, ds)
    BY <1>2, <1>3, <1>12, <2>1 DEF Open, Own
  <2>3. n \notin DOMAIN i
    BY <1>1, <1>8, <2>1 DEF ClientTable
  <2>4. \A m \in DOMAIN i : m \in DOMAIN u.inflight /\ u.inflight[m] = i[m] /\ i[m] # c
    <3>1. \A m \in DOMAIN i : i[m] # c
      BY <1>4, <2>1, PySessionAssumption DEF ClientTable
    <3> QED BY <1>10, <1>12, <2>3, <3>1
  <2>5. n \in DOMAIN u.inflight /\ u.inflight[n] = c
    BY <1>10, <1>12
  <2>6. \A m \in DOMAIN u.inflight : m \in DOMAIN i \/ m = n
    BY <1>10, <1>12
  <2>7. ClientTable(u, ds)
    <3>1. u.ping = 0 /\ u.shared = {} /\ (u.heard => u.ponged)
      BY <1>12, <2>1 DEF ClientTable
    <3>2. u.ponged \/ Holds(u, 0, NoCall)
      BY <1>12, <2>1, <2>4 DEF ClientTable, Holds
    <3>3. 0 \in DOMAIN u.inflight => u.inflight[0] = NoCall
      BY <1>8, <2>1, <2>4, <2>6 DEF ClientTable
    <3>4. ASSUME NEW m \in DOMAIN u.inflight \ {0}
          PROVE  m <= u.seq /\ u.inflight[m] \in Call /\ ds[u.inflight[m]] = At("waiting")
      <4>1. CASE m = n
        BY <1>1, <1>3, <1>12, <2>5, <4>1, NIsNat
      <4>2. CASE m \in DOMAIN i
        <5>1. m <= t.seq /\ i[m] \in Call /\ cs[i[m]] = At("waiting")
          BY <2>1, <4>2 DEF ClientTable
        <5>2. m \in Nat
          BY <1>1, <4>2, TableFacts, NIsNat
        <5> QED BY <1>1, <1>3, <1>12, <2>4, <4>2, <5>1, <5>2, NIsNat
      <4> QED BY <2>6, <4>1, <4>2
    <3>5. ASSUME NEW m \in DOMAIN u.inflight, NEW l \in DOMAIN u.inflight,
                 u.inflight[m] = u.inflight[l]
          PROVE  m = l
      <4>1. CASE m = n \/ l = n
        BY <2>4, <2>5, <2>6, <3>5, <4>1
      <4>2. CASE m \in DOMAIN i /\ l \in DOMAIN i
        BY <2>1, <2>4, <3>5, <4>2 DEF ClientTable
      <4> QED BY <2>6, <4>1, <4>2
    <3>6. ASSUME NEW d \in Call
          PROVE  /\ ds[d] = At("waiting") => \E m \in DOMAIN u.inflight : u.inflight[m] = d
                 /\ ds[d] # At("deferred")
      <4>1. CASE d = c
        BY <1>2, <1>3, <2>5, <4>1
      <4>2. CASE d # c
        BY <1>3, <2>1, <2>4, <4>2 DEF ClientTable
      <4> QED BY <4>1, <4>2
    <3> QED BY <3>1, <3>2, <3>3, <3>4, <3>5, <3>6 DEF ClientTable
  <2>8. \A g : Owed(t, g) => Owed(u, g)
    <3> TAKE g
    <3> HAVE Owed(t, g)
    <3>1. g.seq \in 1..t.seq /\ (g.seq \in DOMAIN i => i[g.seq] = g.call)
      BY DEF Owed
    <3>2. g.seq \in 1..n /\ g.seq # n
      BY <1>1, <3>1
    <3>3. g.seq \in DOMAIN u.inflight => u.inflight[g.seq] = g.call
      BY <2>4, <2>6, <3>1, <3>2
    <3> QED BY <1>12, <3>2, <3>3 DEF Owed
  <2>9. Owed(u, f)
    BY <1>8, <1>9, <1>12, <2>5 DEF Owed
  <2>10. ClientFrames(u, q, o, pr.todo)
    BY <2>1, <2>8 DEF ClientFrames
  <2>11. p \o u.out = Append(o, f)
    <3>1. PutLast(p, t.out, f, Append(t.out, f))
      BY <1>1, <1>9, PutsLast, Zenon
    <3> QED BY <1>12, <3>1 DEF PutLast
  <2>12. ClientFrames(u, q, Append(o, f), pr.todo)
    <3> HIDE DEF o
    <3> QED BY <1>1, <1>9, <2>9, <2>10, ClientSends DEF ClientSays
  <2> QED BY <1>1, <1>3, <1>12, <1>16, <2>2, <2>7, <2>11, <2>12 DEF ClientOK
<1> QED BY <1>12, <1>14, <1>15, <1>16, <1>17 DEF Good, Core

\* What send_ping does, whatever number it draws.
LEMMA PingFacts ==
  ASSUME NEW t \in Session, NEW u, u = SendPing(t)
  PROVE  \E n \in 0..N :
           /\ u \in Session /\ u.inflight = Put(t.inflight, n, NoCall)
           /\ u.shared = Meets(t, n, NoCall) /\ u.ping = n /\ ~u.ponged /\ ~u.heard
           /\ u.out = Append(t.out, Frame("ping", n, NoCall)) /\ u.out # <<>>
           /\ u.sock = t.sock /\ u.shutting = t.shutting /\ u.wronged = t.wronged
           /\ u.misread = t.misread /\ u.late = t.late
           /\ IsClient => n = 0 /\ u.seq = t.seq
<1> DEFINE n == IF IsClient \/ t.seq = N THEN 0 ELSE t.seq + 1
           sq == IF n = 0 THEN t.seq ELSE n
           f == Frame("ping", n, NoCall)
           j == Put(t.inflight, n, NoCall)
           m == Meets(t, n, NoCall)
           v == [t EXCEPT !.seq = sq, !.ping = n, !.ponged = FALSE, !.heard = FALSE,
                          !.inflight = j, !.shared = m]
<1>1. t.seq \in 0..N /\ t.inflight \in Tables /\ t.shared \in SUBSET Call
  BY SessionDef
<1>2. n \in 0..N /\ sq \in 0..N /\ (IsClient => n = 0 /\ sq = t.seq)
  BY <1>1, NIsNat
<1>3. u = Enqueue(v, f)
  BY DEF SendPing, Keepalive, NextSeq, N
<1> HIDE DEF n, sq
<1>4. j \in Tables
  <2>1. NoCall \in Call \cup {NoCall, Garbled}
    OBVIOUS
  <2> QED BY ONLY <1>1, <1>2, <2>1, PutFacts
<1>5. m \in SUBSET Call
  BY <1>1, TableFacts DEF Meets
<1> HIDE DEF j, m
<1>6. f \in OutMsg
  BY <1>2, FrameFacts
<1> HIDE DEF f
<1>7. /\ v \in Session /\ v.inflight = j /\ v.shared = m /\ v.ping = n /\ ~v.ponged /\ ~v.heard
      /\ v.out = t.out /\ v.sock = t.sock /\ v.shutting = t.shutting /\ v.wronged = t.wronged
      /\ v.seq = sq /\ v.misread = t.misread /\ v.late = t.late
  BY <1>2, <1>4, <1>5, SessionDef
<1> HIDE DEF v
<1>8. /\ u \in Session /\ u.inflight = j /\ u.shared = m /\ u.ping = n /\ ~u.ponged /\ ~u.heard
      /\ u.out = Append(t.out, f) /\ u.out # <<>>
      /\ u.sock = t.sock /\ u.shutting = t.shutting /\ u.wronged = t.wronged /\ u.seq = sq
      /\ u.misread = t.misread /\ u.late = t.late
  BY <1>3, <1>6, <1>7, EnqueueFacts DEF SameTable
<1> QED BY <1>2, <1>8 DEF f, j, m

\* A ping is sent when the last one was answered.  If it has the number of a
\* request, it takes the entry, and the request has met it.
LEMMA PingSent ==
  ASSUME NEW t, NEW cs, NEW k, NEW q, NEW p, NEW pr, Good(t, cs, k, q, p, pr),
         t.ponged, t.sock, ~t.shutting, NEW u, u = SendPing(t)
  PROVE  /\ Good(u, cs, k, q, p, pr) /\ u.out # <<>> /\ u.sock = t.sock
         /\ t.shared \subseteq u.shared /\ u.late = t.late
<1> DEFINE i == t.inflight
           o == p \o t.out
<1>1. /\ t \in Session /\ cs \in [Call -> CallState] /\ t.seq \in 0..N /\ k \in Nat /\ p \in Seq(Msg)
      /\ q \in Seq(Msg) /\ o \in Seq(Msg) /\ t.out \in Seq(Msg) /\ i \in Tables
      /\ Typed(t, cs, q, p, pr) /\ Books(t, cs, k, pr.num) /\ Fair(t, cs)
      /\ t.sock => Core(t, cs, q, p, pr)
  BY GoodFacts DEF Good
<1>2. PICK n \in 0..N :
           /\ u \in Session /\ u.inflight = Put(t.inflight, n, NoCall)
           /\ u.shared = Meets(t, n, NoCall) /\ u.ping = n /\ ~u.ponged /\ ~u.heard
           /\ u.out = Append(t.out, Frame("ping", n, NoCall)) /\ u.out # <<>>
           /\ u.sock = t.sock /\ u.shutting = t.shutting /\ u.wronged = t.wronged
           /\ u.misread = t.misread /\ u.late = t.late
           /\ IsClient => n = 0 /\ u.seq = t.seq
  <2> HIDE DEF i, o
  <2>1. t \in Session
    BY <1>1
  <2> QED BY ONLY <2>1, u = SendPing(t), PingFacts
<1> DEFINE f == Frame("ping", n, NoCall)
<1>3. f \in Msg /\ f.op = "ping" /\ f.seq = n
  BY FrameFacts
<1> HIDE DEF f
<1>4. /\ DOMAIN u.inflight = DOMAIN i \cup {n} /\ u.inflight[n] = NoCall
      /\ \A m \in DOMAIN i \ {n} : u.inflight[m] = i[m]
  <2> DEFINE j == Put(i, n, NoCall)
  <2>1. NoCall \in Call \cup {NoCall, Garbled}
    OBVIOUS
  <2>2. /\ DOMAIN j = DOMAIN i \cup {n} /\ j[n] = NoCall
        /\ \A m \in DOMAIN i \ {n} : j[m] = i[m]
    <3> HIDE DEF i
    <3>1. i \in Tables /\ n \in 0..N
      BY <1>1, <1>2
    <3> QED BY ONLY <2>1, <3>1, PutFacts
  <2>3. u.inflight = j
    BY <1>2
  <2> HIDE DEF j, i
  <2> QED BY <2>2, <2>3
<1>5. /\ t.shared \subseteq u.shared
      /\ n \in DOMAIN i /\ i[n] \in Call => i[n] \in u.shared
      /\ n \notin DOMAIN i \/ i[n] \notin Call => u.shared = t.shared
      /\ \A c \in u.shared : c \in t.shared \/ (n \in DOMAIN i /\ c = i[n] /\ c \in Call)
  <2>1. u.shared = IF n \in DOMAIN i THEN t.shared \cup ({NoCall, i[n]} \cap Call) ELSE t.shared
    BY <1>2 DEF Meets
  <2>2. NoCall \notin Call
    BY PySessionAssumption
  <2> HIDE DEF i
  <2>3. CASE n \in DOMAIN i
    BY <2>1, <2>2, <2>3
  <2>4. CASE n \notin DOMAIN i
    BY <2>1, <2>4
  <2> QED BY <2>3, <2>4
<1>6. Typed(u, cs, q, p, pr) /\ Fair(u, cs) /\ Books(u, cs, k, pr.num)
  <2>1. Typed(u, cs, q, p, pr)
    BY <1>1, <1>2 DEF Typed
  <2>2. Fair(u, cs)
    BY <1>1, <1>2, <1>5 DEF Fair, Own
  <2>3. Books(u, cs, k, pr.num)
    BY <1>1, <1>2 DEF Books
  <2> QED BY <2>1, <2>2, <2>3
<1>7. p \o u.out = Append(o, f)
  <2>1. PutLast(p, t.out, f, Append(t.out, f))
    BY <1>1, <1>3, PutsLast, Zenon
  <2> QED BY <1>2, <2>1 DEF f, PutLast
<1>11. ~t.misread /\ Told(u, cs) /\ (Open(t, cs) => Open(u, cs))
  BY <1>1, <1>2 DEF Fair, Told, Open, Own
<1>8. ASSUME t.sock, IsClient PROVE ClientOK(u, cs, q, p, pr.todo)
  <2>1. Open(t, cs) /\ ClientTable(t, cs) /\ ClientFrames(t, q, o, pr.todo)
    BY <1>1, <1>8 DEF Core, ClientOK
  <2>2. n = 0 /\ u.seq = t.seq
    BY <1>2, <1>8
  <2>3. u.shared = {}
    BY <1>5, <2>1, <2>2, PySessionAssumption DEF ClientTable
  <2>4. ClientTable(u, cs)
    <3>1. Holds(u, 0, NoCall)
      BY <1>4, <2>2 DEF Holds
    <3>2. \A m \in DOMAIN u.inflight \ {0} : m \in DOMAIN i /\ u.inflight[m] = i[m]
      BY <1>4, <2>2
    <3>3. \A m \in DOMAIN u.inflight \ {0} :
            /\ m <= u.seq /\ u.inflight[m] \in Call /\ cs[u.inflight[m]] = At("waiting")
            /\ u.inflight[m] # NoCall
      BY <2>1, <2>2, <3>2, PySessionAssumption DEF ClientTable
    <3>4. ASSUME NEW m \in DOMAIN u.inflight, NEW l \in DOMAIN u.inflight,
                 u.inflight[m] = u.inflight[l]
          PROVE  m = l
      <4>1. CASE m = 0 \/ l = 0
        BY <3>1, <3>3, <3>4, <4>1 DEF Holds
      <4>2. CASE m # 0 /\ l # 0
        BY <2>1, <3>2, <3>4, <4>2 DEF ClientTable
      <4> QED BY <4>1, <4>2
    <3>5. ASSUME NEW c \in Call, cs[c] = At("waiting")
          PROVE  \E m \in DOMAIN u.inflight : u.inflight[m] = c
      <4>1. PICK m \in DOMAIN i : i[m] = c
        BY <2>1, <3>5 DEF ClientTable
      <4>2. m # 0
        BY <2>1, <4>1, PySessionAssumption DEF ClientTable
      <4> QED BY <1>4, <2>2, <4>1, <4>2
    <3> QED BY <1>2, <2>1, <2>2, <2>3, <3>1, <3>3, <3>4, <3>5 DEF ClientTable, Holds
  <2>5. \A g : Owed(t, g) => Owed(u, g)
    <3> TAKE g
    <3> HAVE Owed(t, g)
    <3>1. g.seq \in 1..u.seq /\ g.seq # 0 /\ (g.seq \in DOMAIN i => i[g.seq] = g.call)
      BY <2>2 DEF Owed
    <3>2. g.seq \in DOMAIN u.inflight => u.inflight[g.seq] = g.call
      BY <1>4, <2>2, <3>1
    <3> QED BY <3>1, <3>2 DEF Owed
  <2>6. ClientFrames(u, q, o, pr.todo)
    BY <2>1, <2>5 DEF ClientFrames
  <2>7. ClientFrames(u, q, Append(o, f), pr.todo)
    <3> HIDE DEF o
    <3> QED BY <1>1, <1>3, <2>2, <2>6, ClientSends DEF ClientSays
  <2> QED BY <1>1, <1>2, <1>7, <1>8, <1>11, <2>1, <2>4, <2>7 DEF ClientOK
<1>9. ASSUME t.sock, ~IsClient PROVE ServerOK(u, cs, q, p, pr.num)
  <2>1. Open(t, cs) /\ ServerTable(t, cs, pr.num) /\ ServerFrames(t, cs, q, o, pr.num)
    BY <1>1, <1>9 DEF Core, ServerOK
  <2>2. ServerTable(u, cs, pr.num)
    <3>1. Holds(u, u.ping, NoCall)
      BY <1>2, <1>4 DEF Holds
    <3>2. \A m \in DOMAIN u.inflight : u.inflight[m] \in Call =>
            m \in DOMAIN i /\ u.inflight[m] = i[m]
      BY <1>4, PySessionAssumption
    <3>3. ASSUME NEW c \in Call, cs[c] = At("deferred"), c \notin u.shared
          PROVE  Holds(u, pr.num[c], c)
      <4>1. pr.num[c] \in DOMAIN i /\ i[pr.num[c]] = c
        BY <1>5, <2>1, <3>3 DEF ServerTable, Holds
      <4>2. pr.num[c] # n
        BY <1>5, <3>3, <4>1, PySessionAssumption
      <4> QED BY <1>4, <4>1, <4>2 DEF Holds
    <3>4. \A c \in u.shared : pr.num[c] # 0
      <4>1. n \in DOMAIN i /\ i[n] \in Call => n # 0 /\ pr.num[i[n]] = n
        BY <2>1 DEF ServerTable
      <4> QED BY <1>5, <2>1, <4>1 DEF ServerTable
    <3> QED BY <1>2, <2>1, <3>1, <3>2, <3>3, <3>4 DEF ServerTable
  <2>3. /\ \A j \in DOMAIN o : o[j].op # "ping"
        /\ \A j \in DOMAIN q : q[j].op # "pong"
    BY <1>11, <2>1 DEF ServerFrames
  <2>4. /\ \A j \in DOMAIN Append(o, f) :
             (j \in DOMAIN o /\ Append(o, f)[j] = o[j]) \/ (j = Len(o) + 1 /\ Append(o, f)[j] = f)
    <3> HIDE DEF o
    <3> QED BY <1>1, <1>3, AppendFacts
  <2>5. ServerFrames(u, cs, q, Append(o, f), pr.num)
    <3> HIDE DEF o
    <3> QED BY <1>2, <1>3, <2>1, <2>3, <2>4 DEF ServerFrames, ServerSays
  <2> QED BY <1>1, <1>2, <1>7, <1>9, <1>11, <2>1, <2>2, <2>5 DEF ServerOK
<1>10. t.sock => Core(u, cs, q, p, pr)
  BY <1>1, <1>8, <1>9 DEF Core
<1> QED BY <1>2, <1>5, <1>6, <1>10, <1>11 DEF Good

LEMMA OneSwitch ==
  ASSUME NEW t, NEW cs, NEW q, NEW p, NEW pr, NEW k, k = 0, Good(t, cs, k, q, p, pr)
  PROVE  Good(t, cs, k + 1, q, p, pr)
<1>1. Cardinality(Spent(cs)) \in Nat
  BY CallSets, NIsNat DEF Spent
<1>2. k + 1 <= Cardinality(Spent(cs)) + IF t.sock THEN 1 ELSE 2
  BY <1>1
<1>3. Books(t, cs, k, pr.num)
  BY DEF Good
<1>4. Books(t, cs, k + 1, pr.num)
  BY <1>2, <1>3 DEF Books
<1> QED BY <1>4 DEF Good

\* The end of a session: whom it tells was waiting, and it may ask for a switch.
LEMMA Cleans ==
  ASSUME NEW t, NEW cs, NEW k, NEW q, NEW p, NEW pr, Good(t, cs, k, q, p, pr),
         NEW u, u = CleanedUp(t), NEW ds, ds = Terminated(t, cs)
  PROVE  /\ Good(u, ds, k, q, p, pr) /\ (t.sock => Good(u, ds, k + 1, q, p, pr))
         /\ ~u.sock
         /\ t.sock /\ t.inflight = <<>> => Ended(TRUE, u, ds)
         /\ \A d : ~t.sock /\ Ended(d, t, cs) => Ended(d, u, ds)
<1> DEFINE i == t.inflight
<1>1. /\ t \in Session /\ cs \in [Call -> CallState] /\ t.seq \in 0..N /\ k \in Nat
      /\ i \in Tables
      /\ Typed(t, cs, q, p, pr) /\ Books(t, cs, k, pr.num) /\ Fair(t, cs) /\ Told(t, cs)
      /\ t.sock => Core(t, cs, q, p, pr)
  BY GoodFacts DEF Good
<1>2. /\ u \in Session /\ u.sock = FALSE /\ u.seq = t.seq /\ u.shared = t.shared
      /\ u.wronged = t.wronged /\ u.misread = t.misread /\ u.shutting = t.shutting
      /\ u.late = t.late /\ u.inflight = <<>>
  BY <1>1, EmptyTable, SessionDef DEF CleanedUp
<1>3. \A c \in Call :
        \/ ds[c] = cs[c]
        \/ ds[c] = At("terminated") /\ \E m \in DOMAIN i : i[m] = c
  BY DEF Terminated, Range
<1>12. IsClient /\ scenario.python = 2 =>
         \A c \in Call : ds[c] = At("waiting") =>
           cs[c] = At("waiting") /\ \A m \in DOMAIN i : i[m] # c
  BY AtFacts DEF Terminated, Range
<1>4. /\ At("terminated") \in CallState /\ At("terminated")[1] = "terminated"
      /\ At("waiting")[1] = "waiting"
      /\ At("terminated") \notin {At("idle"), At("await_ready"), At("waiting"), At("deferred")}
  BY AtFacts
<1>5. ds \in [Call -> CallState]
  <2>1. \A c \in Call : ds[c] \in CallState
    BY <1>1, <1>3, <1>4
  <2>2. ds = [c \in Call |-> ds[c]]
    BY DEF Terminated
  <2> QED BY <2>1, <2>2
<1>6. \A c \in Call :
        ds[c] = cs[c] \/ ds[c] = At("terminated")
  BY <1>3
<1>7. Onward(cs, ds)
  BY <1>4, <1>6 DEF Onward, Spent, Numbered
<1>8. Books(u, ds, k, pr.num) /\ (t.sock => Books(u, ds, k + 1, pr.num))
  <2>1. t.seq \in Nat /\ Cardinality(Spent(ds)) \in Nat
    BY <1>1, CallSets, NIsNat DEF Spent
  <2> DEFINE v == [u EXCEPT !.sock = t.sock]
  <2>2. v.sock = t.sock /\ v.seq = t.seq /\ t.sock \in BOOLEAN
    BY <1>1, <1>2, SessionDef
  <2> HIDE DEF v
  <2>3. Books(v, ds, k, pr.num)
    BY <1>1, <1>7, <2>1, <2>2, OnwardBooks
  <2>4. k <= Cardinality(Spent(ds)) + IF t.sock THEN 1 ELSE 2
    BY <2>2, <2>3 DEF Books
  <2>5. /\ k <= Cardinality(Spent(ds)) + 2 /\ k + 1 \in Nat
        /\ t.sock => k + 1 <= Cardinality(Spent(ds)) + 2
    BY <1>1, <2>1, <2>2, <2>4
  <2> QED BY <1>2, <2>2, <2>3, <2>5 DEF Books
<1>9. Typed(u, ds, q, p, pr)
  BY <1>1, <1>2, <1>5 DEF Typed
<1>10. Fair(u, ds)
  BY <1>1, <1>2, <1>4, <1>6 DEF Fair, Own
<1>13. Told(u, ds)
  <2>1. DOMAIN u.inflight = {}
    BY <1>2, EmptyTable
  <2>2. ASSUME IsClient, scenario.python = 2, NEW c \in Call, ds[c] = At("waiting")
        PROVE  c \in t.late
    <3>1. cs[c] = At("waiting") /\ \A m \in DOMAIN i : i[m] # c
      BY <1>12, <2>2
    <3>2. ~t.sock
      <4> SUFFICES ASSUME t.sock PROVE FALSE
        OBVIOUS
      <4>1. ClientTable(t, cs)
        BY <1>1, <2>2 DEF Core, ClientOK
      <4> QED BY <3>1, <4>1 DEF ClientTable
    <3> QED BY <1>1, <2>2, <3>1, <3>2 DEF Told
  <2> QED BY <1>2, <2>1, <2>2 DEF Told
<1>14. ASSUME NEW d, ~t.sock, Ended(d, t, cs) PROVE Ended(d, u, ds)
  <2>1. \A m \in DOMAIN i : i[m] \in t.late
    BY <1>1, <1>14 DEF Told
  <2>2. \A c \in Call : ds[c] = cs[c] \/ (ds[c] = At("terminated") /\ c \in t.late)
    BY <1>3, <2>1
  <2> QED BY <1>2, <1>4, <1>14, <2>2 DEF Ended
<1>11. ASSUME t.sock, i = <<>> PROVE Ended(TRUE, u, ds)
  <2>1. DOMAIN i = {}
    BY <1>11, EmptyTable
  <2>2. \A c \in Call : ds[c] = cs[c]
    BY <1>3, <2>1
  <2>3. Open(t, cs)
    BY <1>1, <1>11 DEF Core, ClientOK, ServerOK
  <2>4. \A c \in Call : /\ cs[c] = At("deferred") => c \in t.shared
                        /\ cs[c] # At("waiting")
    BY <1>1, <1>11, <2>1 DEF Core, ClientOK, ServerOK, ClientTable, ServerTable, Holds
  <2> QED BY <1>2, <2>2, <2>3, <2>4 DEF Ended, Open
<1> QED BY <1>2, <1>8, <1>9, <1>10, <1>11, <1>13, <1>14 DEF Good

\* close() as the run loop, the ping loop and the user call it.
LEMMA Closes ==
  ASSUME NEW t, NEW cs, NEW k, NEW q, NEW p, NEW pr, Good(t, cs, k, q, p, pr),
         NEW u, u = Close(t, TRUE)
  PROVE  /\ Good(u, cs, k, q, p, pr) /\ u.sock = t.sock /\ u.shared = t.shared
         /\ u.inflight = t.inflight /\ u.late = t.late
         /\ u.out = t.out \/ u.out = Append(t.out, Frame("goaway", 0, NoCall))
<1>1. t \in Session /\ Fair(t, cs)
  BY GoodFacts DEF Good
<1>2. /\ u \in Session /\ u.shutting
      /\ u.sock = t.sock /\ u.wronged = t.wronged
      /\ u.out = t.out \/ u.out = Append(t.out, Frame("goaway", 0, NoCall))
      /\ SameTable(t, u)
  BY <1>1, CloseFacts
<1>3. Frame("goaway", 0, NoCall) \in OutMsg /\ Frame("goaway", 0, NoCall).op = "goaway"
  BY FrameFacts, NIsNat
<1>4. u.wronged => u.shared # {}
  BY <1>1, <1>2 DEF Fair, SameTable
<1>5. Good(u, cs, k, q, p, pr)
  BY <1>2, <1>3, <1>4, QuietChange
<1> QED BY <1>2, <1>5 DEF SameTable

-----------------------------------------------------------------------------
(* The invariant is kept, by every step                                    *)

\* What a step has to show.
LEMMA Keeps ==
  ASSUME Plain, UNCHANGED <<scenario, pinger, eof>> \/ Plain', scenario' = scenario,
         watcher' \in Flags, writing' \in BOOLEAN, drained' \in BOOLEAN,
         loop' \in {"wait", "done"},
         Good(s', call', switches', rx', tx', peer'), Ended(drained', s', call'),
         Watched(s', watcher', writing', loop', switches')
  PROVE  IInv'
<1>1. Plain'
  BY DEF Plain
<1>2. Good(s, call, switches, rx, tx, peer)'
  <2>1. IsClient' = IsClient
    BY DEF IsClient
  <2>2. \A c \in Call : Makes(c)' = Makes(c)
    BY <2>1 DEF Makes
  <2>3. Typed(s', call', rx', tx', peer') /\ Fair(s', call')
    BY DEF Good
  <2>6. Told(s, call)'
    BY <2>1 DEF Good, Told
  <2>4. Books(s, call, switches, peer.num)'
    BY <2>1, <2>2 DEF Good, Books
  <2>5. (s.sock => Core(s, call, rx, tx, peer))'
    BY <2>1 DEF Good, Core
  <2> QED BY <2>3, <2>4, <2>5, <2>6 DEF Good
<1> QED BY <1>1, <1>2 DEF IInv

\* Whoever enqueues wakes the run loop, unless it will look anyway.
LEMMA Woken ==
  ASSUME NEW t, NEW u, NEW f \in Flags, NEW w \in BOOLEAN, NEW l, NEW k \in Nat,
         Watched(t, f, w, l, k), u.sock = t.sock, u.out # <<>>
  PROVE  Watched(u, f, w, l, k + Resumed(u, f)) /\ Resumed(u, f) \in {0, 1}
<1>1. CASE Resumes(u, f)
  <2>1. Resumed(u, f) = 1
    BY <1>1 DEF Resumed
  <2> QED BY <2>1 DEF Watched
<1>2. CASE ~Resumes(u, f)
  <2>1. Resumed(u, f) = 0
    BY <1>2 DEF Resumed
  <2>2. u.sock => f.blocked \/ f.switching
    BY <1>2 DEF Resumes, Flags
  <2> QED BY <2>1, <2>2 DEF Watched
<1> QED BY <1>1, <1>2

LEMMA EndedMoves ==
  ASSUME NEW d, NEW t, NEW u, NEW cs, NEW ds, Ended(d, t, cs), u.sock = t.sock,
         t.shared \subseteq u.shared, t.late \subseteq u.late,
         \A c \in Call :
           \/ ds[c] = cs[c]
           \/ /\ ds[c] \notin {At("terminated"), At("deferred")}
              /\ t.sock \/ ds[c] # At("waiting") \/ c \in u.late
  PROVE  Ended(d, u, ds)
BY DEF Ended

LEMMA IInvFacts ==
  ASSUME IInv
  PROVE  /\ Plain /\ Good(s, call, switches, rx, tx, peer) /\ Ended(drained, s, call)
         /\ Watched(s, watcher, writing, loop, switches)
         /\ scenario \in Scenarios /\ watcher \in Flags /\ writing \in BOOLEAN
         /\ drained \in BOOLEAN /\ loop \in {"wait", "done"}
         /\ s \in Session /\ call \in [Call -> CallState] /\ switches \in Nat
         /\ rx \in Seq(Msg) /\ tx \in Seq(Msg) /\ peer \in Peers
<1>1. /\ Plain /\ Good(s, call, switches, rx, tx, peer) /\ Ended(drained, s, call)
      /\ Watched(s, watcher, writing, loop, switches)
  BY DEF IInv
<1>2. /\ scenario \in Scenarios /\ watcher \in Flags /\ writing \in BOOLEAN
      /\ drained \in BOOLEAN /\ loop \in {"wait", "done"}
  BY <1>1 DEF Plain
<1>3. /\ s \in Session /\ call \in [Call -> CallState] /\ switches \in Nat
      /\ rx \in Seq(Msg) /\ tx \in Seq(Msg) /\ peer \in Peers
  BY <1>1, GoodFacts
<1> QED BY <1>1, <1>2, <1>3

\* A step of a caller, of which the rest of the state knows nothing.
LEMMA CallerKeeps ==
  ASSUME IInv, NEW c \in Call, NEW x, x \notin {At("terminated"), At("deferred")},
         UNCHANGED <<scenario, watcher, writing, loop, rx, eof, tx, peer, drained>>,
         pinger' = pinger,
         Good(s', call', switches', rx, tx, peer), s'.sock = s.sock, s.shared \subseteq s'.shared,
         s.late \subseteq s'.late, s.sock \/ x # At("waiting") \/ c \in s'.late,
         call' = call \/ call' = [call EXCEPT ![c] = x],
         Watched(s', watcher, writing, loop, switches')
  PROVE  IInv'
<1>1. /\ Plain /\ Ended(drained, s, call) /\ watcher \in Flags /\ writing \in BOOLEAN
      /\ drained \in BOOLEAN /\ loop \in {"wait", "done"} /\ call \in [Call -> CallState]
  BY IInvFacts
<1>2. \A d \in Call :
        \/ call'[d] = call[d]
        \/ /\ call'[d] \notin {At("terminated"), At("deferred")}
           /\ s.sock \/ call'[d] # At("waiting") \/ d \in s'.late
  BY <1>1
<1>3. Ended(drained, s', call')
  BY <1>1, <1>2, EndedMoves
<1> QED BY <1>1, <1>3, Keeps

LEMMA ProceedKeeps ==
  ASSUME IInv, NEW c \in Call, call[c] \in {At("idle"), At("await_ready")}, Makes(c),
         Proceed(c),
         UNCHANGED <<scenario, watcher, writing, loop, pinger, rx, eof, tx, peer, drained>>
  PROVE  IInv'
<1>1. /\ Good(s, call, switches, rx, tx, peer) /\ Watched(s, watcher, writing, loop, switches)
      /\ watcher \in Flags /\ writing \in BOOLEAN /\ switches \in Nat /\ s \in Session
      /\ scenario \in Scenarios /\ call \in [Call -> CallState]
  BY IInvFacts
<1>0. /\ At("waiting") \notin {At("terminated"), At("deferred")}
      /\ At("sent") \notin {At("terminated"), At("deferred"), At("waiting")}
  BY AtFacts
<1>2. CASE c \in scenario.requests
  <2>1. Register(c)
    BY <1>2 DEF Proceed
  <2>2. IsClient
    <3>1. c \notin scenario.pushes
      BY <1>1, <1>2, PySessionAssumption
    <3> QED BY <3>1 DEF Makes
  <2>3. /\ s' = Registered(s, c)
        /\ call' = Waits(call, c)
        /\ switches' = switches + Resumed(s', watcher)
    BY <2>1, CountsUp DEF Register, Registered, Waits
  <2>4. /\ Good(s', call', switches, rx, tx, peer) /\ Good(s', call', switches + 1, rx, tx, peer)
        /\ s'.sock = s.sock /\ s'.out # <<>> /\ s'.shared = s.shared
        /\ s.late \subseteq s'.late /\ (s.sock \/ c \in s'.late)
    <3>1. Good(s, call, switches, rx, tx, peer) /\ call[c] \in {At("idle"), At("await_ready")}
          /\ c \in Call
      BY <1>1
    <3> QED BY ONLY <2>2, <2>3, <3>1, Registers
  <2>5. Watched(s', watcher, writing, loop, switches') /\ Resumed(s', watcher) \in {0, 1}
    BY <1>1, <2>3, <2>4, Woken
  <2>6. Good(s', call', switches', rx, tx, peer)
    BY <1>1, <2>3, <2>4, <2>5
  <2> QED BY <1>0, <2>3, <2>4, <2>5, <2>6, CallerKeeps DEF Waits
<1>3. CASE c \notin scenario.requests
  <2>1. SendPush(c)
    BY <1>3 DEF Proceed
  <2> DEFINE f == Frame("push", 0, c)
  <2>2. /\ s' = Enqueue(s, f) /\ call' = [call EXCEPT ![c] = At("sent")]
        /\ switches' = switches + Resumed(s', watcher)
    BY <2>1 DEF SendPush
  <2>3. f \in OutMsg /\ f.op = "push"
    <3>1. 0 \in 0..N /\ c \in Call \cup {NoCall, Garbled}
      BY NIsNat
    <3> QED BY <3>1, FrameFacts
  <2> HIDE DEF f
  <2>4. /\ s' \in Session /\ s'.out = Append(s.out, f) /\ s'.out # <<>>
        /\ s'.sock = s.sock /\ s'.shutting = s.shutting /\ s'.wronged = s.wronged
        /\ SameTable(s, s')
    BY <1>1, <2>2, <2>3, EnqueueFacts
  <2>5. s'.shared = s.shared /\ s'.late = s.late /\ (s'.wronged => s'.shared # {})
    BY <1>1, <2>4 DEF Good, Fair, SameTable
  <2>6. Good(s', call, switches, rx, tx, peer)
    BY <1>1, <2>3, <2>4, <2>5, QuietChange
  <2>7. Good(s', call', switches, rx, tx, peer) /\ Good(s', call', switches + 1, rx, tx, peer)
    BY <2>2, <2>6, CallerMoves
  <2>8. Watched(s', watcher, writing, loop, switches') /\ Resumed(s', watcher) \in {0, 1}
    BY <1>1, <2>2, <2>4, Woken
  <2>9. Good(s', call', switches', rx, tx, peer)
    BY <1>1, <2>2, <2>7, <2>8
  <2> QED BY <1>0, <2>2, <2>4, <2>5, <2>8, <2>9, CallerKeeps
<1> QED BY <1>2, <1>3

LEMMA CallStartKeeps ==
  ASSUME IInv, NEW c \in Call, CallStart(c)
  PROVE  IInv'
<1>1. /\ Good(s, call, switches, rx, tx, peer) /\ Watched(s, watcher, writing, loop, switches)
      /\ call[c] = At("idle") /\ Makes(c)
      /\ UNCHANGED <<scenario, watcher, writing, loop, pinger, rx, eof, tx, peer, drained>>
  BY IInvFacts DEF CallStart, Makes
<1>2. ASSUME NEW place \in {"refused", "await_ready"},
             call' = [call EXCEPT ![c] = At(place)], UNCHANGED <<s, switches>>
      PROVE  IInv'
  <2>1. Good(s, call', switches, rx, tx, peer)
    BY <1>1, <1>2, CallerMoves
  <2>2. At(place) \notin {At("terminated"), At("deferred"), At("waiting")}
    BY AtFacts
  <2> QED BY <1>1, <1>2, <2>1, <2>2, CallerKeeps
<1>3. \/ Proceed(c)
      \/ \E place \in {"refused", "await_ready"} :
           call' = [call EXCEPT ![c] = At(place)] /\ UNCHANGED <<s, switches>>
  BY DEF CallStart, Refuse
<1> QED BY <1>1, <1>2, <1>3, ProceedKeeps

LEMMA CallReadyKeeps ==
  ASSUME IInv, NEW c \in Call, CallReady(c)
  PROVE  IInv'
<1>1. /\ Good(s, call, switches, rx, tx, peer) /\ Watched(s, watcher, writing, loop, switches)
      /\ call[c] = At("await_ready")
      /\ UNCHANGED <<scenario, watcher, writing, loop, pinger, rx, eof, tx, peer, drained>>
  BY IInvFacts DEF CallReady
<1>2. Makes(c)
  BY <1>1 DEF Good, Books
<1>3. CASE s.ready
  <2>1. Proceed(c)
    BY <1>3 DEF CallReady
  <2> QED BY <1>1, <1>2, <2>1, ProceedKeeps
<1>4. CASE ~s.ready
  <2>1. call' = [call EXCEPT ![c] = At("refused")] /\ UNCHANGED <<s, switches>>
    BY <1>4 DEF CallReady, Refuse
  <2>2. Good(s, call', switches, rx, tx, peer)
    BY <1>1, <2>1, CallerMoves
  <2>3. At("refused") \notin {At("terminated"), At("deferred"), At("waiting")}
    BY AtFacts
  <2> QED BY <1>1, <2>1, <2>2, <2>3, CallerKeeps
<1> QED BY <1>3, <1>4

\* A session and calls that have gone on.
LEMMA GoodAlong ==
  ASSUME NEW t, NEW cs, NEW k, NEW q, NEW p, NEW pr, Good(t, cs, k, q, p, pr),
         NEW u \in Session, NEW ds \in [Call -> CallState], NEW r \in Seq(Msg),
         Along(t, u), Onward(cs, ds), t.sock => Core(u, ds, r, p, pr),
         Own(u, ds), Told(u, ds)
  PROVE  /\ Good(u, ds, k, r, p, pr)
         /\ \A c \in Call : c \in Spent(ds) \ Spent(cs) => Good(u, ds, k + 1, r, p, pr)
<1>1. /\ Typed(t, cs, q, p, pr) /\ Books(t, cs, k, pr.num) /\ Fair(t, cs) /\ t.seq \in 0..N
  BY GoodFacts DEF Good
<1>2. /\ u.sock = t.sock /\ u.seq = t.seq /\ u.wronged = t.wronged /\ t.shared \subseteq u.shared
      /\ t.shutting => u.shutting
      /\ u.misread => t.misread \/ u.shutting
  BY DEF Along
<1>3. t.seq \in Nat
  BY <1>1, NIsNat
<1>4. /\ Books(u, ds, k, pr.num)
      /\ \A c \in Call : c \in Spent(ds) \ Spent(cs) => Books(u, ds, k + 1, pr.num)
  BY <1>1, <1>2, <1>3, OnwardBooks
<1>5. Typed(u, ds, r, p, pr) /\ Fair(u, ds)
  BY <1>1, <1>2 DEF Typed, Fair
<1> QED BY <1>2, <1>4, <1>5 DEF Good

LEMMA HandlerRespondsKeeps ==
  ASSUME IInv, NEW c \in Call, HandlerResponds(c)
  PROVE  IInv'
<1> DEFINE b == Respond(s, call, peer.num[c], c)
<1>1. /\ Good(s, call, switches, rx, tx, peer) /\ Watched(s, watcher, writing, loop, switches)
      /\ watcher \in Flags /\ writing \in BOOLEAN /\ switches \in Nat /\ s \in Session
      /\ call \in [Call -> CallState] /\ rx \in Seq(Msg) /\ tx \in Seq(Msg)
  BY IInvFacts
<1>2. /\ call[c] = At("deferred") /\ s' = b.session /\ call' = b.calls
      /\ switches' = switches + IF b.calls[c] = At("responded") THEN Resumed(b.session, watcher) ELSE 0
      /\ UNCHANGED <<scenario, watcher, writing, loop, pinger, rx, eof, tx, peer, drained>>
  BY DEF HandlerResponds
<1>3. /\ \A x \in {"responded", "dropped"} :
           At(x) \in CallState /\ At(x)[1] = x /\ At(x) \notin {At("terminated"), At("deferred"), At("waiting")}
      /\ At("deferred")[1] = "deferred" /\ At("responded") # At("dropped")
  BY AtFacts
<1>4. CASE s.sock
  <2>1. ~IsClient
    <3> SUFFICES ASSUME IsClient PROVE FALSE
      OBVIOUS
    <3>1. ClientTable(s, call)
      BY <1>1, <1>4 DEF Good, Core, ClientOK
    <3> QED BY <1>2, <3>1 DEF ClientTable
  <2>2. ServerOK(s, call, rx, tx, peer.num) /\ peer.todo = {}
    BY <1>1, <1>4, <2>1 DEF Good, Core
  <2>3. Numbers(peer.num)
    BY <1>1, GoodFacts
  <2>4. Responded(s, call, rx, tx, peer.num, c, b)
    BY <1>1, <1>2, <2>2, <2>3, ServerRespond
  <2> HIDE DEF b
  <2>5. /\ ServerOK(s', call', rx, tx, peer.num) /\ Along(s, s') /\ Onward(call, call')
        /\ call' = [call EXCEPT ![c] = call'[c]]
        /\ call'[c] \in {At("responded"), At("dropped")}
        /\ call'[c] = At("dropped") => s' = s
        /\ call'[c] = At("responded") => s'.out # <<>>
    BY <1>2, <2>4 DEF Responded
  <2>6. s' \in Session /\ call' \in [Call -> CallState] /\ Open(s', call')
    BY <2>5 DEF ServerOK
  <2>7. Core(s', call', rx, tx, peer)
    BY <2>1, <2>2, <2>5 DEF Core
  <2>8. c \in Spent(call') \ Spent(call)
    BY <1>2, <1>3, <2>5 DEF Spent
  <2>9. Good(s', call', switches, rx, tx, peer) /\ Good(s', call', switches + 1, rx, tx, peer)
    <3>1. Own(s', call') /\ Told(s', call')
      BY <2>5, <2>6 DEF Open, Told, ServerOK
    <3> QED BY <1>1, <2>5, <2>6, <2>7, <2>8, <3>1, GoodAlong
  <2>10. s'.sock = s.sock /\ s.shared \subseteq s'.shared /\ s'.late = s.late
    BY <2>5 DEF Along
  <2>11. /\ Watched(s', watcher, writing, loop, switches')
         /\ Good(s', call', switches', rx, tx, peer)
    <3>1. CASE call'[c] = At("responded")
      <4>1. switches' = switches + Resumed(s', watcher)
        BY <1>2, <3>1
      <4>2. Watched(s', watcher, writing, loop, switches') /\ Resumed(s', watcher) \in {0, 1}
        BY <1>1, <2>5, <2>10, <3>1, <4>1, Woken
      <4> QED BY <1>1, <2>9, <4>1, <4>2
    <3>2. CASE call'[c] = At("dropped")
      BY <1>1, <1>2, <1>3, <2>5, <2>9, <3>2
    <3> QED BY <2>5, <3>1, <3>2
  <2> QED BY <1>2, <1>3, <2>5, <2>10, <2>11, CallerKeeps
<1>5. CASE ~s.sock
  <2> DEFINE ds == [call EXCEPT ![c] = At("dropped")]
  <2>1. b = After(s, ds)
    BY <1>5 DEF Respond
  <2>2. b.session = s /\ b.calls = ds
    BY <2>1, AfterFacts
  <2>3. ds \in [Call -> CallState] /\ ds[c] = At("dropped") /\ \A d \in Call \ {c} : ds[d] = call[d]
    BY <1>1, <1>3, CallSet
  <2>4. Onward(call, ds)
    BY <1>1, <1>2, <1>3, OnwardSet
  <2>5. s' = s /\ call' = ds /\ switches' = switches
    BY <1>1, <1>2, <1>3, <2>2, <2>3
  <2> HIDE DEF ds
  <2>6. Own(s, ds) /\ Told(s, ds)
    BY <1>1, <1>3, <2>3 DEF Good, Fair, Own, Told
  <2>7. Good(s, ds, switches, rx, tx, peer)
    BY <1>1, <1>5, <2>3, <2>4, <2>6, AlongSteps, GoodAlong
  <2> QED BY <1>1, <1>2, <1>3, <2>5, <2>7, CallerKeeps DEF ds
<1> QED BY <1>4, <1>5

\* close() queues only a goaway, for which nobody need be woken.
LEMMA ClosedWatch ==
  ASSUME NEW t, t.out \in Seq(OutMsg), NEW u, NEW f, NEW w, NEW l, NEW k,
         Watched(t, f, w, l, k), u.sock = t.sock,
         u.out = t.out \/ u.out = Append(t.out, Frame("goaway", 0, NoCall))
  PROVE  Watched(u, f, w, l, k)
<1> DEFINE g == Frame("goaway", 0, NoCall)
<1>1. g \in OutMsg /\ g.op = "goaway"
  BY FrameFacts, NIsNat
<1> HIDE DEF g
<1>2. CASE u.out = t.out
  BY <1>2 DEF Watched
<1>3. CASE u.out = Append(t.out, g)
  <2>1. /\ u.out # <<>>
        /\ \A i \in DOMAIN u.out : (i \in DOMAIN t.out /\ u.out[i] = t.out[i]) \/ u.out[i] = g
    BY <1>1, <1>3, AppendFacts
  <2> QED BY <1>1, <2>1 DEF Watched
<1> QED BY <1>2, <1>3 DEF g

LEMMA UserClosesKeeps == ASSUME IInv, UserCloses PROVE IInv'
<1>1. /\ Good(s, call, switches, rx, tx, peer) /\ Watched(s, watcher, writing, loop, switches)
      /\ Ended(drained, s, call) /\ s \in Session /\ s.out \in Seq(OutMsg) /\ Plain
      /\ watcher \in Flags /\ writing \in BOOLEAN /\ drained \in BOOLEAN /\ loop \in {"wait", "done"}
  BY IInvFacts, GoodFacts
<1>2. /\ s' = Close(s, TRUE)
      /\ UNCHANGED <<scenario, watcher, writing, loop, switches, pinger, call, rx, eof, tx, peer,
                     drained>>
  BY DEF UserCloses
<1>3. /\ Good(s', call, switches, rx, tx, peer) /\ s'.sock = s.sock /\ s'.shared = s.shared
      /\ s'.late = s.late
      /\ s'.out = s.out \/ s'.out = Append(s.out, Frame("goaway", 0, NoCall))
  BY <1>1, <1>2, Closes, ZenonT(40)
<1>4. Watched(s', watcher, writing, loop, switches)
  BY <1>1, <1>3, ClosedWatch
<1>5. Ended(drained, s', call)
  BY <1>1, <1>3 DEF Ended
<1> QED BY <1>1, <1>2, <1>3, <1>4, <1>5, Keeps

LEMMA TimerDone ==
  ASSUME NEW t, NEW cs, NEW k, NEW q, NEW p, NEW pr, Good(t, cs, k, q, p, pr),
         NEW u, u = [t EXCEPT !.timer = "done"]
  PROVE  Good(u, cs, k, q, p, pr) /\ u.sock = t.sock /\ u.shared = t.shared /\ u.out = t.out
         /\ u.late = t.late
<1>1. t \in Session /\ Fair(t, cs)
  BY GoodFacts DEF Good
<1>2. /\ u \in Session /\ SameTable(t, u) /\ u.sock = t.sock /\ u.shutting = t.shutting
      /\ u.wronged = t.wronged /\ u.out = t.out /\ u.shared = t.shared
      /\ u.late = t.late
  BY <1>1, SessionDef DEF SameTable
<1>3. u.wronged => u.shared # {}
  BY <1>1, <1>2 DEF Fair
<1> QED BY <1>2, <1>3, QuietChange

LEMMA CleanUpKeeps ==
  ASSUME IInv, NEW t, Good(t, call, switches, rx, tx, peer), t.sock = s.sock,
         Ended(drained, t, call),
         CleanUp(t), pinger' = pinger
  PROVE  IInv'
<1>1. /\ Ended(drained, s, call) /\ Plain /\ switches \in Nat /\ t.sock \in BOOLEAN
      /\ watcher \in Flags /\ writing \in BOOLEAN /\ drained \in BOOLEAN /\ loop \in {"wait", "done"}
  BY IInvFacts, GoodFacts
<1>2. /\ s' = CleanedUp(t) /\ call' = Terminated(t, call)
      /\ switches' = switches \/ (t.sock /\ switches' = switches + 1)
      /\ UNCHANGED <<scenario, watcher, writing, loop, rx, eof, tx, peer, drained>>
  BY <1>1 DEF CleanUp
<1>3. /\ Good(s', call', switches, rx, tx, peer)
      /\ t.sock => Good(s', call', switches + 1, rx, tx, peer)
      /\ ~s'.sock
      /\ ~t.sock /\ Ended(drained, t, call) => Ended(drained, s', call')
  <2>1. s' = CleanedUp(t) /\ call' = Terminated(t, call)
        /\ Good(t, call, switches, rx, tx, peer)
    BY <1>2
  <2> QED BY ONLY <2>1, Cleans
<1>4. Good(s', call', switches', rx, tx, peer)
  BY <1>2, <1>3
<1>5. Ended(drained, s', call') /\ Watched(s', watcher, writing, loop, switches')
  <2>1. t.sock => ~drained
    BY <1>1 DEF Ended
  <2>2. Ended(drained, s', call')
    BY <1>1, <1>3, <2>1 DEF Ended
  <2> QED BY <1>3, <2>2 DEF Watched
<1> QED BY <1>1, <1>2, <1>4, <1>5, Keeps

LEMMA UserTerminatesKeeps == ASSUME IInv, UserTerminates PROVE IInv'
BY IInvFacts, CleanUpKeeps DEF UserTerminates

LEMMA CloseTimeoutKeeps == ASSUME IInv, CloseTimeout PROVE IInv'
<1> DEFINE t == [s EXCEPT !.timer = "done"]
<1>1. /\ Good(s, call, switches, rx, tx, peer) /\ Watched(s, watcher, writing, loop, switches)
      /\ Ended(drained, s, call) /\ Plain
      /\ watcher \in Flags /\ writing \in BOOLEAN /\ drained \in BOOLEAN /\ loop \in {"wait", "done"}
  BY IInvFacts
<1>2. Good(t, call, switches, rx, tx, peer) /\ t.sock = s.sock /\ t.shared = s.shared /\ t.out = s.out
      /\ t.late = s.late
  BY <1>1, TimerDone
<1>3. CASE s.sock
  <2>1. CleanUp(t) /\ pinger' = pinger
    BY <1>3 DEF CloseTimeout
  <2> HIDE DEF t
  <2>2. Ended(drained, t, call)
    BY <1>1, <1>2 DEF Ended
  <2> QED BY <1>2, <1>3, <2>1, <2>2, CleanUpKeeps
<1>4. CASE ~s.sock
  <2>1. /\ s' = t /\ pinger' = pinger
        /\ UNCHANGED <<scenario, watcher, writing, loop, switches, call, rx, eof, tx, peer, drained>>
    BY <1>4 DEF CloseTimeout
  <2> HIDE DEF t
  <2>2. Ended(drained, s', call') /\ Watched(s', watcher, writing, loop, switches')
    BY <1>1, <1>2, <1>4, <2>1 DEF Ended, Watched
  <2> QED BY <1>1, <1>2, <2>1, <2>2, Keeps
<1> QED BY <1>3, <1>4

\* The ping loop; a pong that was heard has made the ping answered, unless
\* the ping met a request.
LEMMA PingTickKeeps == ASSUME IInv, PingTick PROVE IInv'
<1>1. /\ Good(s, call, switches, rx, tx, peer) /\ Watched(s, watcher, writing, loop, switches)
      /\ Ended(drained, s, call) /\ Plain /\ switches \in Nat /\ s \in Session /\ s.out \in Seq(OutMsg)
      /\ watcher \in Flags /\ writing \in BOOLEAN /\ drained \in BOOLEAN /\ loop \in {"wait", "done"}
  BY IInvFacts, GoodFacts
<1>2. /\ switches = 0
      /\ UNCHANGED <<scenario, watcher, writing, loop, call, rx, eof, tx, peer, drained>>
  BY DEF PingTick
<1>0. pinger' \in {"wait", "done"}
  BY DEF PingTick
<1>3. Plain'
  BY <1>0, <1>1, <1>2 DEF Plain
<1>4. ASSUME UNCHANGED <<s, switches>> PROVE IInv'
  BY <1>1, <1>2, <1>3, <1>4, Keeps
<1>5. ASSUME ~ShutdownEvent, ~s.ponged, s' = [Close(s, TRUE) EXCEPT !.wronged = s.heard],
             UNCHANGED switches
      PROVE  IInv'
  <2> DEFINE t == Close(s, TRUE)
  <2>1. /\ Good(t, call, switches, rx, tx, peer) /\ t.sock = s.sock /\ t.shared = s.shared
        /\ t.late = s.late
        /\ t.out = s.out \/ t.out = Append(s.out, Frame("goaway", 0, NoCall))
    BY <1>1, Closes, ZenonT(40)
  <2>2. s' = [t EXCEPT !.wronged = s.heard]
    BY <1>5
  <2> HIDE DEF t
  <2>3. s.sock /\ s.heard \in BOOLEAN
    BY <1>1, <1>5, SessionDef DEF ShutdownEvent
  <2>4. s.heard => s.shared # {}
    <3>1. Core(s, call, rx, tx, peer)
      BY <1>1, <2>3 DEF Good
    <3>2. ~s.misread
      BY <1>1, <1>5 DEF ShutdownEvent, Good, Fair
    <3> QED BY <1>5, <3>1, <3>2 DEF Core, ClientOK, ServerOK, ClientTable, ServerTable
  <2>5. t \in Session
    BY <2>1, GoodFacts
  <2>6. /\ s' \in Session /\ SameTable(t, s') /\ s'.sock = t.sock /\ s'.shutting = t.shutting
        /\ s'.wronged = s.heard /\ s'.out = t.out /\ s'.shared = t.shared
        /\ s'.late = t.late
    BY <2>2, <2>3, <2>5, SessionDef DEF SameTable
  <2>7. s'.wronged => s'.shared # {}
    BY <2>1, <2>4, <2>6
  <2>8. Good(s', call, switches, rx, tx, peer)
    BY <2>1, <2>6, <2>7, QuietChange
  <2>9. s'.sock = s.sock /\ s'.shared = s.shared /\ s'.late = s.late
        /\ (s'.out = s.out \/ s'.out = Append(s.out, Frame("goaway", 0, NoCall)))
    BY <2>1, <2>6
  <2>10. Watched(s', watcher, writing, loop, switches)
    BY <1>1, <2>9, ClosedWatch
  <2>11. Ended(drained, s', call)
    BY <1>1, <2>9 DEF Ended
  <2> QED BY <1>1, <1>2, <1>3, <1>5, <2>8, <2>10, <2>11, Keeps
<1>6. ASSUME ~ShutdownEvent, s.ponged, s' = SendPing(s),
             switches' = switches + Resumed(s', watcher)
      PROVE  IInv'
  <2>1. /\ Good(s', call, switches, rx, tx, peer) /\ s'.out # <<>> /\ s'.sock = s.sock
        /\ s.shared \subseteq s'.shared /\ s'.late = s.late
    <3>1. s.sock /\ ~s.shutting
      BY <1>6 DEF ShutdownEvent
    <3> QED BY <1>1, <1>6, <3>1, PingSent
  <2>2. Good(s', call, switches + 1, rx, tx, peer)
    BY <1>2, <2>1, OneSwitch
  <2>3. Watched(s', watcher, writing, loop, switches') /\ Resumed(s', watcher) \in {0, 1}
    BY <1>1, <1>6, <2>1, Woken
  <2>4. Good(s', call, switches', rx, tx, peer)
    BY <1>1, <1>6, <2>1, <2>2, <2>3
  <2>5. Ended(drained, s', call)
    BY <1>1, <2>1 DEF Ended
  <2> QED BY <1>1, <1>2, <1>3, <2>3, <2>4, <2>5, Keeps
<1> QED BY <1>4, <1>5, <1>6 DEF PingTick

-----------------------------------------------------------------------------
(* The peer                                                                *)

LEMMA PeerGood ==
  ASSUME NEW t, NEW cs, NEW k, NEW q, NEW p, NEW pr, Good(t, cs, k, q, p, pr),
         NEW r \in Seq(Msg), NEW w \in Seq(Msg), Len(w) <= Len(p),
         NEW m \in Peers, m.num = pr.num, t.sock => Core(t, cs, r, w, m)
  PROVE  Good(t, cs, k, r, w, m)
<1>1. /\ t \in Session /\ cs \in [Call -> CallState] /\ Len(p) <= TxCap /\ p \in Seq(Msg)
      /\ Books(t, cs, k, pr.num) /\ Fair(t, cs) /\ Told(t, cs)
  BY DEF Good, Typed
<1>2. Len(w) \in Nat /\ Len(p) \in Nat /\ TxCap \in Nat
  BY <1>1, LenProperties, PySessionAssumption
<1>3. Len(w) <= TxCap
  BY <1>1, <1>2
<1>4. Typed(t, cs, r, w, m)
  BY <1>1, <1>3 DEF Typed
<1> QED BY <1>1, <1>4 DEF Good

LEMMA PeerKeeps ==
  ASSUME IInv, UNCHANGED <<scenario, s, watcher, writing, loop, switches, pinger, drained>>,
         eof' \in BOOLEAN, Good(s, call', switches, rx', tx', peer'),
         \A c \in Call :
           call'[c] = call[c] \/ call'[c] \notin {At("terminated"), At("deferred"), At("waiting")}
  PROVE  IInv'
<1>1. /\ Plain /\ Ended(drained, s, call) /\ Watched(s, watcher, writing, loop, switches)
      /\ watcher \in Flags /\ writing \in BOOLEAN /\ drained \in BOOLEAN /\ loop \in {"wait", "done"}
  BY IInvFacts
<1>2. Plain'
  BY <1>1 DEF Plain
<1>3. Ended(drained, s, call')
  BY <1>1, EndedMoves
<1> QED BY <1>1, <1>2, <1>3, Keeps

\* What the peer has read, or lost, is no longer on its way.
LEMMA DropSent ==
  ASSUME NEW t, NEW cs, NEW q, NEW p \in Seq(Msg), NEW pr, Core(t, cs, q, p, pr),
         NEW w \in Seq(Msg), Suffix(w \o t.out, p \o t.out)
  PROVE  Core(t, cs, q, w, pr)
<1> DEFINE o == p \o t.out
           v == w \o t.out
<1>1. t \in Session /\ q \in Seq(Msg)
  BY DEF Core, ClientOK, ServerOK
<1>2. t.out \in Seq(Msg)
  BY <1>1, SessionDef, FrameFacts
<1>3. o \in Seq(Msg) /\ v \in Seq(Msg)
  BY <1>2, ConcatProperties
<1>4. Suffix(v, o)
  OBVIOUS
<1>5. Suffix(q, q)
  BY <1>1, SuffixSelf, LenProperties
<1>6. CASE IsClient
  <2>1. ClientFrames(t, q, o, pr.todo)
    BY <1>6 DEF Core, ClientOK
  <2>2. Shrinks(t, t)
    BY DEF Shrinks
  <2>3. ClientFrames(t, q, v, pr.todo)
    <3> HIDE DEF o, v
    <3> QED BY <1>1, <1>3, <1>4, <1>5, <2>1, <2>2, ClientFramesKept
  <2> QED BY <1>6, <2>3 DEF Core, ClientOK
<1>7. CASE ~IsClient
  <2>1. ServerFrames(t, cs, q, o, pr.num)
    BY <1>7 DEF Core, ServerOK
  <2>2. ServerFrames(t, cs, q, v, pr.num)
    <3> HIDE DEF o, v
    <3> QED BY <1>1, <1>3, <1>4, <1>5, <2>1, ServerFramesKept
  <2> QED BY <1>7, <2>2 DEF Core, ServerOK
<1> QED BY <1>6, <1>7

LEMMA ServerReceives ==
  ASSUME NEW t, NEW cs, NEW q \in Seq(Msg), NEW o, NEW num, ServerFrames(t, cs, q, o, num),
         NEW g \in Msg, g.op \in ClientSays \ {"push"},
         g.op = "pong" => /\ g.seq = t.ping /\ (t.misread \/ ~t.ponged)
                          /\ \A i \in DOMAIN q : q[i].op # "pong"
                          /\ \A i \in DOMAIN o : o[i].op # "ping",
         g.op = "request" =>
           /\ g.call \in Call /\ cs[g.call] = At("coming")
           /\ g.seq >= 1 /\ g.seq = num[g.call]
           /\ \A i \in DOMAIN q : q[i].op = "request" => q[i].call # g.call
  PROVE  ServerFrames(t, cs, Append(q, g), o, num)
<1> DEFINE r == Append(q, g)
<1>1. \A i \in DOMAIN r : (i \in DOMAIN q /\ r[i] = q[i]) \/ (i = Len(q) + 1 /\ r[i] = g)
  BY AppendFacts
<1> HIDE DEF r
<1>2. \A i \in DOMAIN r :
       /\ r[i].op \in ClientSays \ {"push"}
       /\ r[i].op = "pong" => r[i].seq = t.ping /\ (t.misread \/ ~t.ponged)
       /\ r[i].op = "request" =>
            /\ r[i].call \in Call /\ cs[r[i].call] = At("coming")
            /\ r[i].seq >= 1 /\ r[i].seq = num[r[i].call]
  BY <1>1 DEF ServerFrames
<1>3. ASSUME NEW i \in DOMAIN r, NEW j \in DOMAIN r
      PROVE  /\ r[i].op = "request" /\ r[j].op = "request" /\ r[i].call = r[j].call => i = j
             /\ r[i].op = "pong" /\ r[j].op = "pong" => i = j
  <2>1. CASE i \in DOMAIN q /\ r[i] = q[i] /\ j \in DOMAIN q /\ r[j] = q[j]
    BY <2>1 DEF ServerFrames
  <2>2. CASE i \in DOMAIN q /\ r[i] = q[i] /\ j = Len(q) + 1 /\ r[j] = g
    BY <2>2
  <2>3. CASE j \in DOMAIN q /\ r[j] = q[j] /\ i = Len(q) + 1 /\ r[i] = g
    BY <2>3
  <2>4. CASE i = Len(q) + 1 /\ j = Len(q) + 1
    BY <2>4
  <2> QED BY <1>1, <2>1, <2>2, <2>3, <2>4
<1>4. \A i \in DOMAIN o, j \in DOMAIN r : ~(o[i].op = "ping" /\ r[j].op = "pong")
  BY <1>1 DEF ServerFrames
<1>5. ServerFrames(t, cs, r, o, num)
  BY <1>2, <1>3, <1>4 DEF ServerFrames
<1> QED BY <1>5 DEF r

\* A frame of the peer arrives.
LEMMA Arrives ==
  ASSUME NEW t, NEW cs, NEW q \in Seq(Msg), NEW p \in Seq(Msg), NEW pr, Core(t, cs, q, p, pr),
         NEW g \in Msg,
         IF IsClient
         THEN /\ g.op \in ServerSays \ {"push"}
              /\ g.op \in {"response", "error"} => Owed(t, g)
              /\ g.op = "pong" => g.seq = 0
         ELSE \/ g.op \in {"ping", "goaway", "oversized", "rest"}
              \/ /\ g.op = "pong" /\ g.seq = t.ping /\ (t.misread \/ ~t.ponged)
                 /\ \A i \in DOMAIN q : q[i].op # "pong"
                 /\ \A i \in DOMAIN (p \o t.out) : (p \o t.out)[i].op # "ping"
  PROVE  Core(t, cs, Append(q, g), p, pr)
<1> DEFINE o == p \o t.out
<1>1. t \in Session
  BY DEF Core, ClientOK, ServerOK
<1>2. t.out \in Seq(Msg)
  BY <1>1, SessionDef, FrameFacts
<1>3. o \in Seq(Msg) /\ Append(q, g) \in Seq(Msg)
  BY <1>2, ConcatProperties, AppendProperties
<1>4. CASE IsClient
  <2>1. ClientFrames(t, q, o, pr.todo)
    BY <1>4 DEF Core, ClientOK
  <2>2. ClientFrames(t, Append(q, g), o, pr.todo)
    <3> HIDE DEF o
    <3> QED BY <1>3, <1>4, <2>1, ClientReceives
  <2> QED BY <1>3, <1>4, <2>2 DEF Core, ClientOK
<1>5. CASE ~IsClient
  <2>1. ServerFrames(t, cs, q, o, pr.num)
    BY <1>5 DEF Core, ServerOK
  <2>2. ServerFrames(t, cs, Append(q, g), o, pr.num)
    <3>1. /\ g.op \in {"ping", "goaway", "pong", "oversized", "rest"}
          /\ g.op = "pong" => /\ g.seq = t.ping /\ (t.misread \/ ~t.ponged)
                              /\ \A i \in DOMAIN q : q[i].op # "pong"
                              /\ \A i \in DOMAIN o : o[i].op # "ping"
      BY <1>5
    <3> HIDE DEF o
    <3> QED BY <1>3, <2>1, <3>1, ServerReceives DEF ClientSays
  <2> QED BY <1>3, <1>5, <2>2 DEF Core, ServerOK
<1> QED BY <1>4, <1>5

LEMMA PeerReadsKeeps == ASSUME IInv, PeerReads PROVE IInv'
<1> DEFINE f == Head(tx)
           w == Tail(tx)
           o == tx \o s.out
<1>1. /\ Good(s, call, switches, rx, tx, peer) /\ Plain
      /\ s \in Session /\ rx \in Seq(Msg) /\ tx \in Seq(Msg) /\ peer \in Peers
      /\ s.out \in Seq(Msg) /\ o \in Seq(Msg)
  BY IInvFacts, GoodFacts
<1>2. tx # <<>> /\ tx' = w /\ call' = call
  BY DEF PeerReads
<1>3. f \in Msg /\ w \in Seq(Msg) /\ Len(w) <= Len(tx)
  BY <1>1, <1>2
<1>4. w \o s.out = Tail(o) /\ f = Head(o) /\ o # <<>>
  BY <1>1, <1>2, ConcatTail
<1>5. f = o[1] /\ 1 \in DOMAIN o /\ Suffix(w \o s.out, o)
  <2>1. Suffix(Tail(o), o)
    <3> HIDE DEF o
    <3> QED BY <1>1, <1>4, TailSuffix
  <2>2. f = o[1] /\ 1 \in DOMAIN o
    <3> HIDE DEF o, f
    <3> QED BY <1>1, <1>4
  <2> QED BY <1>4, <2>1, <2>2
<1>6. s.sock => Core(s, call, rx, w, peer) /\ Core(s, call, rx, tx, peer)
  <2> SUFFICES ASSUME s.sock PROVE Core(s, call, rx, w, peer) /\ Core(s, call, rx, tx, peer)
    OBVIOUS
  <2>1. Core(s, call, rx, tx, peer)
    BY <1>1 DEF Good
  <2>2. Core(s, call, rx, w, peer)
    <3> HIDE DEF w
    <3> QED BY <1>1, <1>3, <1>5, <2>1, DropSent DEF o
  <2> QED BY <2>1, <2>2
<1>7. ASSUME NEW m \in Peers, m.num = peer.num, NEW r \in Seq(Msg), s.sock => Core(s, call, r, w, m),
             rx' = r, peer' = m, UNCHANGED <<scenario, s, watcher, writing, loop, switches, pinger, eof,
                 drained>>
      PROVE  IInv'
  <2>1. Good(s, call, switches, r, w, m)
    <3> HIDE DEF w
    <3> QED BY <1>1, <1>3, <1>7, PeerGood
  <2>2. eof' \in BOOLEAN
    BY <1>1, <1>7 DEF Plain
  <2> QED BY <1>2, <1>7, <2>1, <2>2, PeerKeeps
<1> HIDE DEF w
<1>8. CASE f.op = "hello"
  <2> DEFINE m == [peer EXCEPT !.left = @ \cup (scenario.peer \cap {"oversized"})]
  <2>1. PICK op \in {"unknown_encoder", "hello_ack"} : Peer(m, <<Frame(op, 0, NoCall)>>)
    BY <1>8 DEF PeerReads
  <2> DEFINE g == Frame(op, 0, NoCall)
  <2>2. g \in Msg /\ g.op = op
    BY FrameFacts, NIsNat
  <2>3. /\ rx' = rx \o <<g>> /\ peer' = m
        /\ UNCHANGED <<scenario, s, watcher, writing, loop, switches, pinger, eof, drained>>
    BY <2>1 DEF Peer
  <2>7. m \in Peers /\ m.num = peer.num /\ m.todo = peer.todo
    BY <1>1 DEF Peers
  <2> HIDE DEF g, m
  <2>4. rx' = Append(rx, g) /\ Append(rx, g) \in Seq(Msg)
    BY <1>1, <2>2, <2>3, ConcatOne, AppendProperties
  <2>5. ASSUME s.sock PROVE IsClient
    <3> SUFFICES ASSUME ~IsClient PROVE FALSE
      OBVIOUS
    <3>1. f.op \in ServerSays
      BY <1>5, <1>6, <2>5 DEF Core, ServerOK, ServerFrames
    <3> QED BY <1>8, <3>1 DEF ServerSays
  <2>6. s.sock => Core(s, call, Append(rx, g), w, m)
    <3>1. s.sock => Core(s, call, Append(rx, g), w, peer)
      BY <1>1, <1>3, <1>6, <2>2, <2>5, Arrives DEF ServerSays
    <3> QED BY <2>7, <3>1 DEF Core
  <2> QED BY <1>1, <1>7, <2>3, <2>4, <2>6, <2>7
<1>9. CASE f.op = "ping"
  <2> DEFINE g == [f EXCEPT !.op = "pong"]
  <2>1. g \in Msg /\ g.op = "pong" /\ g.seq = f.seq
    BY <1>3 DEF Msg
  <2>2. /\ rx' = rx \o <<g>> /\ peer' = peer
        /\ UNCHANGED <<scenario, s, watcher, writing, loop, switches, pinger, eof, drained>>
    BY <1>9 DEF PeerReads, Peer
  <2> HIDE DEF g
  <2>3. rx' = Append(rx, g) /\ Append(rx, g) \in Seq(Msg)
    BY <1>1, <2>1, <2>2, ConcatOne, AppendProperties
  <2>4. ASSUME s.sock, IsClient PROVE Core(s, call, Append(rx, g), w, peer)
    <3>1. f.seq = 0
      BY <1>5, <1>6, <1>9, <2>4 DEF Core, ClientOK, ClientFrames
    <3> QED BY <1>1, <1>3, <1>6, <2>1, <2>4, <3>1, Arrives DEF ServerSays
  <2>5. ASSUME s.sock, ~IsClient PROVE Core(s, call, Append(rx, g), w, peer)
    <3>1. ServerFrames(s, call, rx, o, peer.num)
      BY <1>6, <2>5 DEF Core, ServerOK
    <3>2. f.seq = s.ping /\ (s.misread \/ ~s.ponged) /\ \A i \in DOMAIN rx : rx[i].op # "pong"
      BY <1>5, <1>9, <3>1 DEF ServerFrames
    <3>3. \A i \in DOMAIN (w \o s.out) : (w \o s.out)[i].op # "ping"
      <4>1. \A i \in DOMAIN Tail(o) : i + 1 \in DOMAIN o /\ i + 1 # 1 /\ Tail(o)[i] = o[i + 1]
        <5> HIDE DEF o
        <5> QED BY <1>1, <1>4
      <4>2. \A i \in DOMAIN o : i # 1 => o[i].op # "ping"
        BY <1>5, <1>9, <3>1 DEF ServerFrames
      <4> HIDE DEF o
      <4>3. \A i \in DOMAIN Tail(o) : Tail(o)[i].op # "ping"
        BY <4>1, <4>2
      <4> QED BY <1>4, <4>3
    <3> QED BY <1>1, <1>3, <1>6, <2>1, <2>5, <3>2, <3>3, Arrives
  <2> QED BY <1>1, <1>7, <2>2, <2>3, <2>4, <2>5
<1>10. CASE f.op = "request"
  <2> DEFINE m == [peer EXCEPT !.todo = @ \cup {f}]
  <2>1. /\ rx' = rx \o <<>> /\ peer' = m
        /\ UNCHANGED <<scenario, s, watcher, writing, loop, switches, pinger, eof, drained>>
    BY <1>10 DEF PeerReads, Peer
  <2>2. rx' = rx
    BY <1>1, <2>1, ConcatEmptySeq
  <2>3. m \in Peers /\ m.num = peer.num /\ m.todo = peer.todo \cup {f}
    BY <1>1, <1>3 DEF Peers
  <2> HIDE DEF m
  <2>4. ASSUME s.sock PROVE Core(s, call, rx, w, m)
    <3>1. IsClient
      <4> SUFFICES ASSUME ~IsClient PROVE FALSE
        OBVIOUS
      <4>1. f.op \in ServerSays
        BY <1>5, <1>6, <2>4 DEF Core, ServerOK, ServerFrames
      <4> QED BY <1>10, <4>1 DEF ServerSays
    <3>2. Owed(s, f)
      BY <1>5, <1>6, <1>10, <2>4, <3>1 DEF Core, ClientOK, ClientFrames
    <3>3. ClientOK(s, call, rx, w, peer.todo)
      BY <1>6, <2>4, <3>1 DEF Core
    <3>4. ClientFrames(s, rx, w \o s.out, m.todo)
      BY <2>3, <3>2, <3>3 DEF ClientOK, ClientFrames
    <3> QED BY <3>1, <3>3, <3>4 DEF Core, ClientOK
  <2> QED BY <1>1, <1>7, <2>1, <2>2, <2>3, <2>4
<1>11. CASE f.op \notin {"hello", "ping", "request"}
  <2>1. /\ rx' = rx \o <<>> /\ peer' = peer
        /\ UNCHANGED <<scenario, s, watcher, writing, loop, switches, pinger, eof, drained>>
    BY <1>11 DEF PeerReads, Peer
  <2>2. rx' = rx
    BY <1>1, <2>1, ConcatEmptySeq
  <2> QED BY <1>1, <1>6, <1>7, <2>1, <2>2
<1> QED BY <1>8, <1>9, <1>10, <1>11

LEMMA PeerAnswersKeeps == ASSUME IInv, PeerAnswers PROVE IInv'
<1>1. /\ Good(s, call, switches, rx, tx, peer) /\ Plain
      /\ s \in Session /\ rx \in Seq(Msg) /\ tx \in Seq(Msg) /\ peer \in Peers
      /\ peer.todo \in SUBSET Msg
  BY IInvFacts, GoodFacts
<1>2. PICK f \in peer.todo, op \in {"response", "error"} :
        Peer([peer EXCEPT !.todo = @ \ {f}], <<[f EXCEPT !.op = op]>>)
  BY DEF PeerAnswers
<1> DEFINE g == [f EXCEPT !.op = op]
           m == [peer EXCEPT !.todo = @ \ {f}]
<1>3. /\ rx' = rx \o <<g>> /\ peer' = m /\ tx' = tx /\ call' = call
      /\ UNCHANGED <<scenario, s, watcher, writing, loop, switches, pinger, eof, drained>>
  BY <1>2 DEF PeerAnswers, Peer
<1>4. f \in Msg
  BY <1>1
<1>5. g \in Msg /\ g.op = op /\ g.seq = f.seq /\ g.call = f.call
  BY <1>4 DEF Msg
<1>6. m \in Peers /\ m.num = peer.num /\ m.todo \subseteq peer.todo
  BY <1>1 DEF Peers
<1> HIDE DEF g, m
<1>7. rx' = Append(rx, g) /\ Append(rx, g) \in Seq(Msg)
  BY <1>1, <1>3, <1>5, ConcatOne, AppendProperties
<1>8. ASSUME s.sock PROVE Core(s, call, Append(rx, g), tx, m)
  <2>1. Core(s, call, rx, tx, peer)
    BY <1>1, <1>8 DEF Good
  <2>2. IsClient
    BY <2>1 DEF Core
  <2>3. Owed(s, f)
    BY <2>1, <2>2 DEF Core, ClientOK, ClientFrames
  <2>4. Owed(s, g)
    BY <1>5, <2>3 DEF Owed
  <2>5. Core(s, call, Append(rx, g), tx, peer)
    BY <1>1, <1>5, <2>1, <2>2, <2>4, Arrives DEF ServerSays
  <2>6. ClientOK(s, call, Append(rx, g), tx, m.todo)
    BY <1>6, <2>2, <2>5 DEF Core, ClientOK, ClientFrames
  <2> QED BY <2>2, <2>6 DEF Core
<1>9. Len(tx) <= Len(tx)
  BY <1>1, LenProperties
<1>10. Good(s, call, switches, Append(rx, g), tx, m)
  BY <1>1, <1>6, <1>7, <1>8, <1>9, PeerGood
<1>11. eof' \in BOOLEAN
  BY <1>1, <1>3 DEF Plain
<1> QED BY <1>3, <1>7, <1>10, <1>11, PeerKeeps

LEMMA PeerSpeaksKeeps == ASSUME IInv, PeerSpeaks PROVE IInv'
<1>1. /\ Good(s, call, switches, rx, tx, peer) /\ Plain
      /\ s \in Session /\ rx \in Seq(Msg) /\ tx \in Seq(Msg) /\ peer \in Peers
  BY IInvFacts
<1>2. PICK op \in {"ping", "goaway", "oversized"} :
        Peer([peer EXCEPT !.left = (@ \ {op}) \cup IF op = "oversized" THEN {"rest"} ELSE {}],
             <<Frame(op, 0, NoCall)>>)
  BY DEF PeerSpeaks
<1> DEFINE g == Frame(op, 0, NoCall)
           m == [peer EXCEPT !.left = (@ \ {op}) \cup IF op = "oversized" THEN {"rest"} ELSE {}]
<1>3. /\ rx' = rx \o <<g>> /\ peer' = m /\ tx' = tx /\ call' = call
      /\ UNCHANGED <<scenario, s, watcher, writing, loop, switches, pinger, eof, drained>>
  BY <1>2 DEF PeerSpeaks, Peer
<1>4. g \in Msg /\ g.op = op
  BY FrameFacts, NIsNat
<1>5. m \in Peers /\ m.num = peer.num /\ m.todo = peer.todo
  BY <1>1 DEF Peers
<1> HIDE DEF g, m
<1>6. rx' = Append(rx, g) /\ Append(rx, g) \in Seq(Msg)
  BY <1>1, <1>3, <1>4, ConcatOne, AppendProperties
<1>7. ASSUME s.sock PROVE Core(s, call, Append(rx, g), tx, m)
  <2>1. Core(s, call, rx, tx, peer)
    BY <1>1, <1>7 DEF Good
  <2>2. Core(s, call, Append(rx, g), tx, peer)
    BY <1>1, <1>4, <2>1, Arrives DEF ServerSays
  <2> QED BY <1>5, <2>2 DEF Core
<1>8. Len(tx) <= Len(tx)
  BY <1>1, LenProperties
<1>9. Good(s, call, switches, Append(rx, g), tx, m)
  BY <1>1, <1>5, <1>6, <1>7, <1>8, PeerGood
<1>10. eof' \in BOOLEAN
  BY <1>1, <1>3 DEF Plain
<1> QED BY <1>3, <1>6, <1>9, <1>10, PeerKeeps

LEMMA PeerGoesOnKeeps == ASSUME IInv, PeerGoesOn PROVE IInv'
<1>1. /\ Good(s, call, switches, rx, tx, peer) /\ Plain
      /\ s \in Session /\ rx \in Seq(Msg) /\ tx \in Seq(Msg) /\ peer \in Peers
  BY IInvFacts
<1>2. Peer([peer EXCEPT !.left = @ \ {"rest"}], <<Frame("rest", 0, NoCall)>>)
  BY DEF PeerGoesOn
<1> DEFINE g == Frame("rest", 0, NoCall)
           m == [peer EXCEPT !.left = @ \ {"rest"}]
<1>3. /\ rx' = rx \o <<g>> /\ peer' = m /\ tx' = tx /\ call' = call
      /\ UNCHANGED <<scenario, s, watcher, writing, loop, switches, pinger, eof, drained>>
  BY <1>2 DEF PeerGoesOn, Peer
<1>4. g \in Msg /\ g.op = "rest"
  BY FrameFacts, NIsNat
<1>5. m \in Peers /\ m.num = peer.num /\ m.todo = peer.todo
  BY <1>1 DEF Peers
<1> HIDE DEF g, m
<1>6. rx' = Append(rx, g) /\ Append(rx, g) \in Seq(Msg)
  BY <1>1, <1>3, <1>4, ConcatOne, AppendProperties
<1>7. ASSUME s.sock PROVE Core(s, call, Append(rx, g), tx, m)
  <2>1. Core(s, call, rx, tx, peer)
    BY <1>1, <1>7 DEF Good
  <2>2. Core(s, call, Append(rx, g), tx, peer)
    BY <1>1, <1>4, <2>1, Arrives DEF ServerSays
  <2> QED BY <1>5, <2>2 DEF Core
<1>8. Len(tx) <= Len(tx)
  BY <1>1, LenProperties
<1>9. Good(s, call, switches, Append(rx, g), tx, m)
  BY <1>1, <1>5, <1>6, <1>7, <1>8, PeerGood
<1>10. eof' \in BOOLEAN
  BY <1>1, <1>3 DEF Plain
<1> QED BY <1>3, <1>6, <1>9, <1>10, PeerKeeps

LEMMA PeerMutesKeeps == ASSUME IInv, PeerMutes PROVE IInv'
<1> DEFINE m == [peer EXCEPT !.muted = TRUE]
<1>1. /\ Good(s, call, switches, rx, tx, peer) /\ Plain
      /\ s \in Session /\ rx \in Seq(Msg) /\ tx \in Seq(Msg) /\ peer \in Peers
  BY IInvFacts
<1>2. /\ rx' = rx \o <<>> /\ peer' = m /\ tx' = tx /\ call' = call
      /\ UNCHANGED <<scenario, s, watcher, writing, loop, switches, pinger, eof, drained>>
  BY DEF PeerMutes, Peer
<1>3. rx' = rx
  BY <1>1, <1>2, ConcatEmptySeq
<1>4. m \in Peers /\ m.num = peer.num /\ m.todo = peer.todo
  BY <1>1 DEF Peers
<1> HIDE DEF m
<1>5. s.sock => Core(s, call, rx, tx, m)
  BY <1>1, <1>4 DEF Good, Core
<1>6. Len(tx) <= Len(tx)
  BY <1>1, LenProperties
<1>7. Good(s, call, switches, rx, tx, m)
  BY <1>1, <1>4, <1>5, <1>6, PeerGood
<1>8. eof' \in BOOLEAN
  BY <1>1, <1>2 DEF Plain
<1> QED BY <1>2, <1>3, <1>7, <1>8, PeerKeeps

LEMMA PeerClosesKeeps == ASSUME IInv, PeerCloses PROVE IInv'
<1>1. /\ Good(s, call, switches, rx, tx, peer) /\ s \in Session /\ rx \in Seq(Msg)
      /\ tx \in Seq(Msg) /\ peer \in Peers /\ s.out \in Seq(Msg)
  BY IInvFacts, GoodFacts
<1>2. /\ eof' = TRUE /\ tx' = <<>>
      /\ UNCHANGED <<scenario, s, watcher, writing, loop, switches, pinger, call, rx, peer, drained>>
  BY DEF PeerCloses
<1>3. <<>> \in Seq(Msg) /\ Len(<<>>) <= Len(tx)
  BY <1>1
<1>4. ASSUME s.sock PROVE Core(s, call, rx, <<>>, peer)
  <2>1. <<>> \o s.out = s.out
    BY <1>1, ConcatEmptySeq
  <2>2. Suffix(s.out, tx \o s.out)
    BY <1>1, ConcatSuffix
  <2>3. Core(s, call, rx, tx, peer)
    BY <1>1, <1>4 DEF Good
  <2> QED BY <1>1, <1>3, <2>1, <2>2, <2>3, DropSent
<1>5. Good(s, call, switches, rx, <<>>, peer)
  BY <1>1, <1>3, <1>4, PeerGood
<1> QED BY <1>2, <1>5, PeerKeeps

\* A request of the peer has a number that no other has.
LEMMA PeerRequestsKeeps ==
  ASSUME IInv, NEW c \in Call, PeerRequests(c)
  PROVE  IInv'
<1> DEFINE num == peer.num
           n == 1 + Cardinality(Sent(num))
           mum == [num EXCEPT ![c] = n]
           m == [peer EXCEPT !.num = mum]
           g == Frame("request", n, c)
           ds == [call EXCEPT ![c] = At("coming")]
           o == tx \o s.out
<1>1. /\ Good(s, call, switches, rx, tx, peer) /\ Plain /\ switches \in Nat
      /\ s \in Session /\ rx \in Seq(Msg) /\ tx \in Seq(Msg) /\ peer \in Peers
      /\ call \in [Call -> CallState] /\ num \in [Call -> 0..N] /\ NumOK(call, num)
      /\ Typed(s, call, rx, tx, peer) /\ Books(s, call, switches, num) /\ Fair(s, call)
      /\ Told(s, call)
      /\ s.inflight \in Tables /\ s.shared \subseteq Call
  BY IInvFacts, GoodFacts DEF Good
<1>2. ~IsClient /\ call[c] = At("idle")
  BY DEF PeerRequests
<1>3. /\ rx' = rx \o <<g>> /\ peer' = m /\ tx' = tx /\ call' = ds
      /\ UNCHANGED <<scenario, s, watcher, writing, loop, switches, pinger, eof, drained>>
  BY DEF PeerRequests, Peer, Sent
<1>4. num[c] = 0
  BY <1>1, <1>2 DEF NumOK
<1>5. Cardinality(Sent(num)) \in Nat /\ n \in 1..N
  <2>1. Sent(num) \in SUBSET Call /\ c \in Call \ Sent(num) /\ Call \in SUBSET Call
    BY <1>4 DEF Sent
  <2>2. Cardinality(Sent(num)) \in 0..N /\ Cardinality(Sent(num)) + 1 <= Cardinality(Call)
    BY <2>1, CallSets
  <2> QED BY <2>2, NIsNat DEF N
<1>6. /\ mum \in [Call -> 0..N] /\ mum[c] = n /\ \A d \in Call \ {c} : mum[d] = num[d]
  BY <1>1, <1>5
<1>7. g \in Msg /\ g.op = "request" /\ g.seq = n /\ g.call = c
  <2>1. n \in 0..N /\ c \in Call \cup {NoCall, Garbled}
    BY <1>5
  <2> HIDE DEF n
  <2> QED BY <2>1, FrameFacts
<1>8. /\ At("coming") \in CallState /\ At("coming")[1] = "coming" /\ At("idle")[1] = "idle"
      /\ At("coming") \notin {At("idle"), At("await_ready"), At("terminated"), At("deferred"), At("waiting")}
      /\ At("idle") \notin {At("deferred"), At("coming")}
  BY AtFacts
<1>9. ds \in [Call -> CallState] /\ ds[c] = At("coming") /\ \A d \in Call \ {c} : ds[d] = call[d]
  BY <1>1, <1>8, CallSet
<1>10. m \in Peers /\ m.num = mum /\ m.todo = peer.todo
  <2> HIDE DEF mum
  <2> QED BY <1>1, <1>6 DEF Peers
<1> HIDE DEF n, mum, m, g, ds
<1>11. NumOK(ds, mum)
  <2>1. \A d \in Call : num[d] <= Cardinality(Sent(num)) /\ num[d] \in Nat
    BY <1>1 DEF NumOK
  <2>2. \A d \in Call : num[d] < n /\ n # 0
    BY <1>5, <2>1 DEF n
  <2>3. Cardinality(Sent(mum)) \in Nat /\ n <= Cardinality(Sent(mum))
    <3>1. Sent(num) \subseteq Sent(mum) /\ c \in Sent(mum) \ Sent(num)
      BY <1>4, <1>6, <2>2 DEF Sent
    <3>2. Sent(num) \in SUBSET Call /\ Sent(mum) \in SUBSET Call
      BY DEF Sent
    <3>3. Cardinality(Sent(num)) + 1 <= Cardinality(Sent(mum)) /\ Cardinality(Sent(mum)) \in 0..N
      BY <3>1, <3>2, CallSets
    <3> QED BY <1>5, <3>3, NIsNat DEF n
  <2>4. ASSUME NEW d \in Call PROVE mum[d] <= Cardinality(Sent(mum))
    <3>1. CASE d = c
      BY <1>6, <2>3, <3>1
    <3>2. CASE d # c
      <4>1. num[d] \in Nat /\ n \in Nat
        BY <1>5, <2>1
      <4> QED BY <1>6, <2>2, <2>3, <3>2, <4>1
    <3> QED BY <3>1, <3>2
  <2>5. ASSUME NEW a \in Call, NEW b \in Call, mum[a] = mum[b], mum[a] # 0 PROVE a = b
    <3>1. \A d \in Call : num[d] # n
      BY <1>5, <2>1, <2>2
    <3>2. CASE a = c \/ b = c
      BY <1>6, <2>5, <3>1, <3>2
    <3>3. CASE a # c /\ b # c
      BY <1>1, <1>6, <2>5, <3>3 DEF NumOK
    <3> QED BY <3>2, <3>3
  <2>6. \A d \in Call : ds[d] = At("idle") => mum[d] = 0
    BY <1>1, <1>6, <1>8, <1>9 DEF NumOK
  <2> QED BY <1>6, <2>4, <2>5, <2>6 DEF NumOK
<1>12. Spent(ds) = Spent(call)
  BY <1>2, <1>8, <1>9 DEF Spent
<1>13. Books(s, ds, switches, mum)
  <2>1. \A d \in Call : ds[d] = At("await_ready") => Makes(d)
    BY <1>1, <1>8, <1>9 DEF Books
  <2> QED BY <1>1, <1>2, <1>11, <1>12, <2>1 DEF Books
<1>14. Fair(s, ds) /\ Told(s, ds)
  BY <1>1, <1>2, <1>8, <1>9 DEF Fair, Own, Told
<1>15. rx' = Append(rx, g) /\ Append(rx, g) \in Seq(Msg)
  BY <1>1, <1>3, <1>7, ConcatOne, AppendProperties
<1>16. Typed(s, ds, Append(rx, g), tx, m)
  BY <1>1, <1>9, <1>10, <1>15 DEF Typed
<1>17. ASSUME s.sock PROVE Core(s, ds, Append(rx, g), tx, m)
  <2>1. /\ peer.todo = {} /\ Open(s, call) /\ ServerTable(s, call, num)
        /\ ServerFrames(s, call, rx, o, num)
    BY <1>1, <1>2, <1>17 DEF Good, Core, ServerOK
  <2>2. Open(s, ds)
    BY <1>8, <1>9, <2>1 DEF Open, Own
  <2>3. ServerTable(s, ds, mum)
    <3>1. ASSUME NEW l \in DOMAIN s.inflight, s.inflight[l] \in Call
          PROVE  /\ l >= 1 /\ mum[s.inflight[l]] = l
                 /\ s.shutting \/ ds[s.inflight[l]] = At("deferred")
      <4>1. l >= 1 /\ num[s.inflight[l]] = l /\ (s.shutting \/ call[s.inflight[l]] = At("deferred"))
        BY <2>1, <3>1 DEF ServerTable
      <4>3. s.inflight[l] # c
        BY <1>4, <4>1
      <4> QED BY <1>6, <1>9, <3>1, <4>1, <4>3
    <3>2. ASSUME NEW d \in Call, ds[d] = At("deferred")
          PROVE  d \in s.shared \/ Holds(s, mum[d], d)
      BY <1>6, <1>8, <1>9, <2>1, <3>2 DEF ServerTable
    <3>3. \A d \in s.shared : d \in Call /\ d # c /\ mum[d] = num[d]
      BY <1>1, <1>4, <1>6, <2>1 DEF ServerTable
    <3>4. \A d \in Call : ds[d] # At("waiting")
      BY <1>8, <1>9, <2>1 DEF ServerTable
    <3>5. s.ponged \/ Holds(s, s.ping, NoCall) \/ s.misread \/ \E d \in s.shared : mum[d] = s.ping
      BY <2>1, <3>3 DEF ServerTable
    <3> QED BY <2>1, <3>1, <3>2, <3>3, <3>4, <3>5 DEF ServerTable
  <2>4. ServerFrames(s, ds, rx, o, mum)
    <3>1. \A i \in DOMAIN rx : rx[i].op = "request" => rx[i].call \in Call \ {c}
      BY <1>2, <1>8, <2>1 DEF ServerFrames
    <3>2. \A i \in DOMAIN rx : rx[i].op = "request" =>
            /\ rx[i].call \in Call /\ ds[rx[i].call] = At("coming")
            /\ rx[i].seq >= 1 /\ rx[i].seq = mum[rx[i].call]
      BY <1>6, <1>9, <2>1, <3>1 DEF ServerFrames
    <3> QED BY <2>1, <3>2 DEF ServerFrames
  <2>5. \A i \in DOMAIN rx : rx[i].op = "request" => rx[i].call # c
    BY <1>2, <1>8, <2>1 DEF ServerFrames
  <2>6. ServerFrames(s, ds, Append(rx, g), o, mum)
    <3> HIDE DEF o
    <3>1. /\ g.op \in ClientSays \ {"push"} /\ g.op # "pong"
          /\ g.call \in Call /\ ds[g.call] = At("coming") /\ g.seq >= 1 /\ g.seq = mum[g.call]
          /\ \A i \in DOMAIN rx : rx[i].op = "request" => rx[i].call # g.call
      BY <1>5, <1>6, <1>7, <1>9, <2>5 DEF ClientSays
    <3> QED BY <1>1, <1>7, <2>4, <3>1, ServerReceives
  <2> QED BY <1>1, <1>2, <1>9, <1>10, <1>15, <1>17, <2>1, <2>2, <2>3, <2>6 DEF Core, ServerOK
<1>18. Good(s, ds, switches, Append(rx, g), tx, m)
  BY <1>10, <1>13, <1>14, <1>16, <1>17 DEF Good
<1>19. eof' \in BOOLEAN
  BY <1>1, <1>3 DEF Plain
<1>20. \A d \in Call :
         call'[d] = call[d] \/ call'[d] \notin {At("terminated"), At("deferred"), At("waiting")}
  BY <1>3, <1>8, <1>9
<1> QED BY <1>3, <1>15, <1>18, <1>19, <1>20, PeerKeeps

-----------------------------------------------------------------------------
(* The run loop                                                            *)

\* Each reply is to a request of its own.
LEMMA RepliesBound ==
  ASSUME NEW q, NEW cs,
         \A i, j \in DOMAIN q :
           q[i].op = "request" /\ q[j].op = "request" /\ q[i].call = q[j].call /\ q[i].call \in Call
             => i = j
  PROVE  Replies(q, cs) \in Nat /\ Replies(q, cs) <= Cardinality(Spent(cs))
<1> DEFINE S == {i \in DOMAIN q : /\ q[i].op = "request" /\ q[i].call \in Call
                                    /\ cs[q[i].call] = At("responded")}
           h == [i \in S |-> q[i].call]
<1>1. At("responded")[1] = "responded"
  BY AtFacts
<1>2. \A i \in S : q[i].call \in Spent(cs)
  BY <1>1 DEF Spent
<1>3. h \in [S -> Spent(cs)] /\ IsInjective(h)
  BY <1>2 DEF IsInjective
<1>4. h \in Injection(S, Spent(cs))
  <2> HIDE DEF h, S
  <2> QED BY <1>3 DEF Injection
<1>5. Spent(cs) \in SUBSET Call
  BY DEF Spent
<1>6. IsFiniteSet(Spent(cs))
  BY <1>5, CallSets
<1>7. Replies(q, cs) = Cardinality(S)
  BY DEF Replies
<1> HIDE DEF S, h
<1>8. IsFiniteSet(S) /\ Cardinality(S) <= Cardinality(Spent(cs))
  BY <1>4, <1>6, FS_Injection
<1> QED BY <1>7, <1>8, FS_CardinalityType

\* What a chunk does to the session.
LEMMA Handles ==
  ASSUME NEW k, Good(s, call, k, rx, tx, peer), s.sock,
         NEW frames \in Decodes(rx), NEW b, b = Handled(frames)
  PROVE  /\ Good(b.session, b.calls, k, <<>>, tx, peer) /\ b.session.sock
         /\ s.out # <<>> => b.session.out # <<>>
         /\ Asks(frames, b.calls) \in Nat
         /\ Asks(frames, b.calls) <= Cardinality(Spent(b.calls)) + 1
<1>0. <<>> \in Seq(Msg)
  OBVIOUS
<1>1. /\ rx \in Seq(Msg) /\ tx \in Seq(Msg) /\ Numbers(peer.num)
      /\ Core(s, call, rx, tx, peer)
  BY GoodFacts DEF Good
<1>2. /\ Core(b.session, b.calls, <<>>, tx, peer)
      /\ Along(s, b.session) /\ Onward(call, b.calls)
      /\ \A i, j \in DOMAIN rx :
           rx[i].op = "request" /\ rx[j].op = "request" /\ rx[i].call = rx[j].call => i = j
  <2>1. CASE IsClient
    <3>1. ClientOK(s, call, rx, tx, peer.todo)
      BY <1>1, <2>1 DEF Core
    <3>2. /\ ClientOK(b.session, b.calls, <<>>, tx, peer.todo)
          /\ Along(s, b.session) /\ Onward(call, b.calls)
      BY <1>1, <2>1, <3>1, ClientChunk
    <3>3. \A i \in DOMAIN rx : rx[i].op # "request"
      BY <3>1 DEF ClientOK, ClientFrames, ServerSays
    <3> QED BY <2>1, <3>2, <3>3 DEF Core
  <2>2. CASE ~IsClient
    <3>1. ServerOK(s, call, rx, tx, peer.num) /\ peer.todo = {}
      BY <1>1, <2>2 DEF Core
    <3>2. /\ ServerOK(b.session, b.calls, <<>>, tx, peer.num)
          /\ Along(s, b.session) /\ Onward(call, b.calls)
      BY <1>1, <2>2, <3>1, ServerChunk
    <3>3. ServerFrames(s, call, rx, tx \o s.out, peer.num)
      BY <3>1 DEF ServerOK
    <3> QED BY <2>2, <3>1, <3>2, <3>3 DEF Core, ServerFrames
  <2> QED BY <2>1, <2>2
<1>3. b.session \in Session /\ b.calls \in [Call -> CallState] /\ Open(b.session, b.calls)
  BY <1>2 DEF Core, ClientOK, ServerOK
<1>4. Own(b.session, b.calls) /\ Told(b.session, b.calls)
  BY <1>2, <1>3 DEF Open, Told, Along
<1>5. Good(b.session, b.calls, k, <<>>, tx, peer)
  BY <1>0, <1>1, <1>2, <1>3, <1>4, GoodAlong
<1>6. b.session.sock /\ (s.out # <<>> => b.session.out # <<>>)
  BY <1>2 DEF Along
<1>7. \A i, j \in DOMAIN frames :
        frames[i].op = "request" /\ frames[j].op = "request"
          /\ frames[i].call = frames[j].call /\ frames[i].call \in Call => i = j
  <2>1. CASE frames = rx
    BY <1>2, <2>1
  <2>2. CASE frames = <<>> \/ \E f \in Garbles : frames = <<f>>
    <3>1. \A i, j \in DOMAIN frames : i = j
      BY <2>2
    <3> QED BY <3>1
  <2> QED BY <2>1, <2>2 DEF Decodes
<1>8. Replies(frames, b.calls) \in Nat /\ Replies(frames, b.calls) <= Cardinality(Spent(b.calls))
  BY <1>7, RepliesBound
<1>9. Cardinality(Spent(b.calls)) \in Nat
  BY CallSets, NIsNat DEF Spent
<1>10. Asks(frames, b.calls) \in {0, 1 + Replies(frames, b.calls)}
  BY DEF Asks
<1> QED BY <1>5, <1>6, <1>8, <1>9, <1>10

\* The session t without the first n frames that it has to write.
Cut(t, n) == [t EXCEPT !.out = SubSeq(t.out, n + 1, Len(t.out))]

\* Bytes that the socket takes are in the kernel then, in order.
LEMMA Flushed ==
  ASSUME NEW t, NEW cs, NEW k, NEW q, NEW p, NEW pr, Good(t, cs, k, q, p, pr),
         NEW n \in Nat, n <= Len(t.out), n <= TxCap - Len(p),
         NEW u, u = Cut(t, n)
  PROVE  /\ Good(u, cs, k, q, p \o SubSeq(t.out, 1, n), pr)
         /\ u.sock = t.sock /\ u.out = SubSeq(t.out, n + 1, Len(t.out))
         /\ u.inflight = t.inflight /\ u.shutting = t.shutting
<1> DEFINE x == t.out
           a == SubSeq(x, 1, n)
           z == SubSeq(x, n + 1, Len(x))
<1>1. /\ t \in Session /\ cs \in [Call -> CallState] /\ p \in Seq(Msg) /\ x \in Seq(OutMsg)
      /\ x \in Seq(Msg)
      /\ Typed(t, cs, q, p, pr) /\ Books(t, cs, k, pr.num) /\ Fair(t, cs) /\ Told(t, cs)
      /\ t.sock => Core(t, cs, q, p, pr)
  BY GoodFacts DEF Good
<1>2. Len(x) \in Nat /\ Len(p) \in Nat /\ TxCap \in Nat /\ n \in 0..Len(x)
  BY <1>1, LenProperties, PySessionAssumption
<1>3. z \in Seq(OutMsg)
  <2> HIDE DEF x
  <2>1. <<>> \in Seq(OutMsg) /\ x \in Seq(OutMsg) /\ n \in 0..Len(x)
    BY <1>1, <1>2
  <2>2. FrontMoved(OutMsg, <<>>, x, n)
    BY ONLY <2>1, MoveFront
  <2> QED BY ONLY <2>2 DEF FrontMoved
<1>4. p \o a \in Seq(Msg) /\ Len(p \o a) = Len(p) + n /\ (p \o a) \o z = p \o x
  <2> HIDE DEF x
  <2>1. p \in Seq(Msg) /\ x \in Seq(Msg) /\ n \in 0..Len(x)
    BY <1>1, <1>2
  <2>2. FrontMoved(Msg, p, x, n)
    BY ONLY <2>1, MoveFront
  <2> QED BY ONLY <2>2 DEF FrontMoved
<1> HIDE DEF a, z
<1>5. /\ u \in Session /\ SameTable(t, u) /\ u.sock = t.sock /\ u.shutting = t.shutting
      /\ u.wronged = t.wronged /\ u.out = z /\ u.inflight = t.inflight /\ u.shared = t.shared
      /\ u.seq = t.seq
  <2>1. u = [t EXCEPT !.out = z]
    BY DEF z, Cut
  <2> QED BY <1>1, <1>3, <2>1, SessionDef DEF SameTable
<1>6. Len(p \o a) <= TxCap
  BY <1>2, <1>4
<1>7. Typed(u, cs, q, p \o a, pr)
  BY <1>1, <1>4, <1>5, <1>6 DEF Typed
<1>8. Books(u, cs, k, pr.num) /\ Fair(u, cs) /\ Told(u, cs) /\ (Open(t, cs) => Open(u, cs))
  BY <1>1, <1>5 DEF Books, Fair, Own, Open, Told, SameTable
<1>9. ASSUME t.sock PROVE Core(u, cs, q, p \o a, pr)
  <2>1. (p \o a) \o u.out = p \o t.out
    BY <1>4, <1>5
  <2>2. CASE IsClient
    <3>1. ClientOK(t, cs, q, p, pr.todo)
      BY <1>1, <1>9, <2>2 DEF Core
    <3>2. ClientTable(u, cs)
      BY <1>5, <3>1, ClientTableSame DEF ClientOK
    <3>3. ClientFrames(u, q, (p \o a) \o u.out, pr.todo)
      <4> DEFINE o == p \o t.out
      <4>1. ClientFrames(t, q, o, pr.todo)
        BY <3>1 DEF ClientOK
      <4> HIDE DEF o
      <4>2. ClientFrames(u, q, o, pr.todo)
        BY <1>5, <4>1 DEF ClientFrames, Owed, SameTable
      <4> QED BY <2>1, <4>2 DEF o
    <3> QED BY <1>5, <1>8, <2>2, <3>1, <3>2, <3>3 DEF Core, ClientOK
  <2>3. CASE ~IsClient
    <3>1. ServerOK(t, cs, q, p, pr.num) /\ pr.todo = {}
      BY <1>1, <1>9, <2>3 DEF Core
    <3>2. ServerTable(u, cs, pr.num)
      BY <1>5, <3>1, ServerTableSame DEF ServerOK
    <3>3. ServerFrames(u, cs, q, (p \o a) \o u.out, pr.num)
      <4> DEFINE o == p \o t.out
      <4>1. ServerFrames(t, cs, q, o, pr.num)
        BY <3>1 DEF ServerOK
      <4> HIDE DEF o
      <4>2. ServerFrames(u, cs, q, o, pr.num)
        BY <1>5, <4>1 DEF ServerFrames, SameTable
      <4> QED BY <2>1, <4>2 DEF o
    <3> QED BY <1>5, <1>8, <2>3, <3>1, <3>2, <3>3 DEF Core, ServerOK
  <2> QED BY <2>2, <2>3
<1> QED BY <1>5, <1>7, <1>8, <1>9 DEF Good, a, z


-----------------------------------------------------------------------------
(* The run loop                                                            *)

\* What a turn of the run loop leaves alone.
Aside == UNCHANGED <<scenario, pinger, eof, peer>>

\* The loop sleeps again, with the flags g and the write watcher w.
LEMMA SleepKeeps ==
  ASSUME IInv, s.sock, Aside, NEW t, NEW cs, NEW k, NEW g \in Flags, NEW w \in BOOLEAN,
         Good(t, cs, k, rx', tx', peer), t.sock,
         w <=> t.out # <<>>, g.read \/ g.write \/ g.blocked \/ g.switching => w,
         s' = t, call' = cs, watcher' = g, switches' = k, writing' = w,
         UNCHANGED <<loop, drained>>
  PROVE  IInv'
<1>1. Ended(drained, s, call) /\ Plain /\ drained \in BOOLEAN /\ loop \in {"wait", "done"}
  BY IInvFacts
<1>2. ~drained
  BY <1>1 DEF Ended
<1>3. Ended(drained', s', call')
  BY <1>2 DEF Ended
<1>4. DOMAIN <<>> = {}
  OBVIOUS
<1>5. Watched(s', watcher', writing', loop', switches')
  BY <1>4 DEF Watched
<1> QED BY <1>1, <1>3, <1>5, Keeps DEF Aside

\* The loop is left with a clean socket, because the session was drained or not.
LEMMA EndsKeeps ==
  ASSUME IInv, s.sock, Aside, NEW t, NEW cs, NEW k, NEW f \in Flags,
         Good(t, cs, k, rx', tx', peer), t.sock, Ends(t, cs, f, k),
         watcher' \in Flags, drained' \in BOOLEAN,
         drained' => drained \/ t.inflight = <<>>
  PROVE  IInv'
<1>1. Ended(drained, s, call) /\ Plain
  BY IInvFacts
<1>2. ~drained
  BY <1>1 DEF Ended
<1>3. /\ s' = CleanedUp(t) /\ call' = Terminated(t, cs)
      /\ switches' = k \/ switches' = k + 1
      /\ writing' = FALSE /\ loop' = "done"
  <2>1. k \in Nat
    BY GoodFacts
  <2> QED BY <2>1 DEF Ends
<1>4. /\ Good(s', call', k, rx', tx', peer) /\ Good(s', call', k + 1, rx', tx', peer)
      /\ ~s'.sock /\ (t.inflight = <<>> => Ended(TRUE, s', call'))
  BY <1>3, Cleans
<1>5. Good(s', call', switches', rx', tx', peer)
  BY <1>3, <1>4
<1>6. Ended(drained', s', call')
  BY <1>2, <1>4 DEF Ended
<1>7. Watched(s', watcher', writing', loop', switches')
  BY <1>4 DEF Watched
<1> QED BY <1>1, <1>3, <1>5, <1>6, <1>7, Keeps DEF Aside

\* A turn ends: the session drains, or the loop sleeps with only the blocked flag.
LEMMA FinishKeeps ==
  ASSUME IInv, s.sock, Aside, NEW t, NEW cs, NEW k, NEW f \in Flags, NEW writes \in BOOLEAN,
         Good(t, cs, k, rx', tx', peer), t.sock, Finish(t, cs, f, k, writes),
         writes \/ f.blocked => t.out # <<>>
  PROVE  IInv'
<1> DEFINE g == [Quiet EXCEPT !.blocked = f.blocked]
           w == writes \/ t.out # <<>>
<1>1. /\ g \in Flags /\ g.blocked = f.blocked /\ ~g.read /\ ~g.write /\ ~g.switching
      /\ w \in BOOLEAN /\ (w <=> t.out # <<>>)
  BY DEF Flags, Quiet
<1>2. watcher' = g
  BY DEF Finish
<1>3. CASE IsDrained(t)
  <2>1. Ends(t, cs, f, k) /\ drained' = TRUE /\ t.inflight = <<>>
    BY <1>3 DEF Finish, IsDrained
  <2> HIDE DEF g, w
  <2> QED BY <1>1, <1>2, <2>1, EndsKeeps
<1>4. CASE ~IsDrained(t)
  <2>1. s' = t /\ call' = cs /\ switches' = k /\ writing' = w /\ UNCHANGED <<loop, drained>>
    BY <1>4 DEF Finish
  <2> HIDE DEF g, w
  <2>2. g.read \/ g.write \/ g.blocked \/ g.switching => w
    BY <1>1
  <2> QED BY <1>1, <1>2, <2>1, <2>2, SleepKeeps
<1> QED BY <1>3, <1>4

\* The turn is cut short, with bytes to write: the loop sleeps with all its flags.
LEMMA AgainKeeps ==
  ASSUME IInv, s.sock, Aside, NEW t, NEW cs, NEW k, NEW f \in Flags,
         Good(t, cs, k, rx', tx, peer), t.sock, Again(t, cs, f, k), t.out # <<>>
  PROVE  IInv'
<1>1. writing \in BOOLEAN
  BY IInvFacts
<1>2. /\ s' = t /\ call' = cs /\ watcher' = f /\ switches' = k /\ writing' = TRUE
      /\ tx' = tx /\ UNCHANGED <<loop, drained>>
  BY <1>1 DEF Again
<1> QED BY <1>2, SleepKeeps

\* The writing half of a turn, after the reading half has left t and cs.
LEMMA WriteKeeps ==
  ASSUME IInv, s.sock, Aside, NEW t, NEW cs, NEW k, NEW f \in Flags,
         Good(t, cs, k, rx', tx, peer), t.sock, Write(t, cs, f, k),
         writing \/ f.write \/ f.blocked => t.out # <<>>
  PROVE  IInv'
<1> DEFINE out == t.out
           should == f.write \/ (~f.blocked /\ out # <<>>)
           n == Min({Len(out), TxCap - Len(tx)})
           rest == SubSeq(out, n + 1, Len(out))
           front == SubSeq(out, 1, n)
<1>1. /\ writing \in BOOLEAN /\ drained \in BOOLEAN
      /\ out \in Seq(Msg) /\ tx \in Seq(Msg) /\ Len(tx) <= TxCap
  BY IInvFacts, GoodFacts DEF Good, Typed
<1>2. Len(out) \in Nat /\ TxCap - Len(tx) \in Nat
  BY <1>1, LenProperties, PySessionAssumption
<1>3. n \in Nat /\ n <= Len(out) /\ n <= TxCap - Len(tx)
  <2> HIDE DEF out
  <2> QED BY <1>2, MinOfTwo
<1>4. should => out # <<>>
  OBVIOUS
<1>5. \/ ~should /\ Finish(t, cs, f, k, writing) /\ UNCHANGED tx
      \/ should /\ n = 0 /\ Again(t, cs, [f EXCEPT !.blocked = TRUE], k)
      \/ /\ should /\ n > 0
         /\ tx' = tx \o front
         /\ Finish([t EXCEPT !.out = rest], cs, [f EXCEPT !.blocked = (rest # <<>>)], k,
                   StillWriting(rest))
      \/ /\ should /\ eof
         /\ Ends(Close(t, TRUE), cs, f, k)
         /\ watcher' = f
         /\ UNCHANGED <<tx, drained>>
  BY DEF Write
<1>6. CASE ~should /\ Finish(t, cs, f, k, writing) /\ UNCHANGED tx
  <2>1. Finish(t, cs, f, k, writing) /\ tx' = tx
    BY <1>6
  <2>2. writing \/ f.blocked => t.out # <<>>
    OBVIOUS
  <2> QED BY <1>1, <2>1, <2>2, FinishKeeps
<1>7. CASE should /\ n = 0 /\ Again(t, cs, [f EXCEPT !.blocked = TRUE], k)
  <2> DEFINE g == [f EXCEPT !.blocked = TRUE]
  <2>1. g \in Flags
    BY DEF Flags
  <2>2. t.out # <<>> /\ Again(t, cs, g, k)
    BY <1>4, <1>7
  <2> HIDE DEF g
  <2> QED BY <2>1, <2>2, AgainKeeps
<1>8. CASE /\ should /\ n > 0
           /\ tx' = tx \o front
           /\ Finish([t EXCEPT !.out = rest], cs, [f EXCEPT !.blocked = (rest # <<>>)], k,
                     StillWriting(rest))
  <2> DEFINE u == [t EXCEPT !.out = rest]
             g == [f EXCEPT !.blocked = (rest # <<>>)]
             w == StillWriting(rest)
  <2>1. g \in Flags /\ g.blocked = (rest # <<>>)
    BY DEF Flags
  <2>2. w \in BOOLEAN /\ (w => rest # <<>>)
    BY <1>1 DEF StillWriting
  <2>3. Good(u, cs, k, rx', tx', peer) /\ u.sock = t.sock /\ u.out = rest
    <3>0. Good(t, cs, k, rx', tx, peer)
      OBVIOUS
    <3>1. u = Cut(t, n)
      BY DEF Cut
    <3>2. n \in Nat /\ n <= Len(t.out) /\ n <= TxCap - Len(tx)
      BY <1>3
    <3>3. tx' = tx \o SubSeq(t.out, 1, n) /\ rest = SubSeq(t.out, n + 1, Len(t.out))
      BY <1>8
    <3> HIDE DEF u, n, rest
    <3>4. \A q : Good(t, cs, k, q, tx, peer) =>
            /\ Good(u, cs, k, q, tx \o SubSeq(t.out, 1, n), peer)
            /\ u.sock = t.sock /\ u.out = SubSeq(t.out, n + 1, Len(t.out))
      BY ONLY <3>1, <3>2, Flushed
    <3> QED BY <3>0, <3>3, <3>4
  <2>4. Finish(u, cs, g, k, w)
    BY <1>8
  <2> HIDE DEF u, g, w, rest
  <2>5. w \/ g.blocked => u.out # <<>>
    BY <2>1, <2>2, <2>3
  <2>6. u.sock
    BY <2>3
  <2> QED BY <2>1, <2>2, <2>3, <2>4, <2>5, <2>6, FinishKeeps
<1>9. CASE /\ should /\ eof /\ Ends(Close(t, TRUE), cs, f, k)
           /\ watcher' = f /\ UNCHANGED <<tx, drained>>
  <2> DEFINE u == Close(t, TRUE)
  <2>1. Ends(u, cs, f, k) /\ watcher' \in Flags /\ tx' = tx /\ drained' = drained
    BY <1>9
  <2> HIDE DEF u
  <2>2. Good(u, cs, k, rx', tx', peer) /\ u.sock
    BY <2>1, Closes DEF u
  <2> QED BY <1>1, <2>1, <2>2, EndsKeeps
<1> QED BY <1>5, <1>6, <1>7, <1>8, <1>9

\* The switches that a turn asks for: none, or one, and one for each response.
LEMMA TurnSwitches ==
  ASSUME NEW k \in Nat, NEW f \in Flags, k = 0 \/ f.switching,
         NEW t, NEW cs, NEW q, NEW p, NEW pr, Good(t, cs, k, q, p, pr), t.sock,
         NEW r \in Nat, r <= Cardinality(Spent(cs)) + 1
  PROVE  Good(t, cs, k + r * Resumed(t, f), q, p, pr)
<1> DEFINE j == k + r * Resumed(t, f)
<1>1. j = k \/ (k = 0 /\ j = r)
  BY DEF Resumed, Resumes
<1> HIDE DEF j
<1>2. CASE j = k
  BY <1>2 DEF j
<1>3. CASE k = 0 /\ j = r
  <2>1. Cardinality(Spent(cs)) \in Nat
    BY CallSets, NIsNat DEF Spent
  <2>2. j \in Nat /\ j <= Cardinality(Spent(cs)) + IF t.sock THEN 1 ELSE 2
    BY <1>3, <2>1
  <2>3. Books(t, cs, k, pr.num)
    BY DEF Good
  <2>4. Books(t, cs, j, pr.num)
    BY <2>2, <2>3 DEF Books
  <2> QED BY <2>4 DEF Good, j
<1> QED BY <1>1, <1>2, <1>3

\* A turn of the run loop that k queued switches may follow.
LEMMA IterateKeeps ==
  ASSUME IInv, Aside, NEW k \in Nat, NEW f \in Flags, Iterate(f, k),
         Good(s, call, k, rx, tx, peer), k = 0 \/ f.switching,
         s.sock => \/ s.out # <<>>
                   \/ ~(writing \/ f.write \/ f.blocked \/ (f.read /\ rx = <<>> /\ ~eof))
  PROVE  IInv'
<1>1. /\ Plain /\ Ended(drained, s, call) /\ drained \in BOOLEAN /\ writing \in BOOLEAN
      /\ rx \in Seq(Msg)
  BY IInvFacts
<1>2. CASE ~s.sock
  <2>1. /\ loop' = "done" /\ watcher' = f /\ switches' = k /\ writing' = FALSE
        /\ UNCHANGED <<s, call, rx, tx, drained>>
    BY <1>2 DEF Iterate
  <2>2. Good(s', call', switches', rx', tx', peer')
    BY <2>1 DEF Aside
  <2>3. Ended(drained', s', call')
    BY <1>1, <2>1 DEF Ended
  <2>4. Watched(s', watcher', writing', loop', switches')
    BY <2>1 DEF Watched
  <2> QED BY <1>1, <2>1, <2>2, <2>3, <2>4, Keeps DEF Aside
<1>3. CASE s.sock /\ ~f.read /\ Write(s, call, f, k) /\ UNCHANGED rx
  <2>1. s.sock /\ Write(s, call, f, k) /\ Good(s, call, k, rx', tx, peer)
    BY <1>3
  <2>2. writing \/ f.write \/ f.blocked => s.out # <<>>
    BY <1>3
  <2> QED BY <2>1, <2>2, WriteKeeps
<1>4. ASSUME s.sock, NEW frames \in Decodes(rx), NEW b, b = Handled(frames), rx' = <<>>,
             IF b.raised THEN Dies(b, f, k)
             ELSE Write(b.session, b.calls, f,
                        k + Asks(frames, b.calls) * Resumed(b.session, f))
      PROVE  IInv'
  <2> DEFINE t == b.session
             cs == b.calls
             r == Asks(frames, cs)
  <2>1. /\ Good(t, cs, k, rx', tx, peer) /\ t.sock /\ (s.out # <<>> => t.out # <<>>)
        /\ r \in Nat /\ r <= Cardinality(Spent(cs)) + 1
    BY <1>4, Handles
  <2>2. CASE b.raised
    <3>1. /\ s' = t /\ call' = cs /\ watcher' = f /\ switches' = k /\ writing' = FALSE
          /\ loop' = "done" /\ tx' = tx /\ drained' = drained
      BY <1>4, <2>2 DEF Dies
    <3> HIDE DEF t, cs, r
    <3>2. ~drained
      BY <1>1, <1>4 DEF Ended
    <3>3. Ended(drained', s', call') /\ Watched(s', watcher', writing', loop', switches')
      BY <3>1, <3>2 DEF Ended, Watched
    <3>4. Good(s', call', switches', rx', tx', peer')
      BY <2>1, <3>1 DEF Aside
    <3> QED BY <1>1, <3>1, <3>3, <3>4, Keeps DEF Aside
  <2>3. CASE ~b.raised
    <3> DEFINE j == k + r * Resumed(t, f)
    <3>1. Write(t, cs, f, j)
      BY <1>4, <2>3
    <3> HIDE DEF t, cs, r
    <3>2. Good(t, cs, j, rx', tx, peer)
      BY <2>1, TurnSwitches
    <3> HIDE DEF j
    <3>3. writing \/ f.write \/ f.blocked => t.out # <<>>
      BY <1>4, <2>1
    <3> QED BY <1>4, <2>1, <3>1, <3>2, <3>3, WriteKeeps
  <2> QED BY <2>2, <2>3
<1>5. CASE /\ s.sock /\ Ends(Close(s, TRUE), call, f, k)
           /\ watcher' = f /\ UNCHANGED <<rx, tx, drained>>
  <2> DEFINE u == Close(s, TRUE)
  <2>1. Ends(u, call, f, k) /\ watcher' \in Flags /\ rx' = rx /\ tx' = tx /\ drained' = drained
    BY <1>5
  <2> HIDE DEF u
  <2>2. Good(u, call, k, rx', tx', peer) /\ u.sock
    BY <1>5, <2>1, Closes DEF u
  <2> QED BY <1>1, <1>5, <2>1, <2>2, EndsKeeps
<1>6. CASE s.sock /\ f.read /\ rx = <<>> /\ ~eof /\ Again(s, call, f, k) /\ UNCHANGED rx
  <2>1. s.sock /\ Again(s, call, f, k) /\ Good(s, call, k, rx', tx, peer) /\ s.out # <<>>
    BY <1>6
  <2> QED BY <2>1, AgainKeeps
<1>7. CASE s.sock
  <2>1. \/ ~f.read /\ Write(s, call, f, k) /\ UNCHANGED rx
        \/ /\ \E frames \in Decodes(rx) : \E b \in {Handled(frames)} :
                IF b.raised THEN Dies(b, f, k)
                ELSE Write(b.session, b.calls, f,
                           k + Asks(frames, b.calls) * Resumed(b.session, f))
           /\ rx' = <<>>
        \/ /\ Ends(Close(s, TRUE), call, f, k)
           /\ watcher' = f /\ UNCHANGED <<rx, tx, drained>>
        \/ f.read /\ rx = <<>> /\ ~eof /\ Again(s, call, f, k) /\ UNCHANGED rx
    BY <1>7 DEF Iterate
  <2> QED BY <1>3, <1>4, <1>5, <1>6, <1>7, <2>1
<1> QED BY <1>1, <1>2, <1>7

LEMMA ReadReadyKeeps == ASSUME IInv, ReadReady PROVE IInv'
<1> DEFINE f == [watcher EXCEPT !.read = TRUE]
<1>1. /\ Good(s, call, switches, rx, tx, peer) /\ Watched(s, watcher, writing, loop, switches)
      /\ watcher \in Flags /\ writing \in BOOLEAN /\ switches \in Nat
  BY IInvFacts
<1>2. /\ loop = "wait" /\ s.sock /\ switches = 0 /\ (rx # <<>> \/ eof)
      /\ Iterate(f, switches) /\ Aside
  BY DEF ReadReady, Aside
<1>3. f \in Flags /\ f.write = watcher.write /\ f.blocked = watcher.blocked
  BY <1>1 DEF Flags
<1> HIDE DEF f
<1>4. s.out # <<>> \/ ~(writing \/ f.write \/ f.blocked \/ (f.read /\ rx = <<>> /\ ~eof))
  BY <1>1, <1>2, <1>3 DEF Watched
<1> QED BY <1>1, <1>2, <1>3, <1>4, IterateKeeps

LEMMA WriteReadyKeeps == ASSUME IInv, WriteReady PROVE IInv'
<1> DEFINE f == [watcher EXCEPT !.write = TRUE]
<1>1. /\ Good(s, call, switches, rx, tx, peer) /\ Watched(s, watcher, writing, loop, switches)
      /\ watcher \in Flags /\ switches \in Nat
  BY IInvFacts
<1>2. /\ loop = "wait" /\ s.sock /\ switches = 0 /\ writing
      /\ Iterate(f, switches) /\ Aside
  BY DEF WriteReady, Aside
<1>3. f \in Flags
  BY <1>1 DEF Flags
<1> HIDE DEF f
<1>4. s.out # <<>>
  BY <1>1, <1>2 DEF Watched
<1> QED BY <1>1, <1>2, <1>3, <1>4, IterateKeeps

LEMMA SwitchKeeps == ASSUME IInv, Switch PROVE IInv'
<1> DEFINE f == [watcher EXCEPT !.switching = TRUE]
           k == switches - 1
<1>1. /\ Good(s, call, switches, rx, tx, peer) /\ Watched(s, watcher, writing, loop, switches)
      /\ watcher \in Flags /\ switches \in Nat /\ Plain /\ Ended(drained, s, call)
      /\ writing \in BOOLEAN /\ drained \in BOOLEAN /\ loop \in {"wait", "done"}
  BY IInvFacts
<1>2. switches > 0 /\ Aside
  BY DEF Switch, Aside
<1>3. /\ f \in Flags /\ f.switching = TRUE /\ f.read = watcher.read /\ f.write = watcher.write
      /\ f.blocked = watcher.blocked
  BY <1>1 DEF Flags
<1>4. k \in Nat /\ k <= switches
  BY <1>1, <1>2
<1>5. Good(s, call, k, rx, tx, peer)
  <2> HIDE DEF k
  <2> QED BY <1>1, <1>4, FewerSwitches
<1>6. CASE loop = "done" \/ watcher.switching
  <2>1. switches' = k /\ watcher' = f /\ UNCHANGED <<s, writing, loop, call, rx, tx, drained>>
    BY <1>6 DEF Switch
  <2> HIDE DEF k, f
  <2>2. Watched(s, f, writing, loop, k)
    BY <1>1, <1>3, <1>6 DEF Watched
  <2>3. /\ Good(s', call', switches', rx', tx', peer') /\ Ended(drained', s', call')
        /\ Watched(s', watcher', writing', loop', switches')
    BY <1>1, <1>2, <1>5, <2>1, <2>2 DEF Aside
  <2> QED BY <1>1, <1>2, <1>3, <2>1, <2>3, Keeps DEF Aside
<1>7. CASE ~(loop = "done" \/ watcher.switching)
  <2>1. Iterate(f, k)
    BY <1>7 DEF Switch
  <2>2. loop = "wait"
    BY <1>1, <1>7
  <2> HIDE DEF k, f
  <2>3. s.sock => s.out # <<>> \/ ~(writing \/ f.write \/ f.blocked \/ f.read)
    BY <1>1, <1>3, <2>2 DEF Watched
  <2> QED BY <1>2, <1>3, <1>4, <1>5, <2>1, <2>3, IterateKeeps
<1> QED BY <1>6, <1>7

-----------------------------------------------------------------------------
(* The first state, every step, and what follows                           *)

\* The session before its first ping.
Fresh(out) ==
  [sock |-> TRUE, shutting |-> FALSE, ready |-> FALSE, timer |-> "none",
   seq |-> 0, ping |-> Keepalive, ponged |-> TRUE, inflight |-> <<>>,
   heard |-> FALSE, wronged |-> FALSE, shared |-> {}, misread |-> FALSE, late |-> {},
   out |-> out]

\* The books are empty.
LEMMA FreshBooks ==
  ASSUME NEW t, t.sock = TRUE, t.seq = 0,
         NEW cs, cs = [c \in Call |-> At("idle")], NEW num, num = [c \in Call |-> 0]
  PROVE  Books(t, cs, 1, num) /\ cs \in [Call -> CallState] /\ num \in [Call -> 0..N]
<1>1. At("idle") \in CallState /\ At("idle")[1] = "idle" /\ At("idle") # At("await_ready")
  BY AtFacts
<1>2. cs \in [Call -> CallState] /\ num \in [Call -> 0..N] /\ \A c \in Call : num[c] = 0
  BY <1>1, NIsNat
<1>3. /\ Cardinality(Numbered(cs)) \in Nat /\ Cardinality(Spent(cs)) \in Nat
      /\ Cardinality(Sent(num)) \in Nat
  BY CallSets, NIsNat DEF Numbered, Spent, Sent
<1>4. NumOK(cs, num)
  BY <1>2, <1>3 DEF NumOK
<1>5. 1 \in Nat /\ 1 <= Cardinality(Spent(cs)) + IF t.sock THEN 1 ELSE 2
  BY <1>3
<1>6. \A c \in Call : cs[c] # At("await_ready")
  BY <1>1
<1> QED BY <1>2, <1>3, <1>4, <1>5, <1>6 DEF Books

LEMMA InitInv == ASSUME Init PROVE IInv
<1> DEFINE out == IF IsClient THEN <<Frame("hello", 0, NoCall)>> ELSE <<>>
           first == Frame(IF "unknown_encoder" \in scenario.peer
                          THEN "unknown_encoder" ELSE "hello", 0, NoCall)
           left == IF IsClient THEN scenario.peer \ {"oversized"} ELSE scenario.peer
           t == Fresh(out)
<1>1. /\ scenario \in Scenarios /\ s = SendPing(Fresh(out)) /\ watcher = Quiet
      /\ writing = TRUE /\ loop = "wait" /\ switches = 1 /\ pinger = "wait"
      /\ call = [c \in Call |-> At("idle")] /\ eof = FALSE /\ tx = <<>>
      /\ rx = (IF IsClient THEN <<>> ELSE <<first>>)
      /\ peer = [todo |-> {}, num |-> [c \in Call |-> 0], muted |-> FALSE, left |-> left]
      /\ drained = FALSE
  BY Zenon DEF Init, Fresh
<1>2. s = SendPing(t)
  BY <1>1
<1>3. /\ Frame("hello", 0, NoCall) \in OutMsg /\ Frame("hello", 0, NoCall).op = "hello"
      /\ first \in Msg /\ first.op \in {"hello", "unknown_encoder"}
  BY FrameFacts, NIsNat
<1>4. out \in Seq(OutMsg) /\ rx \in Seq(Msg)
  <2> HIDE DEF first
  <2> QED BY <1>1, <1>3
<1>5. /\ out \in Seq(Msg) /\ <<>> \o out = out
      /\ \A i \in DOMAIN out : IsClient /\ out[i].op = "hello"
      /\ \A i \in DOMAIN rx : ~IsClient /\ i = 1 /\ rx[i].op \in {"hello", "unknown_encoder"}
  <2>1. \A f : DOMAIN <<f>> = {1} /\ <<f>>[1] = f
    OBVIOUS
  <2>2. DOMAIN <<>> = {}
    OBVIOUS
  <2>3. out \in Seq(Msg)
    BY <1>4, FrameFacts
  <2>4. <<>> \o out = out
    <3> HIDE DEF out
    <3> QED BY <2>3
  <2>5. \A i \in DOMAIN out : IsClient /\ out[i].op = "hello"
    BY <1>3, <2>1, <2>2
  <2>6. \A i \in DOMAIN rx : ~IsClient /\ i = 1 /\ rx[i].op \in {"hello", "unknown_encoder"}
    <3> HIDE DEF first
    <3> QED BY <1>1, <1>3, <2>1, <2>2
  <2> QED BY <2>3, <2>4, <2>5, <2>6
<1> HIDE DEF out, first
<1>6. /\ t \in Session /\ t.sock = TRUE /\ t.seq = 0 /\ t.ping = 0 /\ t.ponged = TRUE
      /\ t.inflight = <<>> /\ t.heard = FALSE /\ t.wronged = FALSE /\ t.shared = {}
      /\ t.out = out /\ t.misread = FALSE /\ t.late = {} /\ t.shutting = FALSE
  BY <1>4, EmptyTable, NIsNat, SessionDef DEF Fresh, Keepalive
<1> HIDE DEF t
<1>7. /\ peer.todo = {} /\ peer.num = [c \in Call |-> 0] /\ peer.muted = FALSE
      /\ peer.left = left
  BY <1>1
<1>8. /\ Books(t, call, 1, peer.num) /\ call \in [Call -> CallState]
      /\ peer.num \in [Call -> 0..N]
  BY <1>1, <1>6, <1>7, FreshBooks
<1>9. /\ \A c \in Call : call[c] = At("idle") /\ At("idle")[1] = "idle"
      /\ \A place : At("idle") = At(place) => place = "idle"
  BY <1>1, AtFacts
<1>10. Fair(t, call) /\ Open(t, call) /\ Told(t, call)
  BY <1>6, <1>9 DEF Fair, Open, Own, Told
<1>11. Typed(t, call, rx, tx, peer)
  <2>1. left \subseteq
          {"ping", "goaway", "close", "mute", "error", "unknown_encoder", "oversized"}
    BY <1>1, PySessionAssumption
  <2>2. peer \in Peers
    BY <1>1, <1>8, <2>1 DEF Peers
  <2>3. tx \in Seq(Msg) /\ Len(tx) <= TxCap
    BY <1>1, PySessionAssumption
  <2> QED BY <1>4, <1>6, <1>8, <2>2, <2>3 DEF Typed
<1>12. Core(t, call, rx, tx, peer)
  <2>0. DOMAIN t.inflight = {} /\ tx \o t.out = out
    BY <1>1, <1>5, <1>6, EmptyTable
  <2>1. ASSUME IsClient PROVE ClientOK(t, call, rx, tx, peer.todo)
    <3>1. ClientTable(t, call)
      BY <1>6, <1>9, <2>0 DEF ClientTable
    <3>2. ClientFrames(t, rx, out, peer.todo)
      BY <1>5, <1>7, <2>1 DEF ClientFrames, ClientSays
    <3> QED BY <1>4, <1>6, <1>8, <1>10, <2>0, <3>1, <3>2 DEF ClientOK
  <2>2. ASSUME ~IsClient PROVE ServerOK(t, call, rx, tx, peer.num)
    <3>1. ServerTable(t, call, peer.num)
      BY <1>6, <1>9, <2>0 DEF ServerTable
    <3>2. ServerFrames(t, call, rx, out, peer.num)
      BY <1>5, <2>2 DEF ServerFrames, ClientSays
    <3> QED BY <1>4, <1>6, <1>8, <1>10, <2>0, <3>1, <3>2 DEF ServerOK
  <2> QED BY <1>7, <2>1, <2>2 DEF Core
<1>13. Good(t, call, switches, rx, tx, peer)
  BY <1>1, <1>8, <1>10, <1>11, <1>12 DEF Good
<1>14. Good(s, call, switches, rx, tx, peer) /\ s.out # <<>>
  BY <1>2, <1>6, <1>13, PingSent
<1>15. Plain /\ Ended(drained, s, call)
  BY <1>1 DEF Plain, Flags, Quiet, Ended
<1>16. Watched(s, watcher, writing, loop, switches)
  BY <1>1, <1>14 DEF Watched
<1> QED BY <1>14, <1>15, <1>16 DEF IInv

LEMMA StutterKeeps == ASSUME IInv, UNCHANGED vars PROVE IInv'
<1>1. /\ scenario' = scenario /\ s' = s /\ watcher' = watcher /\ writing' = writing
      /\ loop' = loop /\ switches' = switches /\ pinger' = pinger /\ call' = call
      /\ rx' = rx /\ eof' = eof /\ tx' = tx /\ peer' = peer /\ drained' = drained
  BY DEF vars
<1>2. /\ Plain /\ Good(s, call, switches, rx, tx, peer) /\ Ended(drained, s, call)
      /\ Watched(s, watcher, writing, loop, switches)
      /\ watcher \in Flags /\ writing \in BOOLEAN /\ drained \in BOOLEAN
      /\ loop \in {"wait", "done"}
  BY IInvFacts
<1>3. /\ Good(s', call', switches', rx', tx', peer') /\ Ended(drained', s', call')
      /\ Watched(s', watcher', writing', loop', switches')
  BY <1>1, <1>2
<1> QED BY <1>1, <1>2, <1>3, Keeps

LEMMA NextKeeps == IInv /\ [Next]_vars => IInv'
<1> SUFFICES ASSUME IInv, [Next]_vars PROVE IInv'
  OBVIOUS
<1>1. ASSUME NEW c \in Call, CallStart(c) PROVE IInv'
  BY <1>1, CallStartKeeps
<1>2. ASSUME NEW c \in Call, CallReady(c) PROVE IInv'
  BY <1>2, CallReadyKeeps
<1>3. ASSUME NEW c \in Call, HandlerResponds(c) PROVE IInv'
  BY <1>3, HandlerRespondsKeeps
<1>4. CASE UserCloses
  BY <1>4, UserClosesKeeps
<1>5. CASE UserTerminates
  BY <1>5, UserTerminatesKeeps
<1>6. CASE CloseTimeout
  BY <1>6, CloseTimeoutKeeps
<1>7. CASE PingTick
  BY <1>7, PingTickKeeps
<1>8. CASE ReadReady
  BY <1>8, ReadReadyKeeps
<1>9. CASE WriteReady
  BY <1>9, WriteReadyKeeps
<1>10. CASE Switch
  BY <1>10, SwitchKeeps
<1>11. CASE PeerReads
  BY <1>11, PeerReadsKeeps
<1>12. CASE PeerAnswers
  BY <1>12, PeerAnswersKeeps
<1>13. CASE PeerSpeaks
  BY <1>13, PeerSpeaksKeeps
<1>14. CASE PeerMutes
  BY <1>14, PeerMutesKeeps
<1>15. CASE PeerCloses
  BY <1>15, PeerClosesKeeps
<1>16. ASSUME NEW c \in Call, PeerRequests(c) PROVE IInv'
  BY <1>16, PeerRequestsKeeps
<1>18. CASE PeerGoesOn
  BY <1>18, PeerGoesOnKeeps
<1>17. CASE UNCHANGED vars
  BY <1>17, StutterKeeps
<1> QED BY <1>1, <1>2, <1>3, <1>4, <1>5, <1>6, <1>7, <1>8, <1>9, <1>10, <1>11, <1>12,
           <1>13, <1>14, <1>15, <1>16, <1>17, <1>18 DEF Next, Hub, Timers

\* The inductive invariant of a session and its watcher: the books, the table of
\* requests in flight, the frames on their way, the watcher's flags.
THEOREM IInvHolds == Spec => []IInv
<1>1. Init => IInv
  BY InitInv
<1> QED BY <1>1, NextKeeps, PTL DEF Spec

\* One entry and no other: what "there" says in InflightIsDue.
LEMMA OneEntry ==
  ASSUME NEW i \in Tables, NEW c,
         \A m, n \in DOMAIN i : i[m] = c /\ i[n] = c => m = n
  PROVE  Cardinality({n \in DOMAIN i : i[n] = c}) = 1 <=> \E n \in DOMAIN i : i[n] = c
<1> DEFINE S == {n \in DOMAIN i : i[n] = c}
<1>1. ASSUME NEW n \in DOMAIN i, i[n] = c PROVE Cardinality(S) = 1
  <2>1. S = {n}
    BY <1>1
  <2> QED BY <2>1, FS_Singleton
<1>2. ASSUME \A n \in DOMAIN i : i[n] # c PROVE Cardinality(S) # 1
  <2>1. S = {}
    BY <1>2
  <2> QED BY <2>1, FS_EmptySet
<1> QED BY <1>1, <1>2

LEMMA IInvSession == IInv => SessionInv
<1> SUFFICES ASSUME IInv PROVE SessionInv
  OBVIOUS
<1>1. /\ Plain /\ Good(s, call, switches, rx, tx, peer) /\ s \in Session
      /\ call \in [Call -> CallState] /\ switches \in Nat
  BY IInvFacts
<1>2. TypeOK
  <2>1. switches \in 0..(Cardinality(Call) + 4)
    <3>1. Cardinality(Spent(call)) \in 0..N /\ N \in Nat
      BY CallSets, NIsNat DEF Spent
    <3>2. switches <= Cardinality(Spent(call)) + 2
      BY <1>1, <3>1 DEF Good, Books
    <3> QED BY <1>1, <3>1, <3>2 DEF N
  <2>2. Len(tx) <= TxCap
    BY <1>1 DEF Good, Typed
  <2> QED BY <1>1, <2>1, <2>2 DEF TypeOK, Plain, Flags
<1>3. InflightIsDue
  <2>4. ASSUME ~s.sock, IsClient, scenario.python = 2, NEW c \in Call, call[c] = At("waiting")
        PROVE  c \in s.late
    BY <1>1, <2>4 DEF Good, Told
  <2> SUFFICES ASSUME s.sock, NEW c \in Call
               PROVE  LET there == Cardinality({n \in DOMAIN s.inflight : s.inflight[n] = c}) = 1
                      IN  IF IsClient THEN there <=> call[c] = At("waiting")
                          ELSE /\ call[c] = At("deferred") => there \/ c \in s.shared
                               /\ ~s.shutting /\ there => call[c] = At("deferred")
    BY <2>4, Zenon DEF InflightIsDue
  <2> DEFINE i == s.inflight
             S == {n \in DOMAIN i : i[n] = c}
  <2>1. i \in Tables /\ Core(s, call, rx, tx, peer) /\ c # NoCall /\ c # Garbled
    BY <1>1, GoodFacts, PySessionAssumption DEF Good
  <2>2. CASE IsClient
    <3>1. ClientTable(s, call)
      BY <2>1, <2>2 DEF Core, ClientOK
    <3>2. \A m, n \in DOMAIN i : i[m] = c /\ i[n] = c => m = n
      BY <3>1 DEF ClientTable
    <3>3. (\E n \in DOMAIN i : i[n] = c) <=> call[c] = At("waiting")
      BY <2>1, <3>1 DEF ClientTable
    <3> HIDE DEF i
    <3>4. Cardinality(S) = 1 <=> call[c] = At("waiting")
      BY <2>1, <3>2, <3>3, OneEntry
    <3> QED BY <2>2, <3>4 DEF i
  <2>3. CASE ~IsClient
    <3>1. ServerTable(s, call, peer.num)
      BY <2>1, <2>3 DEF Core, ServerOK
    <3>2. \A m, n \in DOMAIN i : i[m] = c /\ i[n] = c => m = n
      BY <2>1, <3>1 DEF ServerTable
    <3>3. call[c] = At("deferred") => c \in s.shared \/ \E n \in DOMAIN i : i[n] = c
      BY <3>1 DEF ServerTable, Holds
    <3>4. ~s.shutting /\ (\E n \in DOMAIN i : i[n] = c) => call[c] = At("deferred")
      BY <2>1, <3>1 DEF ServerTable
    <3>5. (\E n \in DOMAIN i : i[n] = c) <=> Cardinality(S) = 1
      <4> HIDE DEF i
      <4> QED BY <2>1, <3>2, OneEntry
    <3> QED BY <2>3, <3>3, <3>4, <3>5
  <2> QED BY <2>2, <2>3
<1> QED BY <1>2, <1>3 DEF SessionInv

\* The state is well typed, with at most four switches more than there are calls,
\* and _inflight_requests is the callers': on an open session the entry of a
\* request is there, once, exactly as long as an answer is due, unless a server's
\* request met a ping with its number, or a misread frame; once the socket is gone,
\* who waits came in after that (socket_session.pyx:180, 222, 311).
THEOREM SessionHolds == Spec => []SessionInv
BY IInvHolds, IInvSession, PTL

\* A request gets its own response or error (socket_session.pyx:320), as the number
\* of a frame on its way is that of the call which holds the entry; after a decoder
\* error it may also get a frame that nobody sent, but still not another's answer.
THEOREM AnswerIsOwnHolds == Spec => []AnswerIsOwn
<1>1. IInv => AnswerIsOwn
  <2> SUFFICES ASSUME IInv PROVE AnswerIsOwn
    OBVIOUS
  <2>1. Fair(s, call)
    BY IInvFacts DEF Good
  <2> QED BY <2>1 DEF Fair, Own, AnswerIsOwn
<1> QED BY <1>1, IInvHolds, PTL

\* While the run loop sleeps, the write watcher is started only if there are
\* bytes, and bytes other than a goaway have it started or a switch queued
\* (socket_session.pyx:113, 449).
THEOREM WatcherHolds == Spec => []WatcherInv
<1>1. IInv => WatcherInv
  <2> SUFFICES ASSUME IInv PROVE WatcherInv
    OBVIOUS
  <2>1. Watched(s, watcher, writing, loop, switches)
    BY IInvFacts
  <2>2. WatcherMeansBytes
    BY <2>1 DEF Watched, WatcherMeansBytes
  <2>3. BytesAreNoticed
    BY <2>1 DEF Watched, BytesAreNoticed
  <2> QED BY <2>2, <2>3 DEF WatcherInv
<1> QED BY <1>1, IInvHolds, PTL

\* A session that ended because it was drained leaves none of its callers waiting,
\* tells none that it terminated and owes no answer, but to those who came in after
\* the end, and to a request that met a ping or a misread frame
\* (socket_session.pyx:475).
THEOREM DrainedHolds == Spec => []DrainedMeansAnswered
<1>1. IInv => DrainedMeansAnswered
  <2> SUFFICES ASSUME IInv PROVE DrainedMeansAnswered
    OBVIOUS
  <2>1. Ended(drained, s, call)
    BY IInvFacts
  <2>2. ASSUME drained, NEW c \in Call
        PROVE  /\ call[c] \in {At("terminated"), At("waiting")} => c \in s.late
               /\ call[c] = At("deferred") => c \in s.shared
    <3>1. Ended(TRUE, s, call)
      BY <2>1, <2>2, drained \in BOOLEAN, IInvFacts
    <3> QED BY <3>1 DEF Ended
  <2> QED BY <2>2 DEF DrainedMeansAnswered
<1> QED BY <1>1, IInvHolds, PTL

\* The ping loop closes a session whose pong was handled only if the ping met a
\* request with its number (socket_session.pyx:336, 392).
THEOREM TimeoutHolds == Spec => []TimeoutMeansSilence
<1>1. IInv => TimeoutMeansSilence
  <2> SUFFICES ASSUME IInv PROVE TimeoutMeansSilence
    OBVIOUS
  <2>1. Fair(s, call)
    BY IInvFacts DEF Good
  <2> QED BY <2>1 DEF Fair, TimeoutMeansSilence
<1> QED BY <1>1, IInvHolds, PTL
===============================================================================
