------------------------------ MODULE LoquiRpc ------------------------------
(***************************************************************************)
(* What every Loqui client promises its callers, whatever the language it  *)
(* is written in.  A call is opened, the server may execute it (once), and *)
(* the call returns exactly once: with the answer the server computed for  *)
(* that very call, or with a failure.  The server may still execute a call *)
(* whose caller has given up: a timeout does not undo a request.           *)
(***************************************************************************)
CONSTANTS
    Req,        \* the calls a client ever makes
    None        \* stands for "no call"; not a member of Req

VARIABLES
    opened,     \* the calls that were made
    executed,   \* the calls the server's handler was run for
    returned    \* returned[r]: Open until r returns, then Answer(q) (r was
                \* given the answer to q) or Failure

rpcVars == <<opened, executed, returned>>

Open == <<"open", None>>
Failure == <<"failure", None>>
Answer(r) == <<"answer", r>>

RpcInit ==
    /\ opened = {}
    /\ executed = {}
    /\ returned = [r \in Req |-> Open]

(* The user of the client makes call r. *)
Make(r) ==
    /\ r \notin opened
    /\ opened' = opened \cup {r}
    /\ UNCHANGED <<executed, returned>>

(* The server's request handler is run for r, once at most. *)
Execute(r) ==
    /\ r \in opened
    /\ r \notin executed
    /\ executed' = executed \cup {r}
    /\ UNCHANGED <<opened, returned>>

(* The caller of r gets the answer to r, which the handler has computed. *)
Reply(r) ==
    /\ r \in executed
    /\ returned[r] = Open
    /\ returned' = [returned EXCEPT ![r] = Answer(r)]
    /\ UNCHANGED <<opened, executed>>

(* The caller of r is told that it failed: timeout, closed connection ... *)
Fail(r) ==
    /\ r \in opened
    /\ returned[r] = Open
    /\ returned' = [returned EXCEPT ![r] = Failure]
    /\ UNCHANGED <<opened, executed>>

(* A call refused at once, before it is queued. *)
Refuse(r) ==
    /\ r \notin opened
    /\ returned[r] = Open
    /\ opened' = opened \cup {r}
    /\ returned' = [returned EXCEPT ![r] = Failure]
    /\ UNCHANGED executed

RpcNext ==
    \E r \in Req : Make(r) \/ Execute(r) \/ Reply(r) \/ Fail(r) \/ Refuse(r)

RpcSpec == RpcInit /\ [][RpcNext]_rpcVars
=============================================================================
