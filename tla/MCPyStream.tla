----------------------------- MODULE MCPyStream -----------------------------
(* Small conversations for PyStream; 7, the opcode of a push, and 3, that   *)
(* of a ping, are also payload bytes.                                       *)
EXTENDS PyStream

F(op, n, c, data) ==
  [op |-> op, flags |-> 0, seq |-> n, code |-> c, data |-> data]

MCScripts ==
  { [client |-> a, server |-> b] :
      <<a, b>> \in
        { <<<<F(Hello, 0, Version, <<7, Bar>>), F(Request, 0, 0, <<7>>)>>, <<>>>>,
          <<<<>>, <<F(HelloAck, 0, 3, <<Bar>>), F(Response, 1, 0, <<>>)>>>>,
          <<<<F(Request, 0, 0, <<3>>), F(Ping, 0, 0, <<>>), F(Ping, 0, 0, <<>>)>>,
            <<F(Response, 1, 0, <<>>)>>>>,
          <<<<F(Push, 0, 0, <<>>), F(Push, 0, 0, <<3, 7>>), F(Push, 0, 0, <<7>>)>>,
            <<>>>>,
          <<<<>>, <<F(Error, 1, 2, <<7>>), F(GoAway, 0, 5, <<>>)>>>>,
          <<<<F(Push, 0, 0, <<7>>), F(Push, 0, 0, <<3, 0, 1, 0>>)>>, <<>>>>,
          <<<<F(Hello, 0, Version, <<7>>), F(Push, 0, 0, <<>>)>>, <<>>>> } }
=============================================================================
