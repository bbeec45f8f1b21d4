----------------------------- MODULE MCPySession -----------------------------
(* Instances of PySession for model checking. *)
EXTENDS PySession, TLC

CONSTANTS c1, c2

C(python, requests, pushes, ends, thePeer) ==
  [role |-> "client", python |-> python, requests |-> requests, defers |-> {},
   pushes |-> pushes, ends |-> ends, peer |-> thePeer]

S(requests, defers, pushes, ends, thePeer) ==
  [role |-> "server", python |-> 2, requests |-> requests, defers |-> defers,
   pushes |-> pushes, ends |-> ends, peer |-> thePeer]

MCScenarios ==
  { C(2, {c1, c2}, {}, {"close"}, {"error"}),
    C(2, {c1}, {c2}, {"terminate"}, {}),
    C(2, {c1, c2}, {}, {}, {"goaway"}),
    C(2, {c1}, {}, {"close"}, {"mute"}),
    C(3, {c1}, {}, {"terminate"}, {"mute", "goaway"}),
    C(2, {c1}, {}, {"close"}, {"close", "ping"}),
    C(2, {c1}, {}, {}, {"unknown_encoder"}),
    C(2, {c1}, {}, {}, {"oversized"}),
    C(2, {c1}, {}, {"terminate"}, {"goaway"}),
    S({c1, c2}, {c1}, {}, {}, {}),
    S({c1, c2}, {c1, c2}, {}, {"close"}, {}),
    S({c1}, {c1}, {c2}, {"terminate"}, {}),
    S({c1}, {c1}, {}, {"close"}, {"goaway"}),
    S({c1}, {}, {}, {}, {"close", "mute"}),
    S({c1}, {}, {}, {"close"}, {"unknown_encoder"}),
    S({c1}, {c1}, {}, {}, {"oversized"}) }
=============================================================================
