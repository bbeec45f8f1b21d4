--------------------------- MODULE MCRustHandshake ---------------------------
(* A small instance of RustHandshake for TLC. *)
EXTENDS RustHandshake

CONSTANTS e1, e2

Config(c, s) == [side \in Side |-> IF side = "client" THEN c ELSE s]

(* Two ends that prefer different encodings, that have one in common, that     *)
(* have none, and a client that has none at all.                              *)
MCConfigs == {Config(<<e1, e2>>, <<e2, e1>>), Config(<<e1>>, <<e2, e1>>),
              Config(<<e1>>, <<e2>>), Config(<<>>, <<e1>>)}
=============================================================================
