-------------------------- MODULE MCRustConnection --------------------------
(* Small instances of RustConnection for TLC. *)
EXTENDS RustConnection, TLC

ReqSymmetry == Permutations(Req)
=============================================================================
