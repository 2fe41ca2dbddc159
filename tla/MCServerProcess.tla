--------------------------- MODULE MCServerProcess ---------------------------
(* Instances of ServerProcess for TLC. *)
EXTENDS ServerProcess, TLC
=============================================================================
