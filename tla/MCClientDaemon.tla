---------------------------- MODULE MCClientDaemon ----------------------------
(* Instances of ClientDaemon for TLC. *)
EXTENDS ClientDaemon, TLC
=============================================================================
