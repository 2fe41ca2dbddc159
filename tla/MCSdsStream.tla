----------------------------- MODULE MCSdsStream -----------------------------
(* Instances of SdsStream for TLC. *)
EXTENDS SdsStream, TLC
=============================================================================
