--------------------------- MODULE MCGrpcStreamer ---------------------------
(* Instances of GrpcStreamer for TLC. *)
EXTENDS GrpcStreamer, TLC
=============================================================================
