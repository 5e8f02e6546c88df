--------------------------- MODULE MCGrpcStreams ---------------------------
(* Small instances of GrpcStreams for TLC.                                 *)
EXTENDS GrpcStreams
=============================================================================
