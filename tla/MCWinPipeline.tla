--------------------------- MODULE MCWinPipeline ----------------------------
(* WinPipeline on small instances. *)
EXTENDS WinPipeline
=============================================================================
