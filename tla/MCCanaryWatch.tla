--------------------------- MODULE MCCanaryWatch ---------------------------
(***************************************************************************)
(* A canary read twice and disturbed three times, by TLC.                  *)
(***************************************************************************)
EXTENDS CanaryWatch
=============================================================================
