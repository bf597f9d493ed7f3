----------------------------- MODULE MCWinSetup -----------------------------
(* WinSetup on small instances. *)
EXTENDS WinSetup, TLC

\* Canaries are interchangeable.
CanarySymmetry == Permutations(Canaries)
=============================================================================
