---------------------------- MODULE MCSafeWrite ----------------------------
(* SafeWrite on small instances. *)
EXTENDS SafeWrite, TLC

\* Commands are interchangeable; all properties here are safety.
WriterSymmetry == Permutations(Writers)
=============================================================================
