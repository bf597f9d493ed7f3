-------------------------- MODULE MCWatcherScript ---------------------------
(* WatcherScript on small instances. *)
EXTENDS WatcherScript
=============================================================================
