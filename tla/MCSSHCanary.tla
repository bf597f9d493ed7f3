---------------------------- MODULE MCSSHCanary ----------------------------
(***************************************************************************)
(* SSHCanary with two opaque files; the canaries are created in the        *)
(* catalog's order, a key before the config that marks the directory.      *)
(***************************************************************************)
EXTENDS SSHCanary

MCKeys == {"id", "known_hosts"}
MCPlanted == <<"id", "config", "known_hosts">>
=============================================================================
