--------------------------- MODULE ManagedChanges ---------------------------
(***************************************************************************)
(* What Honeypath changes outside ~/.ssh while it sets the SSH canary up,  *)
(* and the rows of managed_changes that let restore-ssh-canary undo it:    *)
(* the wrappers ~/bin/{ssh,scp,sftp} (one item stands for the three), the  *)
(* PATH block of a shell rc file, and git's core.sshCommand.               *)
(*                                                                         *)
(* Every change is two steps: the item is written, then a row is           *)
(* committed.  Every undo is two steps in the same order.  A crash fits    *)
(* between them.                                                           *)
(***************************************************************************)
EXTENDS Sequences

VARIABLES
    disk,     \* [Items -> Held]: what is in place now
    records   \* [Items -> Seq(Held)]: active rows, newest first, as the value replaced

Items == {"wrapper", "rc", "git"}

\* "ours" is the exact content Honeypath writes, "edited" a wrapper that was changed
\* since and still carries Honeypath's marker, "user" any other content.
Held == {"absent", "user", "edited", "ours"}

(***************************************************************************)
(* Installing.                                                             *)
(***************************************************************************)

\* Mutant: what is already there is installed again.
InstallSkips_Reinstall(item, force, confirmed) ==
    \/ item = "rc" /\ ~confirmed
    \/ item = "git" /\ disk[item] = "user" /\ ~force /\ ~confirmed

\* The run leaves the item alone: it is already there, or the operator, asked
\* about someone else's value, says no.
InstallSkips(item, force, confirmed) ==
    \/ disk[item] = "ours"
    \/ item = "rc" /\ ~confirmed
    \/ item = "git" /\ disk[item] = "user" /\ ~force /\ ~confirmed

\* A file without the marker in the wrapper's place ends Phase 1; one that was only
\* edited is replaced without being asked to.
InstallRefused(item, force) ==
    item = "wrapper" /\ disk[item] = "user" /\ ~force

WriteItem(item) == disk' = [disk EXCEPT ![item] = "ours"]

\* The previous value is what was in place before the write.
RecordItem(item, previous) ==
    records' = [records EXCEPT ![item] = <<previous>> \o @]

(***************************************************************************)
(* Undoing: one recorded change at a time.                                 *)
(***************************************************************************)

\* Whatever is there is not what Honeypath put there, and stays.
UndoLeaves(item) == disk[item] \in {"user", "edited"}

\* What the undo puts in place of Honeypath's content.
Undone(item) == IF item = "git" THEN Head(records[item]) ELSE "absent"

\* A wrapper or a block that is already gone only loses its row.
NothingToUndo(item) == item # "git" /\ disk[item] = "absent"

UndoItem(item) == disk' = [disk EXCEPT ![item] = Undone(item)]

RetireItem(item) == records' = [records EXCEPT ![item] = Tail(@)]

=============================================================================
