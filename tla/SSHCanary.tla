----------------------------- MODULE SSHCanary -----------------------------
(***************************************************************************)
(* setup-ssh-canary (Phase 1), setup-ssh-canary --activate (Phase 2) and   *)
(* restore-ssh-canary: the commands that copy the user's SSH files to the  *)
(* relocated directory, move ~/.ssh to a backup, plant canaries in its     *)
(* place, and undo all of it.                                              *)
(*                                                                         *)
(* One command runs at a time, one action per step that changes a file or  *)
(* commits a transaction.  Between any two steps the user's own programs   *)
(* may change ~/.ssh or the relocated copy, the step may fail, and the     *)
(* machine may crash.                                                      *)
(*                                                                         *)
(* A file is its content, abstracted to a number: Absent, Canary, or the   *)
(* version the user gave it.  A directory carries the identity of its      *)
(* inode, which a rename keeps.                                            *)
(***************************************************************************)
EXTENDS Integers, Sequences, FiniteSets, ManagedChanges

CONSTANTS
    Keys,         \* files copied as opaque bytes: private keys, known_hosts, ...
    KnownHosts,   \* the one of them that Phase 1 seeds with an empty file
    Planted,      \* the catalog's canaries under ~/.ssh, in the order they are created
    NeedsRewrite, \* whether the user's ssh_config has paths to rewrite
    MaxTrouble,   \* bound: steps that fail, crashes, and changes by the user, together
    MaxEvents     \* bound: those and the commands started

Config == "config"
AuthorizedKeys == "authorized_keys"

\* GENERATED_FILES: never copied to the relocated directory.
Names == Keys \cup {Config, AuthorizedKeys}

ASSUME SSHCanaryAssumption ==
    /\ KnownHosts \in Keys /\ Config \notin Keys /\ AuthorizedKeys \notin Keys
    /\ Planted \in Seq(Keys \cup {Config})
    /\ Config \in {Planted[i] : i \in DOMAIN Planted}
    \* The catalog lists known_hosts, which ssh may write to, after the config
    \* that makes ssh refuse to run.
    /\ \A i, j \in DOMAIN Planted : Planted[i] = Config /\ Planted[j] = KnownHosts => i < j
    /\ NeedsRewrite \in BOOLEAN
    /\ MaxTrouble \in Nat /\ MaxEvents \in Nat

VARIABLES
    ssh,      \* what is at ~/.ssh
    slots,    \* the names later renames made, oldest first: [kind, dir]
    copy,     \* the relocated copy of each key
    config,   \* the user section of the relocated config
    db,       \* the row of ssh_installations, and whether canary rows are active
    cmd,      \* the running command
    used,     \* how much of each bound is used
    born,     \* identities given so far
    theirs,   \* history: the identities of directories the user's programs made
    lapse     \* history: what interfered so far

home == <<ssh, slots, born, theirs>>
relocated == <<copy, config>>
managed == <<disk, records>>
vars == <<ssh, slots, copy, config, db, cmd, used, born, theirs, lapse, disk, records>>

-----------------------------------------------------------------------------
(* Files and directories. *)

Absent == 0
Canary == -1
NoFile == -2
EmptyFile == -3
Content == {Canary, EmptyFile} \cup Nat

Dir == [id: Nat, owner: {"none", "user", "honeypath"}, files: [Names -> Content]]

Empty == [f \in Names |-> Absent]
NoCopy == [f \in Keys |-> Absent]
NoDir == [id |-> 0, owner |-> "none", files |-> Empty]

\* looks_like_canary_dir: the config carries the canary's text.
IsCanaryDir(d) == d.files[Config] = Canary

\* Mutant: the backups are looked for under one of their two names only.
Backups_Unlisted == {}

\* list_backups, the last of it; aside directories have a name it does not match.
Backups == {i \in DOMAIN slots : slots[i].kind = "backup" /\ slots[i].dir # NoDir}
LatestBackup == CHOOSE i \in Backups : \A j \in Backups : j <= i

\* inventory_ssh_dir: every regular file, by its content.
InventoryOf(dir) == dir.files

\* verify_inventory_unchanged
Unchanged(before, after) == before = after

\* rename_noreplace onto ~/.ssh needs the name to be free.
NameFree == ssh = NoDir

\* wrapper_statuses: the marker is there.
WrappersInPlace == disk["wrapper"] \in {"ours", "edited"}

\* plan_copy: a relocated file is replaced only when it is missing, or still
\* what Honeypath copied there last time.
ToCopy(inv, hashes) ==
    {f \in Keys : /\ inv[f] # Absent
                  /\ copy[f] # inv[f]
                  /\ copy[f] \in {Absent, hashes[f]}}
Conflicts(inv, hashes) ==
    {f \in Keys : inv[f] # Absent /\ copy[f] \notin {Absent, inv[f], hashes[f]}}

\* verify_relocated_inventory
CopyMatches(inv) == \A f \in Keys : inv[f] # Absent => copy[f] = inv[f]

\* known_hosts_seed
Seeded(c) == [c EXCEPT ![KnownHosts] = IF @ = Absent THEN EmptyFile ELSE @]

\* rewrite_user_config: the text changes when a directive names a path under ~/.ssh.
SameAsSource(section, user) == ~NeedsRewrite /\ section = user

\* validate_relocated_config: what ssh -G makes of the file.
Verdicts == {"ok", "differences", "failed"}

\* prepare_relocated_config: whether the user section of the existing config
\* is kept as a hand edit.  The section read back from the file never hashes
\* to what was recorded for a fresh rewrite: assembling it added blank lines.
KeepsSection(force) ==
    LET user == ssh.files[Config] IN
    /\ config \notin {NoFile, Absent}
    /\ ~SameAsSource(config, user)
    /\ db.section # [of |-> config, read |-> TRUE]
    /\ ~force

-----------------------------------------------------------------------------
(* The state. *)

Phases == {"none", "prepared", "activated", "restored"}
NoSection == [of |-> Absent, read |-> FALSE]
NoRow == [phase |-> "none", backup |-> 0, hashes |-> Empty,
          section |-> NoSection, rows |-> FALSE]

Idle == [op |-> "idle", at |-> "", force |-> FALSE, inv |-> Empty,
         hashes |-> Empty, section |-> NoSection, seen |-> NoCopy, todo |-> {},
         failed |-> FALSE, kept |-> FALSE, config |-> NoFile, slot |-> 0, planted |-> 0,
         mine |-> 0, wrote |-> "none"]

Unused == [commands |-> 0, trouble |-> 0]

\* A home that has an SSH directory, with or without a foreign ~/bin/ssh and
\* a core.sshCommand of the user's.
Init ==
    /\ ssh = [id |-> 1, owner |-> "user", files |-> [f \in Names |-> 1]]
    /\ slots = <<>>
    /\ copy = NoCopy
    /\ config = NoFile
    /\ db = NoRow
    /\ cmd = Idle
    /\ used = Unused
    /\ born = 1
    /\ theirs = {1}
    /\ lapse = {}
    /\ \E foreign \in {"absent", "user"} :
          disk = [wrapper |-> foreign, rc |-> "absent", git |-> foreign]
    /\ records = [i \in Items |-> <<>>]

Goto(stage) == cmd' = [cmd EXCEPT !.at = stage]
End == cmd' = Idle
EndWith(what) == End /\ lapse' = lapse \cup {what}

Trouble ==
    /\ used.trouble < MaxTrouble /\ used.commands + used.trouble < MaxEvents
    /\ used' = [used EXCEPT !.trouble = @ + 1]

\* A step that the operating system or SQLite refuses.
Fault == Trouble
NoFault == UNCHANGED used

StartAt(op, stage, force) ==
    /\ cmd.op = "idle"
    /\ used.commands + used.trouble < MaxEvents
    /\ used' = [used EXCEPT !.commands = @ + 1]
    /\ cmd' = [Idle EXCEPT !.op = op, !.at = stage, !.force = force,
                           !.inv = InventoryOf(ssh), !.hashes = db.hashes, !.section = db.section,
                           !.seen = copy,
                           !.todo = IF op = "restore" THEN {}
                                    ELSE ToCopy(ssh.files, db.hashes) \cup
                                         Conflicts(ssh.files, db.hashes)]
    /\ UNCHANGED <<home, relocated, db, lapse, managed>>

-----------------------------------------------------------------------------
(* Phase 1: copy, rebuild the config, install wrappers, PATH block and git. *)

\* The guards of cmd_setup_ssh_canary; what they refuse leaves no trace.
StartSetup(force) ==
    /\ db.phase # "activated"
    /\ ~IsCanaryDir(ssh)
    /\ force \/ Conflicts(ssh.files, db.hashes) = {}
    /\ StartAt("setup", "copy", force)

\* copy_inventory, one file.  The write is refused when the relocated file is
\* no longer what plan_copy saw; activation counts that as fatal, later.
CopyFile(f) ==
    /\ cmd.at = "copy" /\ f \in cmd.todo
    /\ \/ copy[f] = cmd.seen[f] /\ NoFault
          /\ copy' = [copy EXCEPT ![f] = cmd.inv[f]]
          /\ cmd' = [cmd EXCEPT !.todo = @ \ {f}]
       \/ /\ IF copy[f] = cmd.seen[f] THEN Fault ELSE NoFault
          /\ copy' = copy
          /\ cmd' = [cmd EXCEPT !.todo = @ \ {f}, !.failed = TRUE]
    /\ UNCHANGED <<home, config, db, lapse, managed>>

Copied == cmd' = [cmd EXCEPT !.at = "config", !.seen = NoCopy, !.failed = FALSE]

\* Activation insists on an exact copy; Phase 1 goes on, and known_hosts_seed
\* makes sure that ssh finds a known_hosts file.
CopyDone ==
    /\ cmd.at = "copy" /\ cmd.todo = {}
    /\ \/ /\ cmd.op = "activate"
          /\ IF cmd.failed \/ ~CopyMatches(cmd.inv) THEN End ELSE Copied
          /\ copy' = copy
       \/ /\ cmd.op = "setup"
          /\ Copied
          /\ copy' = Seeded(copy)
    /\ NoFault /\ UNCHANGED <<home, config, db, lapse, managed>>

\* prepare_relocated_config up to the write.
WriteConfig ==
    /\ cmd.at = "config"
    /\ \/ /\ config' = IF KeepsSection(cmd.force) THEN config ELSE ssh.files[Config]
          /\ cmd' = [cmd EXCEPT !.at = "section", !.config = config',
                                !.kept = KeepsSection(cmd.force)]
          /\ NoFault
       \/ Fault /\ End /\ config' = config
    /\ UNCHANGED <<home, copy, db, lapse, managed>>

\* upsert_ssh_installation: an activated row may only become restored.
Upsert(phase, hashes, section) ==
    /\ db.phase = "activated" => phase \in {"activated", "restored"}
    /\ db' = [db EXCEPT !.phase = phase, !.hashes = hashes, !.section = section]

\* ... and the row, which is written even when the config does not validate.
RecordConfig ==
    /\ cmd.at = "section"
    /\ Upsert(IF db.phase = "none" THEN "prepared" ELSE db.phase, db.hashes,
              [of |-> cmd.config, read |-> cmd.kept])
    /\ \E verdict \in Verdicts :
          IF verdict = "failed" THEN End /\ Fault
          ELSE Goto(IF cmd.op = "setup" THEN "wrapper" ELSE "check") /\ NoFault
    /\ UNCHANGED <<home, relocated, lapse, managed>>

NextItem == [wrapper |-> "rc", rc |-> "git", git |-> "finish"]

\* install_wrappers, install_rc_block, set_git_ssh_command: the write ...
Install(item) ==
    /\ cmd.op = "setup" /\ cmd.at = item /\ cmd.wrote = "none"
    /\ \/ /\ InstallRefused(item, cmd.force)
          /\ End /\ NoFault /\ UNCHANGED disk
       \/ /\ ~InstallRefused(item, cmd.force)
          /\ \E confirmed \in BOOLEAN : InstallSkips(item, cmd.force, confirmed)
          /\ Goto(NextItem[item]) /\ NoFault /\ UNCHANGED disk
       \/ /\ ~InstallRefused(item, cmd.force)
          /\ \E confirmed \in BOOLEAN : ~InstallSkips(item, cmd.force, confirmed)
          /\ WriteItem(item)
          /\ cmd' = [cmd EXCEPT !.wrote = disk[item]]
          /\ NoFault
       \/ /\ Fault /\ UNCHANGED disk
          /\ IF item = "wrapper" THEN End ELSE Goto(NextItem[item])
    /\ UNCHANGED <<home, relocated, db, lapse, records>>

\* ... and its row.
RecordInstall(item) ==
    /\ cmd.op = "setup" /\ cmd.at = item /\ cmd.wrote # "none"
    /\ RecordItem(item, cmd.wrote)
    /\ cmd' = [cmd EXCEPT !.at = NextItem[item], !.wrote = "none"]
    /\ NoFault /\ UNCHANGED <<home, relocated, db, lapse, disk>>

InstallWrappers == Install("wrapper")
InstallRcBlock == Install("rc")
SetGitSshCommand == Install("git")

\* The last upsert replaces source_hashes as a whole, from the row as it was
\* read before the config was rebuilt.
FinishSetup ==
    /\ cmd.at = "finish"
    /\ Upsert("prepared",
              [f \in Names |-> IF cmd.inv[f] # Absent THEN cmd.inv[f] ELSE cmd.hashes[f]],
              cmd.section)
    /\ End
    /\ NoFault /\ UNCHANGED <<home, relocated, lapse, managed>>

-----------------------------------------------------------------------------
(* Phase 2: activation. *)

StartActivate(force) ==
    /\ db.phase = "prepared" /\ db.backup = 0
    /\ ~IsCanaryDir(ssh)
    /\ WrappersInPlace
    /\ force \/ Conflicts(ssh.files, db.hashes) = {}
    /\ StartAt("activate", "copy", force)

\* The part of activate() before the rename.  Nothing is changed yet, so a
\* refusal just ends the command.
CheckAll ==
    /\ cmd.at = "check"
    /\ \/ /\ db.phase = "prepared" /\ db.backup = 0
          /\ ssh # NoDir /\ ~IsCanaryDir(ssh)
          /\ config # NoFile
          /\ WrappersInPlace
          /\ Unchanged(cmd.inv, InventoryOf(ssh))
          /\ CopyMatches(ssh.files)
          /\ cmd' = [cmd EXCEPT !.at = "rename", !.config = config]
       \/ End
    /\ NoFault /\ UNCHANGED <<home, relocated, db, lapse, managed>>

\* rename_noreplace(~/.ssh, backup); on another filesystem, to a name in the home.
RenameAway ==
    /\ cmd.at = "rename"
    /\ \/ /\ ssh # NoDir
          /\ slots' = Append(slots, [kind |-> "backup", dir |-> ssh])
          /\ ssh' = NoDir
          /\ cmd' = [cmd EXCEPT !.at = "verify", !.slot = Len(slots')]
          /\ NoFault
       \/ ssh = NoDir /\ NoFault /\ End /\ UNCHANGED <<ssh, slots>>
       \/ Fault /\ End /\ UNCHANGED <<ssh, slots>>
    /\ UNCHANGED <<born, theirs, relocated, db, lapse, managed>>

\* Mutant: the directory is taken for what it was before the rename.
BackupVerified_Trusting == CopyMatches(cmd.inv) /\ config = cmd.config

\* What was renamed must be what was inventoried, and still what was copied.
BackupVerified ==
    /\ Unchanged(cmd.inv, InventoryOf(slots[cmd.slot].dir))
    /\ CopyMatches(cmd.inv)
    /\ config = cmd.config

VerifyBackup ==
    /\ cmd.at = "verify"
    /\ \/ BackupVerified /\ Goto("mkdir") /\ NoFault
       \/ ~BackupVerified /\ Goto("unplant") /\ NoFault
       \/ BackupVerified /\ Goto("unplant") /\ Fault
    /\ UNCHANGED <<home, relocated, db, lapse, managed>>

\* create_directory_exclusive
MakeDirectory ==
    /\ cmd.at = "mkdir"
    /\ \/ /\ ssh = NoDir
          /\ ssh' = [id |-> born + 1, owner |-> "honeypath", files |-> Empty]
          /\ born' = born + 1
          /\ cmd' = [cmd EXCEPT !.at = "plant", !.mine = born + 1]
          /\ NoFault
       \/ ssh # NoDir /\ NoFault /\ Goto("unplant") /\ UNCHANGED <<ssh, born>>
       \/ Fault /\ Goto("unplant") /\ UNCHANGED <<ssh, born>>
    /\ UNCHANGED <<slots, theirs, relocated, db, lapse, managed>>

\* create_canary_file, then reading the canary back.
PlantCanary ==
    /\ cmd.at = "plant" /\ cmd.planted < Len(Planted)
    /\ LET f == Planted[cmd.planted + 1] IN
       \/ /\ ssh.files[f] = Absent
          /\ ssh' = [ssh EXCEPT !.files[f] = Canary]
          /\ cmd' = [cmd EXCEPT !.planted = @ + 1]
          /\ NoFault
       \/ ssh.files[f] # Absent /\ Goto("unplant") /\ NoFault /\ UNCHANGED ssh
       \/ Fault /\ Goto("unplant") /\ UNCHANGED ssh
    /\ UNCHANGED <<slots, born, theirs, relocated, db, lapse, managed>>

\* _restore_authorized_keys, unless --no-authorized-keys.
CopyAuthorizedKeys ==
    LET saved == slots[cmd.slot].dir.files[AuthorizedKeys] IN
    /\ cmd.at = "plant" /\ cmd.planted = Len(Planted)
    /\ \/ /\ ssh.files[AuthorizedKeys] = Absent
          /\ ssh' = [ssh EXCEPT !.files[AuthorizedKeys] = saved]
          /\ Goto("commit") /\ NoFault
       \/ Goto("commit") /\ NoFault /\ UNCHANGED ssh
       \/ Goto("unplant") /\ Fault /\ UNCHANGED ssh
    /\ UNCHANGED <<slots, born, theirs, relocated, db, lapse, managed>>

\* Mutant: a database error is reported like a refusal.
Commit_NoRollback ==
    /\ cmd.at = "commit"
    /\ \/ /\ db.phase = "prepared" /\ db.backup = 0
          /\ db' = [db EXCEPT !.phase = "activated", !.backup = cmd.slot, !.rows = TRUE]
          /\ NoFault
       \/ Fault /\ UNCHANGED db
    /\ End
    /\ UNCHANGED <<home, relocated, lapse, managed>>

\* finalize_ssh_activation: one transaction, the commit point.
Commit ==
    /\ cmd.at = "commit"
    /\ \/ /\ db.phase = "prepared" /\ db.backup = 0
          /\ db' = [db EXCEPT !.phase = "activated", !.backup = cmd.slot, !.rows = TRUE]
          /\ End /\ NoFault
       \/ Fault /\ Goto("unplant") /\ UNCHANGED db
    /\ UNCHANGED <<home, relocated, lapse, managed>>

\* Mutant: whatever is at ~/.ssh is removed.
Unplant_Anything ==
    /\ cmd.at = "unplant"
    /\ ssh' = NoDir
    /\ Goto("back") /\ NoFault
    /\ UNCHANGED <<slots, born, theirs, relocated, db, lapse, managed>>

\* Rolling back.  remove_tree_if_identity takes the files one by one, then the
\* directory; a directory that is not the one created is fatal.
Unplant ==
    /\ cmd.at = "unplant"
    /\ \/ /\ cmd.mine # 0 /\ ssh.id = cmd.mine
          /\ \E f \in Names :
                /\ ssh.files[f] # Absent
                /\ ssh' = [ssh EXCEPT !.files[f] = Absent]
          /\ UNCHANGED <<cmd, lapse>> /\ NoFault
       \/ /\ cmd.mine # 0 /\ ssh.id = cmd.mine /\ ssh.files = Empty
          /\ ssh' = NoDir
          /\ Goto("back") /\ NoFault /\ UNCHANGED lapse
       \/ /\ cmd.mine = 0 /\ ssh = NoDir
          /\ Goto("back") /\ NoFault /\ UNCHANGED <<ssh, lapse>>
       \/ /\ ssh.id # cmd.mine
          /\ EndWith("fatal") /\ NoFault /\ UNCHANGED ssh
       \/ Fault /\ EndWith("fatal") /\ UNCHANGED ssh
    /\ UNCHANGED <<slots, born, theirs, relocated, db, managed>>

\* rename_noreplace(backup, ~/.ssh)
RenameBack ==
    /\ cmd.at = "back"
    /\ \/ /\ NameFree
          /\ ssh' = slots[cmd.slot].dir
          /\ slots' = [slots EXCEPT ![cmd.slot].dir = NoDir]
          /\ End /\ NoFault /\ UNCHANGED lapse
       \/ ~NameFree /\ EndWith("fatal") /\ NoFault /\ UNCHANGED <<ssh, slots>>
       \/ Fault /\ EndWith("fatal") /\ UNCHANGED <<ssh, slots>>
    /\ UNCHANGED <<born, theirs, relocated, db, managed>>

-----------------------------------------------------------------------------
(* restore-ssh-canary. *)

StartRestore(force) == StartAt("restore", "wrapper", force)

\* Only git's exit code is logged and not looked at.
RetiresOnFailure(item) == item = "git"

AfterUndo == [wrapper |-> "choose", git |-> "rc", rc |-> "done"]

\* remove_wrappers, restore_git_ssh_command, remove_rc_blocks, one record at
\* a time: skip, retire a row whose change is gone, or undo it.
Undo(item) ==
    /\ cmd.op = "restore" /\ cmd.at = item /\ cmd.wrote = "none"
    /\ \/ /\ records[item] = <<>> \/ UndoLeaves(item)
          /\ Goto(AfterUndo[item]) /\ NoFault /\ UNCHANGED managed
       \/ /\ item \in {"rc", "git"}        \* declined; git no longer installed
          /\ Goto(AfterUndo[item]) /\ NoFault /\ UNCHANGED managed
       \/ /\ records[item] # <<>> /\ NothingToUndo(item)
          /\ RetireItem(item) /\ NoFault /\ UNCHANGED <<cmd, disk>>
       \/ /\ records[item] # <<>> /\ ~UndoLeaves(item) /\ ~NothingToUndo(item)
          /\ UndoItem(item)
          /\ cmd' = [cmd EXCEPT !.wrote = "ours"]
          /\ NoFault /\ UNCHANGED records
       \/ /\ records[item] # <<>> /\ ~UndoLeaves(item) /\ ~NothingToUndo(item)
          /\ Fault /\ UNCHANGED managed
          /\ IF RetiresOnFailure(item) THEN cmd' = [cmd EXCEPT !.wrote = "ours"]
                                       ELSE Goto(AfterUndo[item])
    /\ UNCHANGED <<home, relocated, db, lapse>>

RemoveWrappers == Undo("wrapper")
RemoveRcBlocks == Undo("rc")
RestoreGitSshCommand == Undo("git")

\* The row is retired after the undo; for git whether or not git succeeded,
\* and only the newest row is looked at.
RetireUndone(item) ==
    /\ cmd.op = "restore" /\ cmd.at = item /\ cmd.wrote # "none"
    /\ RetireItem(item)
    /\ cmd' = [cmd EXCEPT !.wrote = "none",
                          !.at = IF item = "git" THEN AfterUndo[item] ELSE @]
    /\ lapse' = IF item = "git" /\ disk[item] = "ours" THEN lapse \cup {"git"} ELSE lapse
    /\ NoFault /\ UNCHANGED <<home, relocated, db, disk>>

\* The backup to restore: the recorded one, or the newest there is; 0 if none.
Chosen ==
    IF db.backup # 0 /\ slots[db.backup].dir # NoDir THEN db.backup
    ELSE IF Backups # {} THEN LatestBackup ELSE 0

\* Leave ~/.ssh alone, or go on and restore the chosen backup.
ChooseBackup ==
    /\ cmd.at = "choose"
    /\ \/ /\ Chosen # 0
          /\ ssh = NoDir \/ IsCanaryDir(ssh) \/ cmd.force
          /\ cmd' = [cmd EXCEPT !.slot = Chosen,
                                !.at = IF ssh = NoDir THEN "return" ELSE "aside"]
       \/ Goto("git")                     \* none, refused, or declined
    /\ NoFault /\ UNCHANGED <<home, relocated, db, lapse, managed>>

MoveAside ==
    /\ cmd.at = "aside"
    /\ \/ /\ ssh # NoDir
          /\ slots' = Append(slots, [kind |-> "aside", dir |-> ssh])
          /\ ssh' = NoDir
          /\ cmd' = [cmd EXCEPT !.at = "return", !.mine = Len(slots')]
          /\ NoFault
       \/ Fault /\ End /\ UNCHANGED <<ssh, slots>>
    /\ UNCHANGED <<born, theirs, relocated, db, lapse, managed>>

ReturnBackup ==
    /\ cmd.at = "return"
    /\ \/ /\ NameFree
          /\ ssh' = slots[cmd.slot].dir
          /\ slots' = [slots EXCEPT ![cmd.slot].dir = NoDir]
          /\ Goto("git") /\ NoFault
       \/ ~NameFree /\ Goto("unaside") /\ NoFault /\ UNCHANGED <<ssh, slots>>
       \/ Fault /\ Goto("unaside") /\ UNCHANGED <<ssh, slots>>
    /\ UNCHANGED <<born, theirs, relocated, db, lapse, managed>>

\* Put back what was moved aside; the command fails either way.
UndoAside ==
    /\ cmd.at = "unaside"
    /\ \/ /\ cmd.mine # 0 /\ NameFree
          /\ ssh' = slots[cmd.mine].dir
          /\ slots' = [slots EXCEPT ![cmd.mine].dir = NoDir]
          /\ NoFault
          /\ End /\ UNCHANGED lapse
       \/ cmd.mine = 0 /\ End /\ NoFault /\ UNCHANGED <<ssh, slots, lapse>>
       \/ cmd.mine # 0 /\ ~NameFree /\ EndWith("fatal") /\ NoFault /\ UNCHANGED <<ssh, slots>>
       \/ cmd.mine # 0 /\ EndWith("fatal") /\ Fault /\ UNCHANGED <<ssh, slots>>
    /\ UNCHANGED <<born, theirs, relocated, db, managed>>

\* deactivate_under, reached even when ~/.ssh was left alone ...
Deactivate ==
    /\ cmd.at = "done"
    /\ db' = [db EXCEPT !.rows = FALSE]
    /\ Goto("row")
    /\ NoFault /\ UNCHANGED <<home, relocated, lapse, managed>>

\* ... and the row, in a transaction of its own.
FinishRestore ==
    /\ cmd.at = "row"
    /\ Upsert("restored", db.hashes, db.section)
    /\ End
    /\ NoFault /\ UNCHANGED <<home, relocated, lapse, managed>>

-----------------------------------------------------------------------------
(* The surroundings: the user's programs, and crashes. *)

Fresh == used.trouble + 2

\* The user changes a file of ~/.ssh, or ssh adds a host key to it, which it does in
\* a directory Honeypath is filling too, until the canary config makes it refuse to
\* run.  Any other change to a directory of Honeypath's is an edit of the canaries,
\* as that of a user who wants direct use of ssh back.
UserWrites ==
    /\ Trouble
    /\ ssh # NoDir
    /\ \E f \in Keys \cup {Config} :
          /\ ssh' = [ssh EXCEPT !.files[f] = Fresh]
          /\ lapse' = IF ssh.owner = "user" \/ (f = KnownHosts /\ ~IsCanaryDir(ssh))
                      THEN lapse ELSE lapse \cup {"edited"}
    /\ UNCHANGED <<slots, born, theirs, relocated, db, cmd, managed>>

\* ssh creates ~/.ssh when it is missing, to remember a host key.
UserCreates ==
    /\ Trouble
    /\ ssh = NoDir
    /\ ssh' = [id |-> born + 1, owner |-> "user",
               files |-> [Empty EXCEPT ![KnownHosts] = Fresh]]
    /\ born' = born + 1
    /\ theirs' = theirs \cup {born'}
    /\ UNCHANGED <<slots, relocated, db, cmd, lapse, managed>>

\* ~/bin/ssh learns a host key, or the user edits the relocated config.
UserWritesCopy ==
    /\ Trouble
    /\ \/ /\ copy[KnownHosts] # Absent
          /\ copy' = [copy EXCEPT ![KnownHosts] = Fresh] /\ UNCHANGED config
       \/ config # NoFile /\ config' = Fresh /\ UNCHANGED copy
    /\ UNCHANGED <<home, db, cmd, lapse, managed>>

\* Between commands the user may replace, edit or remove a managed item.
UserChangesItem ==
    /\ Trouble /\ cmd.op = "idle"
    /\ \E item \in Items, value \in {"absent", "user", "edited"} :
          /\ disk[item] # value /\ (item = "rc" => value = "absent")
          /\ value = "edited" => item = "wrapper" /\ disk[item] = "ours"
          /\ disk' = [disk EXCEPT ![item] = value]
    /\ lapse' = lapse \cup {"user"}
    /\ UNCHANGED <<home, relocated, db, cmd, records>>

Crash ==
    /\ Trouble /\ cmd.op # "idle"
    /\ EndWith("crash")
    /\ UNCHANGED <<home, relocated, db, managed>>

Phase1 ==
    \/ \E f \in Keys : CopyFile(f)
    \/ CopyDone \/ WriteConfig \/ RecordConfig \/ FinishSetup
    \/ InstallWrappers \/ InstallRcBlock \/ SetGitSshCommand
    \/ \E item \in Items : RecordInstall(item)
Phase2 ==
    \/ CheckAll \/ RenameAway \/ VerifyBackup \/ MakeDirectory \/ PlantCanary
    \/ CopyAuthorizedKeys \/ Commit \/ Unplant \/ RenameBack
Restore ==
    \/ RemoveWrappers \/ RemoveRcBlocks \/ RestoreGitSshCommand
    \/ \E item \in Items : RetireUndone(item)
    \/ ChooseBackup \/ MoveAside \/ ReturnBackup \/ UndoAside
    \/ Deactivate \/ FinishRestore
Command == Phase1 \/ Phase2 \/ Restore

Next ==
    \/ \E force \in BOOLEAN : StartSetup(force) \/ StartActivate(force) \/ StartRestore(force)
    \/ Command
    \/ UserWrites \/ UserCreates \/ UserWritesCopy \/ UserChangesItem
    \/ Crash

Spec == Init /\ [][Next]_vars

-----------------------------------------------------------------------------
(* Properties. *)

\* Every variable keeps its shape.
TypeOK ==
    /\ ssh \in Dir
    /\ \A i \in DOMAIN slots : slots[i] \in [kind: {"backup", "aside"}, dir: Dir]
    /\ copy \in [Keys -> Content]
    /\ config \in {NoFile} \cup Content
    /\ db.phase \in Phases /\ db.backup \in 0..Len(slots) /\ db.rows \in BOOLEAN
    /\ cmd.op \in {"idle", "setup", "activate", "restore"}
    /\ cmd.slot \in 0..Len(slots)
    /\ theirs \subseteq 1..born
    /\ lapse \subseteq {"crash", "fatal", "git", "user", "edited"}
    /\ disk \in [Items -> Held]
    /\ \A i \in Items : records[i] \in Seq({"absent", "user", "edited"})

Quiet == cmd.op = "idle"
Orderly == lapse \cap {"crash", "fatal"} = {}

\* "Never deletes real SSH keys": a directory the user's programs made is at
\* all times in exactly one place, whatever failed and wherever a crash fell.
RealKept ==
    \A i \in theirs :
        IF ssh.id = i THEN \A p \in DOMAIN slots : slots[p].dir.id # i
        ELSE \E p \in DOMAIN slots : /\ slots[p].dir.id = i
                                     /\ \A q \in DOMAIN slots \ {p} : slots[q].dir.id # i

\* Nobody edited a canary directory.
AsPlanted == "edited" \notin lapse

\* Activation is all or nothing: when a command has ended, either nothing was
\* moved and nothing is recorded, or the record names the user's directory; and an
\* activation in force has every canary in place that nobody edited.
AllOrNothing ==
    Quiet /\ Orderly =>
        /\ db.backup = 0 => ssh.id \in theirs /\ Backups = {}
        /\ db.phase = "activated" =>
              /\ slots[db.backup].dir.id \in theirs
              /\ AsPlanted => \A i \in DOMAIN Planted : ssh.files[Planted[i]] = Canary

\* Canary rows are active only while Honeypath's directory is in place, with its
\* canaries if nobody edited it: the monitor is never pointed at the user's real files.
RowsMatchDirectory ==
    Quiet /\ Orderly /\ db.rows => ssh.owner = "honeypath" /\ (AsPlanted => IsCanaryDir(ssh))

\* Whenever ~/.ssh is not the user's, restore-ssh-canary would choose a
\* directory that is; also after a crash at any step, a refused or declined
\* restore and a failed rollback, as long as no canary directory was taken
\* for the user's backup.
RestoreFindsReal ==
    /\ Quiet /\ ssh.owner # "user"
    /\ \A i \in DOMAIN slots : slots[i].kind = "backup" => slots[i].dir.owner # "honeypath"
    => Chosen # 0 /\ slots[Chosen].dir.owner = "user"

\* The relocated copy the wrappers use never holds a fake key, unless a crash or a
\* failed rollback left an incomplete canary directory behind, or one was edited: a
\* refused restore then ends the activation all the same, and the next setup takes
\* the directory for the user's.
FakesStayOut == Orderly /\ AsPlanted => \A f \in Keys : copy[f] # Canary

\* An activation is whole: the directories, the record, the canary rows and the
\* relocated copy agree on it.
ActivationWhole == AllOrNothing /\ RowsMatchDirectory /\ FakesStayOut

Commits == db.phase = "prepared" /\ db'.phase = "activated"

\* No activation commits while a relocated key is older than the one it moved
\* away, even if the user's programs write between any two of its steps.
NeverStale ==
    [][Commits => \A f \in Keys : LET theirFile == slots[cmd.slot].dir.files[f] IN
                      theirFile # Absent => copy[f] >= theirFile]_vars

\* Nor while the relocated config is older than the config it moved away.
ConfigNeverStale == [][Commits => config >= slots[cmd.slot].dir.files[Config]]_vars

\* Nothing interfered with what is outside ~/.ssh.
Undisturbed == lapse \subseteq {"edited"}

\* What Honeypath put in place has a row to undo it by.
NothingOrphaned ==
    Quiet /\ Undisturbed => \A i \in Items : disk[i] = "ours" => records[i] # <<>>

\* Running setup any number of times does not make Honeypath forget what
\* core.sshCommand was before the first: no row records its own value.
FirstValueRecorded ==
    Undisturbed =>
        Len(records["git"]) <= 1 /\ "ours" \notin {records["git"][i] : i \in DOMAIN records["git"]}

\* restore-ssh-canary can undo what setup did outside ~/.ssh, and only that.
ChangesUndoable == NothingOrphaned /\ FirstValueRecorded

=============================================================================
