-------------------------- MODULE SSHCanary_proofs --------------------------
(***************************************************************************)
(* Theorems about SSHCanary, for every set of keys, every list of planted  *)
(* canaries and every number of commands, failed steps, crashes and        *)
(* changes by the user.                                                    *)
(*                                                                         *)
(* Control says where each command can be and what it holds there.         *)
(* Owned and Bottom are about the directories: no identity is in two       *)
(* places, and the oldest directory that is not set aside is the user's.   *)
(* Calm describes the installation while no crash and no failed rollback   *)
(* has happened, and what the canaries are while nobody edited them,       *)
(* Faithful what an activation knows of the copy it checked, and Rowed     *)
(* which row stands for which change outside ~/.ssh.                       *)
(***************************************************************************)
EXTENDS SSHCanary, TLAPS, WellFoundedInduction

SetupStages == {"copy", "config", "section", "wrapper", "rc", "git", "finish"}
ActivateStages == {"copy", "config", "section", "check", "rename", "verify", "mkdir",
                   "plant", "commit", "unplant", "back"}
RestoreStages == {"wrapper", "choose", "aside", "return", "unaside", "git", "rc", "done", "row"}
AllStages == {""} \cup SetupStages \cup ActivateStages \cup RestoreStages

Section == [of: {NoFile} \cup Content, read: BOOLEAN]
Commands == [op: {"idle", "setup", "activate", "restore"}, at: AllStages, force: BOOLEAN,
             inv: [Names -> Content], hashes: [Names -> Content], section: Section,
             seen: [Keys -> Content], todo: SUBSET Keys, failed: BOOLEAN, kept: BOOLEAN,
             config: {NoFile} \cup Content, slot: Nat, planted: Nat, mine: Nat,
             wrote: {"none"} \cup Held]
Slot == [kind: {"backup", "aside"}, dir: Dir]
Row == [phase: Phases, backup: Nat, hashes: [Names -> Content], section: Section, rows: BOOLEAN]
Uses == [commands: Nat, trouble: Nat]

Shapes ==
    /\ ssh \in Dir /\ slots \in Seq(Slot)
    /\ copy \in [Keys -> Content] /\ config \in {NoFile} \cup Content
    /\ db \in Row /\ cmd \in Commands /\ used \in Uses
    /\ born \in Nat /\ theirs \subseteq 1 .. born
    /\ lapse \subseteq {"crash", "fatal", "git", "user", "edited"}
    /\ disk \in [Items -> Held] /\ records \in [Items -> Seq({"absent", "user", "edited"})]

-----------------------------------------------------------------------------
(* Control. *)

\* Each command is at one of its own stages.
InPlace ==
    \/ cmd.op = "idle" /\ cmd.at = ""
    \/ cmd.op = "setup" /\ cmd.at \in SetupStages
    \/ cmd.op = "activate" /\ cmd.at \in ActivateStages
    \/ cmd.op = "restore" /\ cmd.at \in RestoreStages

\* The stages of an activation at which the user's directory is in its slot.
Away == {"verify", "mkdir", "plant", "commit", "unplant", "back"}
\* The stages of a restore at which a backup is chosen.
Taking == {"aside", "return", "unaside"}

\* What a command that goes on holds.
Control ==
    /\ InPlace
    /\ cmd.wrote # "none" => cmd.at \in Items
    /\ cmd.wrote = "ours" => cmd.op = "restore"
    /\ cmd.op = "restore" /\ cmd.wrote # "none" => records[cmd.at] # <<>>
    /\ cmd.op = "activate" => /\ db.phase = "prepared" /\ db.backup = 0
                              /\ cmd.mine <= born /\ cmd.mine \notin theirs
    /\ cmd.at \in Away => /\ cmd.slot = Len(slots) /\ cmd.slot # 0
                          /\ slots[cmd.slot].kind = "backup" /\ slots[cmd.slot].dir.id # 0
    /\ cmd.at \in {"copy", "config", "section", "check", "rename", "verify", "mkdir", "wrapper", "choose", "aside"}
          => cmd.mine = 0 /\ cmd.planted = 0
    /\ cmd.at \in {"plant", "commit"} => ssh.id = cmd.mine /\ cmd.mine # 0
    /\ cmd.at \in Taking => cmd.slot \in Backups /\ \A i \in Backups : i <= cmd.slot
    /\ cmd.at \in {"return", "unaside"} /\ cmd.mine # 0 =>
          cmd.mine = Len(slots) /\ slots[cmd.mine].kind = "aside"

\* The row names the newest of the backups.
Recorded ==
    /\ db.backup # 0 => /\ db.backup \in DOMAIN slots /\ slots[db.backup].kind = "backup"
                        /\ \A i \in DOMAIN slots : slots[i].kind = "backup" => i <= db.backup
    /\ db.phase = "activated" => db.backup # 0

-----------------------------------------------------------------------------
(* Directories. *)

Known(d) ==
    /\ d.id <= born /\ (d.id = 0 => d = NoDir)
    /\ (d.owner = "none" <=> d.id = 0) /\ (d.owner = "user" <=> d.id \in theirs)
    /\ d.owner = "user" => \A f \in Names : d.files[f] # Canary

Owned ==
    /\ Known(ssh) /\ \A i \in DOMAIN slots : Known(slots[i].dir)
    /\ \A i \in DOMAIN slots : slots[i].dir.id # 0 => slots[i].dir.id # ssh.id
    /\ \A i, j \in DOMAIN slots : i # j /\ slots[i].dir.id # 0 => slots[i].dir.id # slots[j].dir.id
    /\ \A k \in theirs : ssh.id = k \/ \E i \in DOMAIN slots : slots[i].dir.id = k

\* The oldest of the backups and ~/.ssh that is there is the user's.
Bottom ==
    \/ Backups = {} /\ ssh.owner = "user"
    \/ \E i \in Backups : slots[i].dir.owner = "user" /\ \A j \in Backups : i <= j

-----------------------------------------------------------------------------
(* While nothing crashed and no rollback failed. *)

Whole(d) == \A i \in DOMAIN Planted : d.files[Planted[i]] = Canary

NoFakes ==
    /\ \A f \in Keys : copy[f] # Canary
    /\ cmd.op \in {"setup", "activate"} => \A f \in Keys : cmd.inv[f] # Canary

\* Nothing was ever moved.
Untouched ==
    /\ db.backup = 0 /\ ~db.rows
    /\ ssh.owner = "user" /\ Backups = {} /\ cmd.at \notin Away
\* An activation has moved the user's directory and not committed.
Moving ==
    /\ db.backup = 0 /\ ~db.rows
    /\ cmd.at \in Away /\ Backups = {cmd.slot} /\ slots[cmd.slot].dir.owner = "user"
    /\ cmd.at \in {"plant", "commit"} =>
          /\ cmd.planted <= Len(Planted)
          /\ AsPlanted => \A i \in 1 .. cmd.planted : ssh.files[Planted[i]] = Canary
    /\ cmd.at = "commit" => cmd.planted = Len(Planted)
\* The canaries are in place.
Installed ==
    /\ db.backup # 0 /\ Backups = {db.backup} /\ slots[db.backup].dir.owner = "user"
    /\ AsPlanted => Whole(ssh)
    /\ ssh.id # 0 /\ ssh.owner # "user" /\ cmd.at \notin {"return", "unaside"}
\* A restore has moved the canaries aside.
Returning ==
    /\ db.backup # 0 /\ Backups = {db.backup} /\ slots[db.backup].dir.owner = "user"
    /\ cmd.at \in {"return", "unaside"} /\ cmd.slot = db.backup
    /\ AsPlanted => Whole(slots[cmd.mine].dir)
    /\ cmd.mine # 0 /\ slots[cmd.mine].dir.id # 0 /\ slots[cmd.mine].dir.owner # "user"
\* The user's directory is back.
Returned ==
    /\ db.backup # 0 /\ Backups = {} /\ ssh.owner = "user"
    /\ db.phase = "activated" => cmd.op = "restore" /\ cmd.at \in {"git", "rc", "done", "row"}
    /\ db.rows => cmd.op = "restore" /\ cmd.at \in {"git", "rc", "done"}

Situation == Untouched \/ Moving \/ Installed \/ Returning \/ Returned

Calm == Orderly => (AsPlanted => NoFakes) /\ Situation

-----------------------------------------------------------------------------
(* Contents. *)

Old(files) == \A f \in Names : files[f] <= used.trouble + 1

\* What the user's programs write is newer than all there is.
Dated == Old(ssh.files) /\ Old(cmd.inv) /\ \A i \in DOMAIN slots : Old(slots[i].dir.files)

\* What was verified after the rename stays so.
Faithful ==
    cmd.at \in {"mkdir", "plant", "commit"} =>
        /\ slots[cmd.slot].dir.files = cmd.inv
        /\ \A f \in Keys : cmd.inv[f] # Absent => copy[f] >= cmd.inv[f]

-----------------------------------------------------------------------------
(* Changes outside ~/.ssh. *)

Between(item) == cmd.at = item /\ cmd.wrote # "none"

Rowed ==
    Undisturbed => \A item \in Items :
        /\ Len(records[item]) <= 1
        /\ ~Between(item) => (records[item] # <<>> <=> disk[item] = "ours")
        /\ Between(item) /\ cmd.op = "setup" => records[item] = <<>> /\ disk[item] = "ours"
        /\ Between(item) /\ cmd.op = "restore" =>
              records[item] # <<>> /\ (disk[item] = "ours" => item = "git")

Slotted == cmd.slot <= Len(slots)

SSHInv == Shapes /\ Control /\ Slotted /\ Recorded /\ Owned /\ Bottom /\ Calm /\ Dated /\ Faithful /\ Rowed

-----------------------------------------------------------------------------
(* What each step does, field by field. *)

\* A command ends, goes to another stage, or starts.
Ends ==
    /\ cmd' \in Commands /\ cmd'.op = "idle" /\ cmd'.at = "" /\ cmd'.wrote = "none"
    /\ cmd'.inv = Empty /\ cmd'.slot = 0
Carries ==
    /\ cmd' \in Commands /\ cmd'.op = cmd.op /\ cmd'.inv = cmd.inv
    /\ cmd'.slot = cmd.slot /\ cmd'.planted = cmd.planted /\ cmd'.mine = cmd.mine
MovesTo(stage) == Carries /\ cmd'.at = stage /\ cmd'.wrote = cmd.wrote
Starts(op, stage) ==
    /\ cmd.op = "idle" /\ cmd' \in Commands /\ cmd'.op = op /\ cmd'.at = stage
    /\ cmd'.inv = ssh.files
    /\ cmd'.slot = 0 /\ cmd'.planted = 0 /\ cmd'.mine = 0 /\ cmd'.wrote = "none"

\* The bounds used never shrink.
Later == used' \in Uses /\ used.trouble <= used'.trouble

LEMMA NamesKnown ==
    ASSUME SSHCanaryAssumption
    PROVE  /\ KnownHosts \in Names /\ KnownHosts \in Keys /\ Config \in Names /\ Keys \subseteq Names
           /\ AuthorizedKeys \in Names /\ KnownHosts # Config
BY DEF SSHCanaryAssumption, Names

\* The identities and contents of what is not there.
LEMMA Nothing ==
    /\ Absent \in Content /\ Canary \in Content /\ EmptyFile \in Content /\ Nat \subseteq Content
    /\ Empty \in [Names -> Content] /\ NoCopy \in [Keys -> Content]
    /\ NoDir \in Dir /\ NoDir.id = 0 /\ NoDir.owner = "none" /\ NoDir.files = Empty
    /\ \A f \in Names : Empty[f] = Absent
    /\ NoSection \in Section /\ NoFile \notin Content /\ Absent # Canary
BY DEF Absent, Canary, EmptyFile, NoFile, Content, Empty, NoCopy, NoDir, Dir, NoSection, Section

LEMMA IdleKnown ==
    /\ Idle \in Commands /\ Idle.op = "idle" /\ Idle.at = "" /\ Idle.wrote = "none" /\ Idle.inv = Empty
    /\ Idle.slot = 0 /\ Idle.planted = 0 /\ Idle.mine = 0
BY Nothing DEF Idle, Commands, AllStages, Held

LEMMA EndEnds == ASSUME End PROVE Ends
BY IdleKnown DEF End, Ends

LEMMA GotoMoves ==
    ASSUME cmd \in Commands, NEW stage \in AllStages, Goto(stage)
    PROVE  MovesTo(stage)
BY DEF Goto, MovesTo, Carries, Commands

LEMMA Uses1 ==
    ASSUME used \in Uses
    PROVE  (Fault => Later) /\ (NoFault => Later) /\ (Trouble => Later /\ used'.trouble = used.trouble + 1)
<1>1. used.trouble \in Nat /\ used.commands \in Nat BY DEF Uses
<1>2. ASSUME Trouble PROVE Later /\ used'.trouble = used.trouble + 1
    <2>1. used' = [used EXCEPT !.trouble = @ + 1] BY <1>2 DEF Trouble
    <2>2. used'.trouble = used.trouble + 1 /\ used'.commands = used.commands /\ used' \in Uses BY <2>1, <1>1 DEF Uses
    <2>3. used.trouble <= used.trouble + 1 BY <1>1
    <2> QED BY <2>2, <2>3 DEF Later
<1>3. ASSUME NoFault PROVE Later BY <1>3, <1>1 DEF NoFault, Later
<1> QED BY <1>2, <1>3 DEF Fault

\* A command starts with what it finds at ~/.ssh.
LEMMA StartsAt ==
    ASSUME Shapes, NEW op \in {"setup", "activate", "restore"}, NEW stage \in AllStages,
           NEW force \in BOOLEAN, StartAt(op, stage, force)
    PROVE  /\ Starts(op, stage) /\ Later
           /\ UNCHANGED <<ssh, slots, born, theirs, copy, config, db, lapse, disk, records>>
<1>1. used' \in Uses /\ used'.trouble = used.trouble /\ used.trouble \in Nat
    <2>1. used' = [used EXCEPT !.commands = @ + 1] /\ used \in Uses BY DEF StartAt, Shapes
    <2> QED BY <2>1 DEF Uses
<1> DEFINE todo == IF op = "restore" THEN {} ELSE ToCopy(ssh.files, db.hashes) \cup Conflicts(ssh.files, db.hashes)
<1>2. /\ ssh.files \in [Names -> Content] /\ db.hashes \in [Names -> Content] /\ db.section \in Section
      /\ copy \in [Keys -> Content] BY DEF Shapes, Dir, Row
<1>3. todo \subseteq Keys BY DEF ToCopy, Conflicts
<1>4. cmd' = [Idle EXCEPT !.op = op, !.at = stage, !.force = force, !.inv = ssh.files,
              !.hashes = db.hashes, !.section = db.section, !.seen = copy, !.todo = todo]
    BY DEF StartAt, InventoryOf
<1> HIDE DEF todo
<1>5. Starts(op, stage)
    <2>1. cmd.op = "idle" BY DEF StartAt
    <2>2. Idle \in Commands /\ Idle.wrote = "none" /\ Idle.slot = 0 /\ Idle.planted = 0 /\ Idle.mine = 0 BY IdleKnown
    <2>3. cmd' \in Commands BY <1>2, <1>3, <1>4, <2>2 DEF Commands
    <2> QED BY <1>4, <2>1, <2>2, <2>3 DEF Starts, Commands
<1> QED BY <1>1, <1>5 DEF StartAt, Later, home, relocated, managed

-----------------------------------------------------------------------------
\* Starting a command.
LEMMA StartSetupDoes ==
    ASSUME Shapes, NEW force \in BOOLEAN, StartSetup(force)
    PROVE  /\ Starts("setup", "copy") /\ Later /\ db.phase # "activated" /\ ~IsCanaryDir(ssh)
           /\ UNCHANGED <<ssh, slots, born, theirs, copy, config, db, lapse, disk, records>>
<1>1. "copy" \in AllStages BY DEF AllStages, SetupStages
<1> QED BY <1>1, StartsAt DEF StartSetup

LEMMA StartActivateDoes ==
    ASSUME Shapes, NEW force \in BOOLEAN, StartActivate(force)
    PROVE  /\ Starts("activate", "copy") /\ Later /\ db.phase = "prepared" /\ db.backup = 0 /\ ~IsCanaryDir(ssh)
           /\ UNCHANGED <<ssh, slots, born, theirs, copy, config, db, lapse, disk, records>>
<1>1. "copy" \in AllStages BY DEF AllStages, SetupStages
<1> QED BY <1>1, StartsAt DEF StartActivate

LEMMA StartRestoreDoes ==
    ASSUME Shapes, NEW force \in BOOLEAN, StartRestore(force)
    PROVE  /\ Starts("restore", "wrapper") /\ Later
           /\ UNCHANGED <<ssh, slots, born, theirs, copy, config, db, lapse, disk, records>>
<1>1. "wrapper" \in AllStages BY DEF AllStages, SetupStages
<1> QED BY <1>1, StartsAt DEF StartRestore

\* Phase 1, and what activation repeats of it.
LEMMA CopyFileDoes ==
    ASSUME Shapes, Control, NEW f \in Keys, CopyFile(f)
    PROVE  /\ cmd.at = "copy" /\ MovesTo("copy") /\ Later
           /\ copy' = copy \/ copy' = [copy EXCEPT ![f] = cmd.inv[f]]
           /\ UNCHANGED <<ssh, slots, born, theirs, config, db, lapse, disk, records>>
<1>1. /\ cmd.at = "copy"
      /\ \/ copy' = copy \/ copy' = [copy EXCEPT ![f] = cmd.inv[f]]
      /\ \/ cmd' = [cmd EXCEPT !.todo = @ \ {f}]
         \/ cmd' = [cmd EXCEPT !.todo = @ \ {f}, !.failed = TRUE]

      /\ Fault \/ NoFault
    BY DEF CopyFile
<1>2. cmd.todo \ {f} \in SUBSET Keys BY DEF Shapes, Commands
<1>3. MovesTo("copy")
    <2>1. cmd \in Commands BY DEF Shapes
    <2> QED BY <2>1, <1>1, <1>2 DEF MovesTo, Carries, Commands
<1> QED BY <1>1, <1>3, Uses1 DEF CopyFile, home, managed, Shapes

LEMMA CopyDoneDoes ==
    ASSUME Shapes, Control, CopyDone
    PROVE  /\ cmd.at = "copy" /\ Later
           /\ Ends \/ MovesTo("config")
           /\ copy' = copy \/ copy' = Seeded(copy)
           /\ UNCHANGED <<ssh, slots, born, theirs, config, db, lapse, disk, records>>
<1>1. /\ cmd.at = "copy" /\ NoFault
      /\ \/ copy' = copy \/ copy' = Seeded(copy)
      /\ End \/ cmd' = [cmd EXCEPT !.at = "config", !.seen = NoCopy, !.failed = FALSE]
    BY DEF CopyDone, Copied
<1>2. ASSUME cmd' = [cmd EXCEPT !.at = "config", !.seen = NoCopy, !.failed = FALSE] PROVE MovesTo("config")
    <2>1. cmd \in Commands /\ NoCopy \in [Keys -> Content] /\ "config" \in AllStages
        BY Nothing DEF Shapes, AllStages, SetupStages
    <2> QED BY <2>1, <1>2 DEF MovesTo, Carries, Commands
<1> QED BY <1>1, <1>2, EndEnds, Uses1 DEF CopyDone, home, managed, Shapes

LEMMA WriteConfigDoes ==
    ASSUME SSHCanaryAssumption, Shapes, Control, WriteConfig
    PROVE  /\ cmd.at = "config" /\ Later
           /\ Ends \/ MovesTo("section")
           /\ config' \in {NoFile} \cup Content
           /\ UNCHANGED <<ssh, slots, born, theirs, copy, db, lapse, disk, records>>
<1>1. /\ cmd.at = "config"
      /\ Fault \/ NoFault
      /\ config' \in {config, ssh.files[Config]}
      /\ End \/ cmd' = [cmd EXCEPT !.at = "section", !.config = config', !.kept = KeepsSection(cmd.force)]
    BY DEF WriteConfig
<1>2. config' \in {NoFile} \cup Content BY <1>1, NamesKnown DEF Shapes, Dir
<1>3. ASSUME cmd' = [cmd EXCEPT !.at = "section", !.config = config', !.kept = KeepsSection(cmd.force)]
      PROVE  MovesTo("section")
    <2> DEFINE keeps == KeepsSection(cmd.force)
    <2>1. keeps \in BOOLEAN BY DEF KeepsSection
    <2>2. cmd' = [cmd EXCEPT !.at = "section", !.config = config', !.kept = keeps] BY <1>3
    <2> HIDE DEF keeps
    <2>3. cmd \in Commands /\ "section" \in AllStages BY DEF Shapes, AllStages, SetupStages
    <2> QED BY <2>1, <2>2, <2>3, <1>2 DEF MovesTo, Carries, Commands
<1> QED BY <1>1, <1>2, <1>3, EndEnds, Uses1 DEF WriteConfig, home, managed, Shapes

LEMMA RecordConfigDoes ==
    ASSUME Shapes, Control, RecordConfig
    PROVE  /\ cmd.at = "section" /\ Later
           /\ \/ Ends
              \/ cmd.op = "setup" /\ MovesTo("wrapper")
              \/ cmd.op = "activate" /\ MovesTo("check")
           /\ db' \in Row /\ db'.backup = db.backup /\ db'.rows = db.rows
           /\ db'.phase = IF db.phase = "none" THEN "prepared" ELSE db.phase
           /\ UNCHANGED <<ssh, slots, born, theirs, copy, config, lapse, disk, records>>
<1>1. /\ cmd.at = "section"
      /\ Fault \/ NoFault
      /\ End \/ Goto(IF cmd.op = "setup" THEN "wrapper" ELSE "check")
      /\ db' = [db EXCEPT !.phase = IF db.phase = "none" THEN "prepared" ELSE db.phase, !.hashes = db.hashes,
                          !.section = [of |-> cmd.config, read |-> cmd.kept]]
    BY DEF RecordConfig, Upsert
<1>2. cmd \in Commands /\ db \in Row /\ "wrapper" \in AllStages /\ "check" \in AllStages
    BY DEF Shapes, AllStages, SetupStages, ActivateStages
<1>3. cmd.op \in {"setup", "activate"}
    <2>1. cmd.at = "section" /\ InPlace BY <1>1 DEF Control
    <2> QED BY <2>1 DEF InPlace, RestoreStages
<1>4. End \/ (cmd.op = "setup" /\ MovesTo("wrapper")) \/ (cmd.op = "activate" /\ MovesTo("check"))
    BY <1>1, <1>2, <1>3, GotoMoves
<1>5. [of |-> cmd.config, read |-> cmd.kept] \in Section BY <1>2 DEF Commands, Section
<1>6. /\ db' \in Row /\ db'.backup = db.backup /\ db'.rows = db.rows
      /\ db'.phase = IF db.phase = "none" THEN "prepared" ELSE db.phase
    BY <1>1, <1>2, <1>5 DEF Row, Phases
<1> QED BY <1>1, <1>4, <1>6, EndEnds, Uses1 DEF RecordConfig, home, relocated, managed, Shapes

LEMMA NextStage ==
    ASSUME NEW item \in Items
    PROVE  NextItem[item] \in SetupStages /\ NextItem[item] \in {"rc", "git", "finish"}
           /\ NextItem[item] \in AllStages
<1>1. /\ NextItem["wrapper"] = "rc" /\ NextItem["rc"] = "git" /\ NextItem["git"] = "finish" BY DEF NextItem
<1>2. item = "wrapper" \/ item = "rc" \/ item = "git" BY DEF Items
<1>3. NextItem[item] \in {"rc", "git", "finish"} BY <1>1, <1>2
<1> QED BY <1>3 DEF SetupStages, AllStages

\* An item is installed only where something else is.
LEMMA InstallDoes ==
    ASSUME Shapes, Control, NEW item \in Items, Install(item)
    PROVE  /\ cmd.op = "setup" /\ cmd.at = item /\ cmd.wrote = "none" /\ Later
           /\ \/ (Ends \/ MovesTo(NextItem[item])) /\ disk' = disk
              \/ /\ Carries /\ cmd'.at = item /\ cmd'.wrote = disk[item] /\ disk[item] # "ours"
                 /\ disk' = [disk EXCEPT ![item] = "ours"]
           /\ UNCHANGED <<ssh, slots, born, theirs, copy, config, db, lapse, records>>
<1>1. /\ cmd.op = "setup" /\ cmd.at = item /\ cmd.wrote = "none"
      /\ Fault \/ NoFault
      /\ \/ (End \/ Goto(NextItem[item])) /\ disk' = disk
         \/ /\ cmd' = [cmd EXCEPT !.wrote = disk[item]] /\ disk[item] # "ours"
            /\ disk' = [disk EXCEPT ![item] = "ours"]
    BY DEF Install, InstallSkips, WriteItem
<1>2. cmd \in Commands /\ disk[item] \in Held BY DEF Shapes
<1>3. ASSUME cmd' = [cmd EXCEPT !.wrote = disk[item]]
      PROVE  Carries /\ cmd'.at = item /\ cmd'.wrote = disk[item]
    <2>1. cmd' \in Commands BY <1>2, <1>3 DEF Commands
    <2>2. cmd.at = item BY <1>1
    <2> QED BY <1>2, <1>3, <2>1, <2>2 DEF Carries, Commands
<1>4. \/ (Ends \/ MovesTo(NextItem[item])) /\ disk' = disk
      \/ /\ Carries /\ cmd'.at = item /\ cmd'.wrote = disk[item] /\ disk[item] # "ours"
         /\ disk' = [disk EXCEPT ![item] = "ours"]
    BY <1>1, <1>2, <1>3, EndEnds, GotoMoves, NextStage
<1> QED BY <1>1, <1>4, Uses1 DEF Install, home, relocated, Shapes

LEMMA RecordInstallDoes ==
    ASSUME Shapes, Control, NEW item \in Items, RecordInstall(item)
    PROVE  /\ cmd.op = "setup" /\ cmd.at = item /\ cmd.wrote \in {"absent", "user", "edited"} /\ Later
           /\ Carries /\ cmd'.at = NextItem[item] /\ cmd'.wrote = "none"
           /\ records' = [records EXCEPT ![item] = <<cmd.wrote>> \o @]
           /\ UNCHANGED <<ssh, slots, born, theirs, copy, config, db, lapse, disk>>
<1>1. /\ cmd.op = "setup" /\ cmd.at = item /\ cmd.wrote # "none" /\ NoFault
      /\ cmd' = [cmd EXCEPT !.at = NextItem[item], !.wrote = "none"]
      /\ records' = [records EXCEPT ![item] = <<cmd.wrote>> \o @]
    BY DEF RecordInstall, RecordItem
<1>2. cmd \in Commands BY DEF Shapes
<1>3. cmd.wrote \in {"absent", "user", "edited"} BY <1>1, <1>2 DEF Control, Commands, Held
<1>4. Carries /\ cmd'.at = NextItem[item] /\ cmd'.wrote = "none"
    BY <1>1, <1>2, NextStage DEF Carries, Commands
<1> QED BY <1>1, <1>3, <1>4, Uses1 DEF RecordInstall, home, relocated, Shapes

LEMMA FinishSetupDoes ==
    ASSUME Shapes, Control, FinishSetup
    PROVE  /\ cmd.op = "setup" /\ cmd.at = "finish" /\ Ends /\ Later
           /\ db' \in Row /\ db'.backup = db.backup /\ db'.rows = db.rows
           /\ db.phase # "activated" /\ db'.phase = "prepared"
           /\ UNCHANGED <<ssh, slots, born, theirs, copy, config, lapse, disk, records>>
<1> DEFINE hashes == [f \in Names |-> IF cmd.inv[f] # Absent THEN cmd.inv[f] ELSE cmd.hashes[f]]
<1>1. /\ cmd.at = "finish" /\ NoFault /\ End /\ db.phase # "activated"
      /\ db' = [db EXCEPT !.phase = "prepared", !.hashes = hashes, !.section = cmd.section]
    BY DEF FinishSetup, Upsert
<1>2. cmd \in Commands /\ db \in Row BY DEF Shapes
<1>3. cmd.op = "setup" BY <1>1 DEF Control, InPlace, ActivateStages, RestoreStages
<1>4. hashes \in [Names -> Content] /\ cmd.section \in Section BY <1>2 DEF Commands
<1> HIDE DEF hashes
<1>5. /\ db' \in Row /\ db'.backup = db.backup /\ db'.rows = db.rows /\ db'.phase = "prepared"
    BY <1>1, <1>2, <1>4 DEF Row, Phases
<1> QED BY <1>1, <1>3, <1>5, EndEnds, Uses1 DEF FinishSetup, home, relocated, managed, Shapes

\* Phase 2.
LEMMA CheckAllDoes ==
    ASSUME Shapes, Control, CheckAll
    PROVE  /\ cmd.at = "check" /\ Later
           /\ Ends \/ (MovesTo("rename") /\ ~IsCanaryDir(ssh))
           /\ UNCHANGED <<ssh, slots, born, theirs, copy, config, db, lapse, disk, records>>
<1>1. /\ cmd.at = "check" /\ NoFault
      /\ End \/ (cmd' = [cmd EXCEPT !.at = "rename", !.config = config] /\ ~IsCanaryDir(ssh))
    BY DEF CheckAll
<1>2. ASSUME cmd' = [cmd EXCEPT !.at = "rename", !.config = config] PROVE MovesTo("rename")
    <2>1. cmd \in Commands /\ config \in {NoFile} \cup Content /\ "rename" \in AllStages
        BY DEF Shapes, AllStages, ActivateStages
    <2> QED BY <2>1, <1>2 DEF MovesTo, Carries, Commands
<1> QED BY <1>1, <1>2, EndEnds, Uses1 DEF CheckAll, home, relocated, managed, Shapes

LEMMA RenameAwayDoes ==
    ASSUME Shapes, Control, RenameAway
    PROVE  /\ cmd.at = "rename" /\ Later
           /\ \/ Ends /\ UNCHANGED <<ssh, slots>>
              \/ /\ ssh # NoDir /\ ssh' = NoDir
                 /\ slots' = Append(slots, [kind |-> "backup", dir |-> ssh])
                 /\ cmd' \in Commands /\ cmd'.op = cmd.op /\ cmd'.at = "verify" /\ cmd'.inv = cmd.inv
                 /\ cmd'.slot = Len(slots) + 1 /\ cmd'.planted = cmd.planted /\ cmd'.mine = cmd.mine
                 /\ cmd'.wrote = cmd.wrote
           /\ UNCHANGED <<born, theirs, copy, config, db, lapse, disk, records>>
<1>1. /\ cmd.at = "rename"
      /\ Fault \/ NoFault
      /\ \/ End /\ UNCHANGED <<ssh, slots>>
         \/ /\ ssh # NoDir /\ ssh' = NoDir
            /\ slots' = Append(slots, [kind |-> "backup", dir |-> ssh])
            /\ cmd' = [cmd EXCEPT !.at = "verify", !.slot = Len(slots')]
    BY DEF RenameAway
<1>2. ASSUME slots' = Append(slots, [kind |-> "backup", dir |-> ssh]) PROVE Len(slots') = Len(slots) + 1 /\ Len(slots) + 1 \in Nat
    <2>1. slots \in Seq(Slot) /\ [kind |-> "backup", dir |-> ssh] \in Slot BY DEF Shapes, Slot
    <2> QED BY <2>1, <1>2
<1>3. ASSUME cmd' = [cmd EXCEPT !.at = "verify", !.slot = Len(slots')], Len(slots') = Len(slots) + 1, Len(slots) + 1 \in Nat
      PROVE  /\ cmd' \in Commands /\ cmd'.op = cmd.op /\ cmd'.at = "verify" /\ cmd'.inv = cmd.inv
             /\ cmd'.slot = Len(slots) + 1 /\ cmd'.planted = cmd.planted /\ cmd'.mine = cmd.mine
             /\ cmd'.wrote = cmd.wrote
    <2>1. cmd \in Commands /\ "verify" \in AllStages BY DEF Shapes, AllStages, ActivateStages
    <2>2. cmd' = [cmd EXCEPT !.at = "verify", !.slot = Len(slots) + 1] BY <1>3
    <2> QED BY <2>1, <2>2, <1>3 DEF Commands
<1> QED BY <1>1, <1>2, <1>3, EndEnds, Uses1 DEF RenameAway, relocated, managed, Shapes

LEMMA VerifyBackupDoes ==
    ASSUME Shapes, Control, VerifyBackup
    PROVE  /\ cmd.at = "verify" /\ Later
           /\ MovesTo("unplant") \/ (MovesTo("mkdir") /\ cmd.inv = slots[cmd.slot].dir.files /\ CopyMatches(cmd.inv))
           /\ UNCHANGED <<ssh, slots, born, theirs, copy, config, db, lapse, disk, records>>
<1>1. /\ cmd.at = "verify"
      /\ Fault \/ NoFault
      /\ Goto("unplant") \/ (Goto("mkdir") /\ BackupVerified)
    BY DEF VerifyBackup
<1>2. cmd \in Commands /\ "unplant" \in AllStages /\ "mkdir" \in AllStages BY DEF Shapes, AllStages, ActivateStages
<1>3. BackupVerified => cmd.inv = slots[cmd.slot].dir.files /\ CopyMatches(cmd.inv)
    BY DEF BackupVerified, Unchanged, InventoryOf
<1> QED BY <1>1, <1>2, <1>3, GotoMoves, Uses1 DEF VerifyBackup, home, relocated, managed, Shapes

LEMMA MakeDirectoryDoes ==
    ASSUME Shapes, Control, MakeDirectory
    PROVE  /\ cmd.at = "mkdir" /\ Later
           /\ \/ MovesTo("unplant") /\ UNCHANGED <<ssh, born>>
              \/ /\ ssh = NoDir /\ born' = born + 1
                 /\ ssh' \in Dir /\ ssh'.id = born + 1 /\ ssh'.owner = "honeypath" /\ ssh'.files = Empty
                 /\ cmd' \in Commands /\ cmd'.op = cmd.op /\ cmd'.at = "plant" /\ cmd'.inv = cmd.inv
                 /\ cmd'.slot = cmd.slot /\ cmd'.planted = cmd.planted /\ cmd'.mine = born + 1
                 /\ cmd'.wrote = cmd.wrote
           /\ UNCHANGED <<slots, theirs, copy, config, db, lapse, disk, records>>
<1>1. /\ cmd.at = "mkdir"
      /\ Fault \/ NoFault
      /\ \/ Goto("unplant") /\ UNCHANGED <<ssh, born>>
         \/ /\ ssh = NoDir /\ born' = born + 1
            /\ ssh' = [id |-> born + 1, owner |-> "honeypath", files |-> Empty]
            /\ cmd' = [cmd EXCEPT !.at = "plant", !.mine = born + 1]
    BY DEF MakeDirectory
<1>2. cmd \in Commands /\ "unplant" \in AllStages /\ "plant" \in AllStages BY DEF Shapes, AllStages, ActivateStages
<1>3. born + 1 \in Nat BY DEF Shapes
<1>4. ASSUME cmd' = [cmd EXCEPT !.at = "plant", !.mine = born + 1]
      PROVE  /\ cmd' \in Commands /\ cmd'.op = cmd.op /\ cmd'.at = "plant" /\ cmd'.inv = cmd.inv
             /\ cmd'.slot = cmd.slot /\ cmd'.planted = cmd.planted /\ cmd'.mine = born + 1
             /\ cmd'.wrote = cmd.wrote
    BY <1>2, <1>3, <1>4 DEF Commands
<1>5. [id |-> born + 1, owner |-> "honeypath", files |-> Empty] \in Dir BY <1>3, Nothing DEF Dir
<1> QED BY <1>1, <1>2, <1>4, <1>5, GotoMoves, Uses1 DEF MakeDirectory, relocated, managed, Shapes

LEMMA PlantCanaryDoes ==
    ASSUME SSHCanaryAssumption, Shapes, Control, PlantCanary
    PROVE  /\ cmd.at = "plant" /\ Later /\ cmd.planted < Len(Planted)
           /\ \/ MovesTo("unplant") /\ ssh' = ssh
              \/ /\ cmd.planted + 1 \in DOMAIN Planted /\ Planted[cmd.planted + 1] \in Names
                 /\ ssh' = [ssh EXCEPT !.files[Planted[cmd.planted + 1]] = Canary]
                 /\ cmd' \in Commands /\ cmd'.op = cmd.op /\ cmd'.at = "plant" /\ cmd'.inv = cmd.inv
                 /\ cmd'.slot = cmd.slot /\ cmd'.planted = cmd.planted + 1 /\ cmd'.mine = cmd.mine
                 /\ cmd'.wrote = cmd.wrote
           /\ UNCHANGED <<slots, born, theirs, copy, config, db, lapse, disk, records>>
<1>1. /\ cmd.at = "plant" /\ cmd.planted < Len(Planted)
      /\ Fault \/ NoFault
      /\ \/ Goto("unplant") /\ ssh' = ssh
         \/ /\ ssh' = [ssh EXCEPT !.files[Planted[cmd.planted + 1]] = Canary]
            /\ cmd' = [cmd EXCEPT !.planted = @ + 1]
    BY DEF PlantCanary
<1>2. cmd \in Commands /\ "unplant" \in AllStages BY DEF Shapes, AllStages, ActivateStages
<1>3. cmd.planted \in Nat /\ cmd.planted + 1 \in Nat BY <1>2 DEF Commands
<1>4. cmd.planted + 1 \in DOMAIN Planted /\ Planted[cmd.planted + 1] \in Names
    <2>1. Planted \in Seq(Keys \cup {Config}) BY DEF SSHCanaryAssumption
    <2>2. Len(Planted) \in Nat /\ DOMAIN Planted = 1 .. Len(Planted) /\ \A i \in DOMAIN Planted : Planted[i] \in Keys \cup {Config}
        BY <2>1
    <2>3. cmd.planted + 1 \in DOMAIN Planted BY <2>2, <1>1, <1>3
    <2> QED BY <2>2, <2>3 DEF Names
<1>5. ASSUME cmd' = [cmd EXCEPT !.planted = @ + 1]
      PROVE  /\ cmd' \in Commands /\ cmd'.op = cmd.op /\ cmd'.at = cmd.at /\ cmd'.inv = cmd.inv
             /\ cmd'.slot = cmd.slot /\ cmd'.planted = cmd.planted + 1 /\ cmd'.mine = cmd.mine
             /\ cmd'.wrote = cmd.wrote
    BY <1>2, <1>3, <1>5 DEF Commands
<1> QED BY <1>1, <1>2, <1>4, <1>5, GotoMoves, Uses1 DEF PlantCanary, relocated, managed, Shapes

LEMMA CopyAuthorizedKeysDoes ==
    ASSUME Shapes, Control, CopyAuthorizedKeys
    PROVE  /\ cmd.at = "plant" /\ Later /\ cmd.planted = Len(Planted)
           /\ \/ MovesTo("commit") \/ MovesTo("unplant")
           /\ \/ ssh' = ssh
              \/ ssh' = [ssh EXCEPT !.files[AuthorizedKeys] = slots[cmd.slot].dir.files[AuthorizedKeys]]
           /\ UNCHANGED <<slots, born, theirs, copy, config, db, lapse, disk, records>>
<1>1. /\ cmd.at = "plant" /\ cmd.planted = Len(Planted)
      /\ Fault \/ NoFault
      /\ Goto("commit") \/ Goto("unplant")
      /\ \/ ssh' = ssh
         \/ ssh' = [ssh EXCEPT !.files[AuthorizedKeys] = slots[cmd.slot].dir.files[AuthorizedKeys]]
    BY DEF CopyAuthorizedKeys
<1>2. cmd \in Commands /\ "unplant" \in AllStages /\ "commit" \in AllStages BY DEF Shapes, AllStages, ActivateStages
<1> QED BY <1>1, <1>2, GotoMoves, Uses1 DEF CopyAuthorizedKeys, relocated, managed, Shapes

LEMMA CommitDoes ==
    ASSUME Shapes, Control, Commit
    PROVE  /\ cmd.at = "commit" /\ Later
           /\ \/ MovesTo("unplant") /\ db' = db
              \/ /\ Ends /\ db' \in Row /\ db'.phase = "activated" /\ db'.backup = cmd.slot
           /\ UNCHANGED <<ssh, slots, born, theirs, copy, config, lapse, disk, records>>
<1>1. /\ cmd.at = "commit"
      /\ Fault \/ NoFault
      /\ \/ Goto("unplant") /\ db' = db
         \/ End /\ db' = [db EXCEPT !.phase = "activated", !.backup = cmd.slot, !.rows = TRUE]
    BY DEF Commit
<1>2. cmd \in Commands /\ "unplant" \in AllStages /\ db \in Row BY DEF Shapes, AllStages, ActivateStages
<1>3. cmd.slot \in Nat BY <1>2 DEF Commands
<1>4. db' = [db EXCEPT !.phase = "activated", !.backup = cmd.slot, !.rows = TRUE]
      => db' \in Row /\ db'.phase = "activated" /\ db'.backup = cmd.slot
    BY <1>2, <1>3 DEF Row, Phases
<1> QED BY <1>1, <1>2, <1>4, EndEnds, GotoMoves, Uses1 DEF Commit, home, relocated, managed, Shapes

LEMMA UnplantDoes ==
    ASSUME Shapes, Control, Unplant
    PROVE  /\ cmd.at = "unplant" /\ Later
           /\ \/ /\ cmd.mine # 0 /\ ssh.id = cmd.mine /\ cmd' = cmd /\ lapse' = lapse
                 /\ \E f \in Names : ssh' = [ssh EXCEPT !.files[f] = Absent]
              \/ /\ cmd.mine # 0 /\ ssh.id = cmd.mine
                 /\ ssh' = NoDir /\ MovesTo("back") /\ lapse' = lapse
              \/ /\ ssh = NoDir /\ ssh' = ssh /\ MovesTo("back") /\ lapse' = lapse
              \/ Ends /\ lapse' = lapse \cup {"fatal"} /\ ssh' = ssh
           /\ UNCHANGED <<slots, born, theirs, copy, config, db, disk, records>>
<1>1. /\ cmd.at = "unplant"
      /\ Fault \/ NoFault
      /\ \/ /\ cmd.mine # 0 /\ ssh.id = cmd.mine /\ cmd' = cmd /\ lapse' = lapse
            /\ \E f \in Names : ssh' = [ssh EXCEPT !.files[f] = Absent]
         \/ /\ cmd.mine # 0 /\ ssh.id = cmd.mine
            /\ ssh' = NoDir /\ Goto("back") /\ lapse' = lapse
         \/ /\ ssh = NoDir /\ ssh' = ssh /\ Goto("back") /\ lapse' = lapse
         \/ End /\ lapse' = lapse \cup {"fatal"} /\ ssh' = ssh
    BY DEF Unplant, EndWith
<1>2. cmd \in Commands /\ "back" \in AllStages BY DEF Shapes, AllStages, ActivateStages
<1> QED BY <1>1, <1>2, EndEnds, GotoMoves, Uses1 DEF Unplant, relocated, managed, Shapes

LEMMA RenameBackDoes ==
    ASSUME Shapes, Control, RenameBack
    PROVE  /\ cmd.at = "back" /\ Later /\ Ends
           /\ \/ /\ ssh = NoDir /\ ssh' = slots[cmd.slot].dir
                 /\ slots' = [slots EXCEPT ![cmd.slot].dir = NoDir] /\ lapse' = lapse
              \/ lapse' = lapse \cup {"fatal"} /\ UNCHANGED <<ssh, slots>>
           /\ UNCHANGED <<born, theirs, copy, config, db, disk, records>>
<1>1. Fault \/ NoFault BY DEF RenameBack
<1> QED BY <1>1, EndEnds, Uses1 DEF RenameBack, EndWith, NameFree, relocated, managed, Shapes

\* restore-ssh-canary.
LEMMA Greatest ==
    ASSUME NEW S, NEW n \in Nat, S \subseteq 1 .. n, S # {}
    PROVE  \E m \in S : \A k \in S : k <= m
<1> DEFINE T == {m \in Nat : \E k \in S : m = n - k}
<1>1. T \subseteq Nat /\ T # {}
    <2>1. PICK k \in S : TRUE OBVIOUS
    <2>2. k \in 1 .. n BY <2>1
    <2>3. n - k \in Nat BY <2>2
    <2> QED BY <2>1, <2>3
<1> HIDE DEF T
<1>2. PICK t \in T : \A u \in T : <<u, t>> \notin OpToRel(<, Nat) BY <1>1, NatLessThanWellFounded, WFMin
<1>3. PICK m \in S : t = n - m BY DEF T
<1>4. ASSUME NEW k \in S PROVE k <= m
    <2>1. k \in 1 .. n /\ m \in 1 .. n OBVIOUS
    <2>2. n - k \in Nat BY <2>1
    <2>3. n - k \in T BY <2>2 DEF T
    <2>4. ~(n - k < t)
        <3> SUFFICES ASSUME n - k < t PROVE FALSE OBVIOUS
        <3>1. t \in Nat BY <1>1
        <3>2. <<n - k, t>> \in Nat \X Nat /\ <<n - k, t>>[1] < <<n - k, t>>[2] BY <2>2, <3>1
        <3> QED BY <1>2, <2>3, <3>2 DEF OpToRel
    <2> QED BY <2>1, <2>4, <1>3
<1> QED BY <1>4

\* The backup restore chooses is there, and if the row names the newest of
\* them it is the newest.
LEMMA ChosenFacts ==
    ASSUME Shapes, Recorded, Owned
    PROVE  /\ Chosen \in Nat
           /\ Chosen # 0 => Chosen \in Backups /\ \A i \in Backups : i <= Chosen
           /\ Backups # {} => Chosen # 0
<1>1. /\ slots \in Seq(Slot) /\ Len(slots) \in Nat /\ DOMAIN slots = 1 .. Len(slots) /\ db.backup \in Nat
    BY DEF Shapes, Row
<1>2. Backups \subseteq 1 .. Len(slots) BY <1>1 DEF Backups
<1>3. CASE db.backup # 0 /\ slots[db.backup].dir # NoDir
    <2>1. Chosen = db.backup BY <1>3 DEF Chosen
    <2>2. db.backup \in Backups /\ \A i \in Backups : i <= db.backup BY <1>3 DEF Recorded, Backups
    <2> QED BY <2>1, <2>2, <1>1, <1>3
<1>4. CASE ~(db.backup # 0 /\ slots[db.backup].dir # NoDir) /\ Backups # {}
    <2>1. Chosen = LatestBackup BY <1>4 DEF Chosen
    <2>2. \E m \in Backups : \A k \in Backups : k <= m BY <1>1, <1>2, <1>4, Greatest
    <2>3. LatestBackup \in Backups /\ \A k \in Backups : k <= LatestBackup BY <2>2 DEF LatestBackup
    <2> QED BY <2>1, <2>3, <1>1, <1>2
<1>5. CASE ~(db.backup # 0 /\ slots[db.backup].dir # NoDir) /\ Backups = {} BY <1>5 DEF Chosen
<1> QED BY <1>3, <1>4, <1>5

LEMMA AfterStage ==
    ASSUME NEW item \in Items
    PROVE  /\ AfterUndo[item] \in {"choose", "rc", "done"} /\ AfterUndo[item] \in AllStages
           /\ AfterUndo[item] = "choose" => item = "wrapper"
<1>1. /\ AfterUndo["wrapper"] = "choose" /\ AfterUndo["git"] = "rc" /\ AfterUndo["rc"] = "done" BY DEF AfterUndo
<1>2. item = "wrapper" \/ item = "rc" \/ item = "git" BY DEF Items
<1>3. AfterUndo[item] \in {"choose", "rc", "done"} /\ (AfterUndo[item] = "choose" => item = "wrapper") BY <1>1, <1>2
<1> QED BY <1>3 DEF RestoreStages, AllStages

LEMMA UndoDoes ==
    ASSUME Shapes, Control, NEW item \in Items, Undo(item)
    PROVE  /\ cmd.op = "restore" /\ cmd.at = item /\ cmd.wrote = "none" /\ Later
           /\ \/ MovesTo(AfterUndo[item]) /\ UNCHANGED <<disk, records>>
              \/ /\ cmd' = cmd /\ disk' = disk /\ records[item] # <<>> /\ item # "git" /\ disk[item] = "absent"
                 /\ records' = [records EXCEPT ![item] = Tail(@)]
              \/ /\ Carries /\ cmd'.at = item /\ cmd'.wrote = "ours" /\ records[item] # <<>> /\ records' = records
                 /\ \/ disk' = [disk EXCEPT ![item] = Undone(item)]
                    \/ item = "git" /\ disk' = disk
           /\ UNCHANGED <<ssh, slots, born, theirs, copy, config, db, lapse>>
<1>1. /\ cmd.op = "restore" /\ cmd.at = item /\ cmd.wrote = "none"
      /\ Fault \/ NoFault
      /\ \/ Goto(AfterUndo[item]) /\ UNCHANGED <<disk, records>>
         \/ /\ cmd' = cmd /\ disk' = disk /\ records[item] # <<>> /\ item # "git" /\ disk[item] = "absent"
            /\ records' = [records EXCEPT ![item] = Tail(@)]
         \/ /\ cmd' = [cmd EXCEPT !.wrote = "ours"] /\ records[item] # <<>> /\ records' = records
            /\ \/ disk' = [disk EXCEPT ![item] = Undone(item)]
               \/ item = "git" /\ disk' = disk
    BY DEF Undo, RetiresOnFailure, NothingToUndo, RetireItem, UndoItem, managed
<1>2. cmd \in Commands BY DEF Shapes
<1>3. ASSUME cmd' = [cmd EXCEPT !.wrote = "ours"] PROVE Carries /\ cmd'.at = item /\ cmd'.wrote = "ours"
    <2>1. cmd.at = item BY <1>1
    <2> QED BY <2>1, <1>2, <1>3 DEF Carries, Commands, Held
<1>4. \/ MovesTo(AfterUndo[item]) /\ UNCHANGED <<disk, records>>
      \/ /\ cmd' = cmd /\ disk' = disk /\ records[item] # <<>> /\ item # "git" /\ disk[item] = "absent"
         /\ records' = [records EXCEPT ![item] = Tail(@)]
      \/ /\ Carries /\ cmd'.at = item /\ cmd'.wrote = "ours" /\ records[item] # <<>> /\ records' = records
         /\ \/ disk' = [disk EXCEPT ![item] = Undone(item)]
            \/ item = "git" /\ disk' = disk
    BY <1>1, <1>2, <1>3, GotoMoves, AfterStage
<1> QED BY <1>1, <1>4, Uses1 DEF Undo, home, relocated, Shapes

LEMMA RetireUndoneDoes ==
    ASSUME Shapes, Control, NEW item \in Items, RetireUndone(item)
    PROVE  /\ cmd.op = "restore" /\ cmd.at = item /\ cmd.wrote # "none" /\ Later
           /\ Carries /\ cmd'.wrote = "none" /\ cmd'.at = IF item = "git" THEN "rc" ELSE item
           /\ records' = [records EXCEPT ![item] = Tail(@)]
           /\ lapse' = IF item = "git" /\ disk[item] = "ours" THEN lapse \cup {"git"} ELSE lapse
           /\ UNCHANGED <<ssh, slots, born, theirs, copy, config, db, disk>>
<1>1. /\ cmd.op = "restore" /\ cmd.at = item /\ cmd.wrote # "none" /\ NoFault
      /\ records' = [records EXCEPT ![item] = Tail(@)]
    BY DEF RetireUndone, RetireItem
<1>2. cmd' = [cmd EXCEPT !.wrote = "none", !.at = IF item = "git" THEN AfterUndo[item] ELSE @] BY DEF RetireUndone
<1>3. item = "git" => AfterUndo[item] = "rc" BY DEF AfterUndo
<1> DEFINE stage == IF item = "git" THEN "rc" ELSE item
<1>4. cmd' = [cmd EXCEPT !.wrote = "none", !.at = stage] BY <1>1, <1>2, <1>3
<1>5. cmd \in Commands /\ stage \in AllStages BY DEF Shapes, AllStages, RestoreStages, Items
<1> HIDE DEF stage
<1>6. Carries /\ cmd'.wrote = "none" /\ cmd'.at = stage BY <1>4, <1>5 DEF Carries, Commands
<1> QED BY <1>1, <1>6, Uses1 DEF RetireUndone, home, relocated, Shapes, stage

LEMMA ChooseBackupDoes ==
    ASSUME Shapes, Control, Recorded, Owned, ChooseBackup
    PROVE  /\ cmd.at = "choose" /\ Later
           /\ \/ MovesTo("git")
              \/ /\ Chosen \in Backups /\ \A i \in Backups : i <= Chosen
                 /\ cmd' \in Commands /\ cmd'.op = cmd.op /\ cmd'.inv = cmd.inv
                 /\ cmd'.at = IF ssh = NoDir THEN "return" ELSE "aside"
                 /\ cmd'.slot = Chosen /\ cmd'.planted = cmd.planted /\ cmd'.mine = cmd.mine
                 /\ cmd'.wrote = cmd.wrote
           /\ UNCHANGED <<ssh, slots, born, theirs, copy, config, db, lapse, disk, records>>
<1> DEFINE stage == IF ssh = NoDir THEN "return" ELSE "aside"
<1>1. /\ cmd.at = "choose" /\ NoFault
      /\ Goto("git") \/ (Chosen # 0 /\ cmd' = [cmd EXCEPT !.slot = Chosen, !.at = stage])
    BY DEF ChooseBackup
<1>2. cmd \in Commands /\ stage \in AllStages /\ "git" \in AllStages BY DEF Shapes, AllStages, RestoreStages
<1> HIDE DEF stage
<1>3. ASSUME cmd' = [cmd EXCEPT !.slot = Chosen, !.at = stage]
      PROVE  /\ cmd' \in Commands /\ cmd'.op = cmd.op /\ cmd'.inv = cmd.inv /\ cmd'.at = stage
             /\ cmd'.slot = Chosen /\ cmd'.planted = cmd.planted /\ cmd'.mine = cmd.mine
             /\ cmd'.wrote = cmd.wrote
    <2>1. Chosen \in Nat BY ChosenFacts
    <2> HIDE DEF Chosen
    <2> QED BY <2>1, <1>2, <1>3 DEF Commands
<1> QED BY <1>1, <1>2, <1>3, ChosenFacts, GotoMoves, Uses1
        DEF ChooseBackup, home, relocated, managed, Shapes, stage

LEMMA MoveAsideDoes ==
    ASSUME Shapes, Control, MoveAside
    PROVE  /\ cmd.at = "aside" /\ Later
           /\ \/ Ends /\ UNCHANGED <<ssh, slots>>
              \/ /\ ssh # NoDir /\ ssh' = NoDir
                 /\ slots' = Append(slots, [kind |-> "aside", dir |-> ssh])
                 /\ cmd' \in Commands /\ cmd'.op = cmd.op /\ cmd'.at = "return" /\ cmd'.inv = cmd.inv
                 /\ cmd'.slot = cmd.slot /\ cmd'.planted = cmd.planted /\ cmd'.mine = Len(slots) + 1
                 /\ cmd'.wrote = cmd.wrote
           /\ UNCHANGED <<born, theirs, copy, config, db, lapse, disk, records>>
<1>1. /\ cmd.at = "aside"
      /\ Fault \/ NoFault
      /\ \/ End /\ UNCHANGED <<ssh, slots>>
         \/ /\ ssh # NoDir /\ ssh' = NoDir
            /\ slots' = Append(slots, [kind |-> "aside", dir |-> ssh])
            /\ cmd' = [cmd EXCEPT !.at = "return", !.mine = Len(slots')]
    BY DEF MoveAside
<1>2. ASSUME slots' = Append(slots, [kind |-> "aside", dir |-> ssh]) PROVE Len(slots') = Len(slots) + 1 /\ Len(slots) + 1 \in Nat
    <2>1. slots \in Seq(Slot) /\ [kind |-> "aside", dir |-> ssh] \in Slot BY DEF Shapes, Slot
    <2> QED BY <2>1, <1>2
<1>3. ASSUME cmd' = [cmd EXCEPT !.at = "return", !.mine = Len(slots')], Len(slots') = Len(slots) + 1, Len(slots) + 1 \in Nat
      PROVE  /\ cmd' \in Commands /\ cmd'.op = cmd.op /\ cmd'.at = "return" /\ cmd'.inv = cmd.inv
             /\ cmd'.slot = cmd.slot /\ cmd'.planted = cmd.planted /\ cmd'.mine = Len(slots) + 1
             /\ cmd'.wrote = cmd.wrote
    <2>1. cmd \in Commands /\ "return" \in AllStages BY DEF Shapes, AllStages, RestoreStages
    <2>2. cmd' = [cmd EXCEPT !.at = "return", !.mine = Len(slots) + 1] BY <1>3
    <2> QED BY <2>1, <2>2, <1>3 DEF Commands
<1> QED BY <1>1, <1>2, <1>3, EndEnds, Uses1 DEF MoveAside, relocated, managed, Shapes

LEMMA ReturnBackupDoes ==
    ASSUME Shapes, Control, ReturnBackup
    PROVE  /\ cmd.at = "return" /\ Later
           /\ \/ /\ ssh = NoDir /\ ssh' = slots[cmd.slot].dir /\ MovesTo("git")
                 /\ slots' = [slots EXCEPT ![cmd.slot].dir = NoDir]
              \/ MovesTo("unaside") /\ UNCHANGED <<ssh, slots>>
           /\ UNCHANGED <<born, theirs, copy, config, db, lapse, disk, records>>
<1>1. /\ cmd.at = "return"
      /\ Fault \/ NoFault
      /\ \/ /\ ssh = NoDir /\ ssh' = slots[cmd.slot].dir /\ Goto("git")
            /\ slots' = [slots EXCEPT ![cmd.slot].dir = NoDir]
         \/ Goto("unaside") /\ UNCHANGED <<ssh, slots>>
    BY DEF ReturnBackup, NameFree
<1>2. cmd \in Commands /\ "unaside" \in AllStages /\ "git" \in AllStages BY DEF Shapes, AllStages, RestoreStages
<1> QED BY <1>1, <1>2, GotoMoves, Uses1 DEF ReturnBackup, relocated, managed, Shapes

LEMMA UndoAsideDoes ==
    ASSUME Shapes, Control, UndoAside
    PROVE  /\ cmd.at = "unaside" /\ Later /\ Ends
           /\ \/ /\ ssh = NoDir /\ cmd.mine # 0 /\ ssh' = slots[cmd.mine].dir /\ lapse' = lapse
                 /\ slots' = [slots EXCEPT ![cmd.mine].dir = NoDir]
              \/ cmd.mine = 0 /\ UNCHANGED <<ssh, slots, lapse>>
              \/ lapse' = lapse \cup {"fatal"} /\ UNCHANGED <<ssh, slots>>
           /\ UNCHANGED <<born, theirs, copy, config, db, disk, records>>
<1>1. Fault \/ NoFault BY DEF UndoAside
<1> QED BY <1>1, EndEnds, Uses1 DEF UndoAside, EndWith, NameFree, relocated, managed, Shapes

LEMMA DeactivateDoes ==
    ASSUME Shapes, Control, Deactivate
    PROVE  /\ cmd.at = "done" /\ Later /\ MovesTo("row")
           /\ db' \in Row /\ db'.phase = db.phase /\ db'.backup = db.backup /\ ~db'.rows
           /\ UNCHANGED <<ssh, slots, born, theirs, copy, config, lapse, disk, records>>
<1>1. cmd.at = "done" /\ NoFault /\ Goto("row") /\ db' = [db EXCEPT !.rows = FALSE] BY DEF Deactivate
<1>2. cmd \in Commands /\ "row" \in AllStages /\ db \in Row BY DEF Shapes, AllStages, RestoreStages
<1>3. db' \in Row /\ db'.phase = db.phase /\ db'.backup = db.backup /\ ~db'.rows BY <1>1, <1>2 DEF Row
<1> QED BY <1>1, <1>2, <1>3, GotoMoves, Uses1 DEF Deactivate, home, relocated, managed, Shapes

LEMMA FinishRestoreDoes ==
    ASSUME Shapes, Control, FinishRestore
    PROVE  /\ cmd.at = "row" /\ Later /\ Ends
           /\ db' \in Row /\ db'.phase = "restored" /\ db'.backup = db.backup /\ db'.rows = db.rows
           /\ UNCHANGED <<ssh, slots, born, theirs, copy, config, lapse, disk, records>>
<1>1. /\ cmd.at = "row" /\ NoFault /\ End
      /\ db' = [db EXCEPT !.phase = "restored", !.hashes = db.hashes, !.section = db.section]
    BY DEF FinishRestore, Upsert
<1>2. db \in Row BY DEF Shapes
<1>3. db' \in Row /\ db'.phase = "restored" /\ db'.backup = db.backup /\ db'.rows = db.rows
    BY <1>1, <1>2 DEF Row, Phases
<1> QED BY <1>1, <1>3, EndEnds, Uses1 DEF FinishRestore, home, relocated, managed, Shapes

-----------------------------------------------------------------------------
(* The user, and crashes. *)

LEMMA FreshKnown ==
    ASSUME Shapes
    PROVE  Fresh \in Nat /\ Fresh \in Content /\ Fresh = used.trouble + 2 /\ Fresh # Canary /\ Fresh # Absent
<1>1. used.trouble \in Nat BY DEF Shapes, Uses
<1> QED BY <1>1 DEF Fresh, Content, Canary, Absent

\* An edit of a canary directory leaves its mark.
LEMMA UserWritesDoes ==
    ASSUME SSHCanaryAssumption, Shapes, UserWrites
    PROVE  /\ Later /\ used'.trouble = used.trouble + 1 /\ cmd' = cmd /\ ssh # NoDir
           /\ lapse' = lapse \/ lapse' = lapse \cup {"edited"}
           /\ \E f \in Names :
                 /\ ssh' = [ssh EXCEPT !.files[f] = Fresh]
                 /\ "edited" \notin lapse' => ssh.owner = "user" \/ (f = KnownHosts /\ ~IsCanaryDir(ssh))
           /\ UNCHANGED <<slots, born, theirs, copy, config, db, disk, records>>
<1>1. Trouble /\ ssh # NoDir BY DEF UserWrites
<1>2. PICK f \in Keys \cup {Config} :
          /\ ssh' = [ssh EXCEPT !.files[f] = Fresh]
          /\ lapse' = IF ssh.owner = "user" \/ (f = KnownHosts /\ ~IsCanaryDir(ssh))
                      THEN lapse ELSE lapse \cup {"edited"}
    BY DEF UserWrites
<1>3. f \in Names BY <1>2, NamesKnown
<1>4. used \in Uses BY DEF Shapes
<1> QED BY <1>1, <1>2, <1>3, <1>4, Uses1 DEF UserWrites, relocated, managed

LEMMA UserCreatesDoes ==
    ASSUME SSHCanaryAssumption, Shapes, UserCreates
    PROVE  /\ Later /\ used'.trouble = used.trouble + 1 /\ cmd' = cmd /\ ssh = NoDir
           /\ ssh' \in Dir /\ ssh'.id = born + 1 /\ ssh'.owner = "user"
           /\ ssh'.files = [Empty EXCEPT ![KnownHosts] = Fresh]
           /\ born' = born + 1 /\ theirs' = theirs \cup {born + 1}
           /\ UNCHANGED <<slots, copy, config, db, lapse, disk, records>>
<1>1. /\ Trouble /\ ssh = NoDir /\ born' = born + 1 /\ theirs' = theirs \cup {born + 1}
      /\ ssh' = [id |-> born + 1, owner |-> "user", files |-> [Empty EXCEPT ![KnownHosts] = Fresh]]
    BY DEF UserCreates
<1>2. born + 1 \in Nat /\ used \in Uses BY DEF Shapes
<1>3. [Empty EXCEPT ![KnownHosts] = Fresh] \in [Names -> Content] BY Nothing, FreshKnown, NamesKnown
<1>4. ssh' \in Dir /\ ssh'.id = born + 1 /\ ssh'.owner = "user" /\ ssh'.files = [Empty EXCEPT ![KnownHosts] = Fresh]
    BY <1>1, <1>2, <1>3 DEF Dir
<1> QED BY <1>1, <1>2, <1>4, Uses1 DEF UserCreates, relocated, managed

LEMMA UserWritesCopyDoes ==
    ASSUME SSHCanaryAssumption, Shapes, UserWritesCopy
    PROVE  /\ Later /\ used'.trouble = used.trouble + 1 /\ cmd' = cmd
           /\ \/ copy' = [copy EXCEPT ![KnownHosts] = Fresh] /\ config' = config
              \/ copy' = copy /\ config' = Fresh
           /\ UNCHANGED <<ssh, slots, born, theirs, db, lapse, disk, records>>
BY Uses1 DEF UserWritesCopy, home, managed, Shapes

LEMMA UserChangesItemDoes ==
    ASSUME SSHCanaryAssumption, Shapes, UserChangesItem
    PROVE  /\ Later /\ cmd' = cmd /\ lapse' = lapse \cup {"user"}
           /\ \E item \in Items, value \in {"absent", "user", "edited"} : disk' = [disk EXCEPT ![item] = value]
           /\ UNCHANGED <<ssh, slots, born, theirs, copy, config, db, records>>
BY Uses1 DEF UserChangesItem, home, relocated, Shapes

LEMMA CrashDoes ==
    ASSUME Shapes, Crash
    PROVE  /\ Later /\ Ends /\ lapse' = lapse \cup {"crash"}
           /\ UNCHANGED <<ssh, slots, born, theirs, copy, config, db, disk, records>>
BY Uses1, EndEnds DEF Crash, EndWith, home, relocated, managed, Shapes

-----------------------------------------------------------------------------
(* Directories that come, go and move. *)

LEMMA SlotAdded ==
    ASSUME NEW q \in Seq(Slot), NEW s \in Slot, NEW r, r = Append(q, s)
    PROVE  /\ r \in Seq(Slot) /\ Len(r) = Len(q) + 1 /\ Len(q) \in Nat
           /\ DOMAIN q = 1 .. Len(q) /\ DOMAIN r = 1 .. Len(q) + 1
           /\ r[Len(q) + 1] = s /\ \A i \in DOMAIN q : i # Len(q) + 1 /\ i \in DOMAIN r /\ r[i] = q[i]
           /\ \A i \in DOMAIN r : i \in DOMAIN q \/ i = Len(q) + 1
OBVIOUS

LEMMA SlotCleared ==
    ASSUME NEW q \in Seq(Slot), NEW k \in DOMAIN q, NEW r, r = [q EXCEPT ![k].dir = NoDir]
    PROVE  /\ r \in Seq(Slot) /\ Len(r) = Len(q) /\ DOMAIN r = DOMAIN q /\ q[k] \in Slot /\ q[k].dir \in Dir
           /\ r[k].kind = q[k].kind /\ r[k].dir = NoDir /\ \A i \in DOMAIN q : i # k => r[i] = q[i]
           /\ \A i \in DOMAIN q : r[i].kind = q[i].kind
<1>1. q[k] \in Slot /\ q[k].dir \in Dir
    <2>1. q[k] \in Slot OBVIOUS
    <2> QED BY <2>1 DEF Slot
<1>2. r = [q EXCEPT ![k] = [q[k] EXCEPT !.dir = NoDir]] OBVIOUS
<1>3. [q[k] EXCEPT !.dir = NoDir] \in Slot BY <1>1, Nothing DEF Slot
<1>4. [q[k] EXCEPT !.dir = NoDir].kind = q[k].kind /\ [q[k] EXCEPT !.dir = NoDir].dir = NoDir BY <1>1 DEF Slot
<1> DEFINE e == [q[k] EXCEPT !.dir = NoDir]
<1>5. r = [q EXCEPT ![k] = e] /\ e \in Slot /\ e.kind = q[k].kind /\ e.dir = NoDir BY <1>2, <1>3, <1>4
<1> HIDE DEF e
<1>6. r \in Seq(Slot) /\ Len(r) = Len(q) /\ DOMAIN r = DOMAIN q BY <1>5
<1>7. r[k] = e /\ \A i \in DOMAIN q : i # k => r[i] = q[i] BY <1>5
<1>8. \A i \in DOMAIN q : r[i].kind = q[i].kind BY <1>5, <1>7
<1> QED BY <1>1, <1>5, <1>6, <1>7, <1>8

LEMMA FileSet ==
    ASSUME NEW d \in Dir, NEW f \in Names, NEW c \in Content, NEW e, e = [d EXCEPT !.files[f] = c]
    PROVE  /\ e \in Dir /\ e.id = d.id /\ e.owner = d.owner /\ e.files[f] = c
           /\ d.files \in [Names -> Content] /\ e.files \in [Names -> Content]
           /\ \A g \in Names : g # f => e.files[g] = d.files[g]
BY DEF Dir

\* A slot is a directory or empty.
LEMMA SlotDirs ==
    ASSUME Shapes
    PROVE  /\ \A i \in DOMAIN slots : slots[i] \in Slot /\ slots[i].dir \in Dir /\ slots[i].dir.id \in Nat
           /\ ssh.id \in Nat /\ born \in Nat /\ Len(slots) \in Nat /\ DOMAIN slots = 1 .. Len(slots)
           /\ cmd.slot \in Nat /\ cmd.mine \in Nat /\ cmd.planted \in Nat /\ db.backup \in Nat
           /\ \A k \in theirs : k \in Nat /\ k # 0 /\ k <= born
<1>1. slots \in Seq(Slot) BY DEF Shapes
<1>2. \A i \in DOMAIN slots : slots[i] \in Slot BY <1>1
<1>3. \A i \in DOMAIN slots : slots[i].dir \in Dir /\ slots[i].dir.id \in Nat BY <1>2 DEF Slot, Dir
<1>4. ssh.id \in Nat BY DEF Shapes, Dir
<1>5. cmd.slot \in Nat /\ cmd.mine \in Nat /\ cmd.planted \in Nat BY DEF Shapes, Commands
<1>6. db.backup \in Nat BY DEF Shapes, Row
<1>7. \A k \in theirs : k \in 1 .. born BY DEF Shapes
<1>8. born \in Nat BY DEF Shapes
<1>9. Len(slots) \in Nat /\ DOMAIN slots = 1 .. Len(slots) BY <1>1
<1>10. \A k \in theirs : k \in Nat /\ k # 0 /\ k <= born
    <2> SUFFICES ASSUME NEW k \in theirs PROVE k \in Nat /\ k # 0 /\ k <= born OBVIOUS
    <2>1. k \in 1 .. born BY <1>7
    <2> QED BY <2>1, <1>8
<1> QED BY <1>2, <1>3, <1>4, <1>5, <1>6, <1>8, <1>9, <1>10

\* ~/.ssh moves to a new slot.
LEMMA Pushed ==
    ASSUME Shapes, Owned, NEW kind \in {"backup", "aside"}, ssh # NoDir, ssh' = NoDir,
           slots' = Append(slots, [kind |-> kind, dir |-> ssh]), UNCHANGED <<born, theirs>>
    PROVE  /\ ssh' \in Dir /\ slots' \in Seq(Slot) /\ Owned' /\ ssh.id # 0
           /\ Len(slots') = Len(slots) + 1 /\ Len(slots) + 1 \in Nat /\ Len(slots) + 1 # 0
           /\ DOMAIN slots' = DOMAIN slots \cup {Len(slots) + 1}
           /\ slots'[Len(slots) + 1].kind = kind /\ slots'[Len(slots) + 1].dir = ssh
           /\ \A i \in DOMAIN slots : slots'[i] = slots[i] /\ i < Len(slots) + 1
           /\ Backups' = IF kind = "backup" THEN Backups \cup {Len(slots) + 1} ELSE Backups
<1> DEFINE s == [kind |-> kind, dir |-> ssh]
           n == Len(slots) + 1
<1>1. ssh \in Dir /\ slots \in Seq(Slot) /\ s \in Slot /\ s.kind = kind /\ s.dir = ssh BY DEF Shapes, Slot
<1>2. slots' = Append(slots, s) OBVIOUS
<1> HIDE DEF s
<1>3. /\ slots' \in Seq(Slot) /\ Len(slots') = n /\ Len(slots) \in Nat
      /\ DOMAIN slots = 1 .. Len(slots) /\ DOMAIN slots' = 1 .. n
      /\ slots'[n] = s /\ \A i \in DOMAIN slots : i # n /\ i \in DOMAIN slots' /\ slots'[i] = slots[i]
      /\ \A i \in DOMAIN slots' : i \in DOMAIN slots \/ i = n
    BY <1>1, <1>2, SlotAdded
<1>4. n \in Nat /\ n # 0 /\ n \in DOMAIN slots' /\ \A i \in DOMAIN slots : i < n BY <1>3
<1> HIDE DEF n
<1>5. DOMAIN slots' = DOMAIN slots \cup {n} BY <1>3, <1>4
<1>6. slots'[n].kind = kind /\ slots'[n].dir = ssh BY <1>1, <1>3
<1>7. Backups' = IF kind = "backup" THEN Backups \cup {n} ELSE Backups
    <2>1. ASSUME NEW i PROVE i \in Backups' <=> i \in IF kind = "backup" THEN Backups \cup {n} ELSE Backups
        <3>1. CASE i = n BY <3>1, <1>3, <1>4, <1>6 DEF Backups
        <3>2. CASE i # n BY <3>2, <1>3, <1>5 DEF Backups
        <3> QED BY <3>1, <3>2
    <2> QED BY <2>1
<1>8. Owned'
    <2>1. ssh.id # 0 BY DEF Owned, Known
    <2>2. ssh'.id = 0 /\ ssh' = NoDir /\ ssh'.owner = "none" BY Nothing
    <2>3. Known(ssh)' BY <2>2, SlotDirs DEF Known
    <2>4. \A i \in DOMAIN slots' : Known(slots[i].dir)'
        <3> SUFFICES ASSUME NEW i \in DOMAIN slots' PROVE Known(slots[i].dir)' BY DEF Known
        <3>1. CASE i = n
            <4>1. slots'[i].dir = ssh BY <3>1, <1>6
            <4> QED BY <4>1 DEF Known, Owned
        <3>2. CASE i # n
            <4>1. i \in DOMAIN slots /\ slots'[i] = slots[i] BY <3>2, <1>3
            <4> QED BY <4>1 DEF Known, Owned
        <3> QED BY <3>1, <3>2
    <2>5. \A i \in DOMAIN slots' : slots'[i].dir.id # 0 => slots'[i].dir.id # ssh'.id BY <2>2
    <2>6. \A i, j \in DOMAIN slots' : i # j /\ slots'[i].dir.id # 0 => slots'[i].dir.id # slots'[j].dir.id
        <3> SUFFICES ASSUME NEW i \in DOMAIN slots', NEW j \in DOMAIN slots', i # j, slots'[i].dir.id # 0
                     PROVE  slots'[i].dir.id # slots'[j].dir.id OBVIOUS
        <3>1. CASE i = n
            <4>1. slots'[i].dir = ssh /\ j \in DOMAIN slots /\ slots'[j] = slots[j] BY <3>1, <1>3, <1>6
            <4> QED BY <4>1, <2>1 DEF Owned
        <3>2. CASE j = n
            <4>1. slots'[j].dir = ssh /\ i \in DOMAIN slots /\ slots'[i] = slots[i] BY <3>2, <1>3, <1>6
            <4> QED BY <4>1, <2>1 DEF Owned
        <3>3. CASE i # n /\ j # n
            <4>1. i \in DOMAIN slots /\ slots'[i] = slots[i] /\ j \in DOMAIN slots /\ slots'[j] = slots[j] BY <3>3, <1>3
            <4> QED BY <4>1 DEF Owned
        <3> QED BY <3>1, <3>2, <3>3
    <2>7. \A k \in theirs' : ssh'.id = k \/ \E i \in DOMAIN slots' : slots'[i].dir.id = k
        <3> SUFFICES ASSUME NEW k \in theirs PROVE \E i \in DOMAIN slots' : slots'[i].dir.id = k OBVIOUS
        <3>1. CASE ssh.id = k BY <3>1, <1>4, <1>6
        <3>2. CASE ssh.id # k
            <4>1. PICK i \in DOMAIN slots : slots[i].dir.id = k BY <3>2 DEF Owned
            <4> QED BY <4>1, <1>3
        <3> QED BY <3>1, <3>2
    <2> QED BY <2>3, <2>4, <2>5, <2>6, <2>7 DEF Owned
<1>9. ssh.id # 0 BY DEF Owned, Known
<1> QED BY <1>3, <1>4, <1>5, <1>6, <1>7, <1>8, <1>9, Nothing DEF n

\* A directory moves from its slot to ~/.ssh.
LEMMA Popped ==
    ASSUME Shapes, Owned, NEW k \in DOMAIN slots, ssh = NoDir, ssh' = slots[k].dir,
           slots' = [slots EXCEPT ![k].dir = NoDir], UNCHANGED <<born, theirs>>
    PROVE  /\ ssh' \in Dir /\ slots' \in Seq(Slot) /\ Owned'
           /\ Len(slots') = Len(slots) /\ DOMAIN slots' = DOMAIN slots
           /\ \A i \in DOMAIN slots : slots'[i].kind = slots[i].kind /\ (i # k => slots'[i] = slots[i])
           /\ slots'[k].dir = NoDir
           /\ Backups' = Backups \ {k}
<1>1. slots \in Seq(Slot) BY DEF Shapes
<1>2. /\ slots' \in Seq(Slot) /\ Len(slots') = Len(slots) /\ DOMAIN slots' = DOMAIN slots /\ slots[k].dir \in Dir
      /\ slots'[k].dir = NoDir /\ \A i \in DOMAIN slots : i # k => slots'[i] = slots[i]
      /\ \A i \in DOMAIN slots : slots'[i].kind = slots[i].kind
    BY <1>1, SlotCleared
<1>3. Backups' = Backups \ {k}
    <2>1. ASSUME NEW i PROVE i \in Backups' <=> i \in Backups \ {k}
        <3>1. CASE i = k BY <3>1, <1>2 DEF Backups
        <3>2. CASE i # k BY <3>2, <1>2 DEF Backups
        <3> QED BY <3>1, <3>2
    <2> QED BY <2>1
<1>4. Owned'
    <2>1. ssh.id = 0 /\ NoDir.id = 0 BY Nothing
    <2>2. Known(ssh)' BY DEF Owned, Known
    <2>3. \A i \in DOMAIN slots' : Known(slots[i].dir)'
        <3> SUFFICES ASSUME NEW i \in DOMAIN slots PROVE Known(slots[i].dir)' BY <1>2 DEF Known
        <3>1. CASE i = k
            <4>1. slots'[i].dir = ssh BY <3>1, <1>2
            <4> QED BY <4>1 DEF Known, Owned
        <3>2. CASE i # k
            <4>1. slots'[i] = slots[i] BY <3>2, <1>2
            <4> QED BY <4>1 DEF Known, Owned
        <3> QED BY <3>1, <3>2
    <2>4. \A i \in DOMAIN slots' : slots'[i].dir.id # 0 => slots'[i].dir.id # ssh'.id
        <3> SUFFICES ASSUME NEW i \in DOMAIN slots, slots'[i].dir.id # 0 PROVE slots'[i].dir.id # slots[k].dir.id BY <1>2
        <3>1. i # k BY <2>1, <1>2
        <3>2. slots'[i] = slots[i] BY <3>1, <1>2
        <3> QED BY <3>1, <3>2 DEF Owned
    <2>5. \A i, j \in DOMAIN slots' : i # j /\ slots'[i].dir.id # 0 => slots'[i].dir.id # slots'[j].dir.id
        <3> SUFFICES ASSUME NEW i \in DOMAIN slots, NEW j \in DOMAIN slots, i # j, slots'[i].dir.id # 0
                     PROVE  slots'[i].dir.id # slots'[j].dir.id BY <1>2
        <3>1. i # k /\ slots'[i] = slots[i]
            <4>1. i # k BY <2>1, <1>2
            <4> QED BY <4>1, <1>2
        <3>2. CASE j = k
            <4>1. slots'[j].dir.id = 0 BY <3>2, <2>1, <1>2
            <4> QED BY <4>1
        <3>3. CASE j # k
            <4>1. slots'[j] = slots[j] BY <3>3, <1>2
            <4> QED BY <4>1, <3>1 DEF Owned
        <3> QED BY <3>2, <3>3
    <2>6. \A m \in theirs' : ssh'.id = m \/ \E i \in DOMAIN slots' : slots'[i].dir.id = m
        <3> SUFFICES ASSUME NEW m \in theirs, slots[k].dir.id # m PROVE \E i \in DOMAIN slots : slots'[i].dir.id = m BY <1>2
        <3>1. m # 0 BY SlotDirs
        <3>2. PICK i \in DOMAIN slots : slots[i].dir.id = m BY <3>1, <2>1 DEF Owned
        <3>3. slots'[i] = slots[i] BY <3>2, <1>2
        <3> QED BY <3>2, <3>3
    <2> QED BY <2>2, <2>3, <2>4, <2>5, <2>6 DEF Owned
<1> QED BY <1>2, <1>3, <1>4

\* A directory is made where there was none.
LEMMA Made ==
    ASSUME Shapes, Owned, ssh = NoDir, ssh' \in Dir, ssh'.id = born + 1, born' = born + 1, slots' = slots,
           \/ ssh'.owner = "honeypath" /\ theirs' = theirs
           \/ ssh'.owner = "user" /\ theirs' = theirs \cup {born + 1} /\ \A f \in Names : ssh'.files[f] # Canary
    PROVE  Owned' /\ Backups' = Backups /\ ssh'.id # 0 /\ theirs' \subseteq 1 .. born' /\ born' \in Nat
<1>1. born \in Nat /\ born + 1 \in Nat /\ born + 1 # 0 /\ born < born + 1 /\ NoDir.id = 0 BY Nothing DEF Shapes
<1>2. \A i \in DOMAIN slots : slots[i].dir.id <= born /\ slots[i].dir.id \in Nat BY SlotDirs DEF Owned, Known
<1>3. born + 1 \notin theirs
    <2> SUFFICES ASSUME born + 1 \in theirs PROVE FALSE OBVIOUS
    <2>1. born + 1 <= born BY SlotDirs
    <2> QED BY <2>1, <1>1
<1>4. \A i \in DOMAIN slots : slots[i].dir.id # born + 1 /\ slots[i].dir.id <= born + 1
    <2> SUFFICES ASSUME NEW i \in DOMAIN slots PROVE slots[i].dir.id # born + 1 /\ slots[i].dir.id <= born + 1 OBVIOUS
    <2>1. slots[i].dir.id <= born /\ slots[i].dir.id \in Nat BY <1>2
    <2> QED BY <2>1, <1>1
<1>5. Known(ssh)'
    <2>1. ssh'.id <= born' /\ ssh'.id # 0 BY <1>1
    <2>2. ssh'.owner # "none" BY DEF Dir
    <2>3. ssh'.owner = "user" <=> ssh'.id \in theirs' BY <1>3
    <2> QED BY <2>1, <2>2, <2>3 DEF Known
<1>6. \A i \in DOMAIN slots : Known(slots[i].dir)'
    <2> SUFFICES ASSUME NEW i \in DOMAIN slots PROVE Known(slots[i].dir)' OBVIOUS
    <2>1. Known(slots[i].dir) BY DEF Owned
    <2>2. slots'[i].dir.id <= born' /\ (slots[i].dir.id \in theirs' <=> slots[i].dir.id \in theirs) BY <1>4
    <2> QED BY <2>1, <2>2 DEF Known
<1>7. \A i \in DOMAIN slots : slots[i].dir.id # 0 => slots[i].dir.id # ssh'.id BY <1>4
<1>8. \A m \in theirs' : ssh'.id = m \/ \E i \in DOMAIN slots : slots[i].dir.id = m
    <2> SUFFICES ASSUME NEW m \in theirs PROVE \E i \in DOMAIN slots : slots[i].dir.id = m OBVIOUS
    <2>1. m # 0 BY SlotDirs
    <2> QED BY <2>1, <1>1 DEF Owned
<1>9. Owned'
    <2>1. \A i, j \in DOMAIN slots : i # j /\ slots[i].dir.id # 0 => slots[i].dir.id # slots[j].dir.id BY DEF Owned
    <2> QED BY <2>1, <1>5, <1>6, <1>7, <1>8 DEF Owned
<1>10. theirs' \subseteq 1 .. born'
    <2> SUFFICES ASSUME NEW m \in theirs' PROVE m \in 1 .. born' OBVIOUS
    <2>1. CASE m = born + 1 BY <2>1, <1>1
    <2>2. CASE m \in theirs
        <3>1. m \in Nat /\ m # 0 /\ m <= born BY <2>2, SlotDirs
        <3> QED BY <3>1, <1>1
    <2> QED BY <2>1, <2>2
<1> QED BY <1>1, <1>9, <1>10 DEF Backups

\* A directory keeps its identity when its files change.
LEMMA Changed ==
    ASSUME Shapes, Owned, ssh'.id = ssh.id, ssh'.owner = ssh.owner, ssh.id # 0,
           ssh.owner = "user" => \A f \in Names : ssh'.files[f] # Canary,
           UNCHANGED <<slots, born, theirs>>
    PROVE  Owned' /\ Backups' = Backups
BY DEF Owned, Known, Backups

\* Honeypath removes a directory that is not the user's.
LEMMA Removed ==
    ASSUME Shapes, Owned, ssh.id \notin theirs, ssh' = NoDir, UNCHANGED <<slots, born, theirs>>
    PROVE  Owned' /\ Backups' = Backups
<1>1. ssh'.id = 0 /\ ssh'.owner = "none" BY Nothing
<1>2. Known(ssh)' BY <1>1, SlotDirs DEF Known
<1> QED BY <1>1, <1>2 DEF Owned, Known, Backups

-----------------------------------------------------------------------------
(* Every step keeps the invariant. *)

\* Every variable keeps its shape.
LEMMA ShapesKept ==
    ASSUME SSHCanaryAssumption, SSHInv, Next
    PROVE  Shapes'
<1>0. Shapes /\ Control /\ Slotted /\ Recorded /\ Owned /\ Bottom /\ Calm /\ Dated /\ Faithful /\ Rowed BY DEF SSHInv
<1>1. ASSUME NEW force \in BOOLEAN, StartSetup(force) PROVE Shapes' BY <1>0, <1>1, StartSetupDoes DEF Shapes, Starts, Ends, MovesTo, Carries, Later
<1>2. ASSUME NEW force \in BOOLEAN, StartActivate(force) PROVE Shapes' BY <1>0, <1>2, StartActivateDoes DEF Shapes, Starts, Ends, MovesTo, Carries, Later
<1>3. ASSUME NEW force \in BOOLEAN, StartRestore(force) PROVE Shapes' BY <1>0, <1>3, StartRestoreDoes DEF Shapes, Starts, Ends, MovesTo, Carries, Later
<1>4. ASSUME NEW f \in Keys, CopyFile(f) PROVE Shapes'
    <2>1. cmd.inv[f] \in Content BY <1>0, <1>4, NamesKnown DEF Shapes, Commands
    <2>2. copy' \in [Keys -> Content] BY <2>1, <1>0, <1>4, CopyFileDoes DEF Shapes
    <2> QED BY <2>2, <1>0, <1>4, CopyFileDoes DEF Shapes, MovesTo, Carries, Later
<1>5. ASSUME CopyDone PROVE Shapes'
    <2>1. Seeded(copy) \in [Keys -> Content] BY <1>0, Nothing DEF Shapes, Seeded
    <2> QED BY <2>1, <1>0, <1>5, CopyDoneDoes DEF Shapes, Ends, MovesTo, Carries, Later
<1>6. ASSUME WriteConfig PROVE Shapes' BY <1>0, <1>6, WriteConfigDoes DEF Shapes, Starts, Ends, MovesTo, Carries, Later
<1>7. ASSUME RecordConfig PROVE Shapes' BY <1>0, <1>7, RecordConfigDoes DEF Shapes, Starts, Ends, MovesTo, Carries, Later
<1>8. ASSUME NEW item \in Items, Install(item) PROVE Shapes'
    <2>1. disk' \in [Items -> Held] BY <1>0, <1>8, InstallDoes DEF Shapes, Held
    <2> QED BY <2>1, <1>0, <1>8, InstallDoes DEF Shapes, Ends, MovesTo, Carries, Later
<1>9. ASSUME NEW item \in Items, RecordInstall(item) PROVE Shapes'
    <2>1. records[item] \in Seq({"absent", "user", "edited"}) /\ cmd.wrote \in {"absent", "user", "edited"} BY <1>0, <1>9, RecordInstallDoes DEF Shapes
    <2>2. <<cmd.wrote>> \o records[item] \in Seq({"absent", "user", "edited"}) BY <2>1
    <2>3. records' \in [Items -> Seq({"absent", "user", "edited"})] BY <2>2, <1>0, <1>9, RecordInstallDoes DEF Shapes
    <2> QED BY <2>3, <1>0, <1>9, RecordInstallDoes DEF Shapes, Carries, Later
<1>10. ASSUME FinishSetup PROVE Shapes' BY <1>0, <1>10, FinishSetupDoes DEF Shapes, Starts, Ends, MovesTo, Carries, Later
<1>11. ASSUME CheckAll PROVE Shapes' BY <1>0, <1>11, CheckAllDoes DEF Shapes, Starts, Ends, MovesTo, Carries, Later
<1>12. ASSUME RenameAway PROVE Shapes'
    <2>1. ssh' \in Dir /\ slots' \in Seq(Slot) BY <1>0, <1>12, RenameAwayDoes, Pushed DEF Shapes
    <2> QED BY <2>1, <1>0, <1>12, RenameAwayDoes DEF Shapes, Ends, Later
<1>13. ASSUME VerifyBackup PROVE Shapes' BY <1>0, <1>13, VerifyBackupDoes DEF Shapes, Starts, Ends, MovesTo, Carries, Later
<1>14. ASSUME MakeDirectory PROVE Shapes'
    <2>1. theirs' \subseteq 1 .. born' /\ born' \in Nat BY <1>0, <1>14, MakeDirectoryDoes, Made DEF Shapes
    <2> QED BY <2>1, <1>0, <1>14, MakeDirectoryDoes DEF Shapes, MovesTo, Carries, Later
<1>15. ASSUME PlantCanary PROVE Shapes'
    <2>1. ssh' \in Dir BY <1>0, <1>15, PlantCanaryDoes, FileSet, Nothing DEF Shapes
    <2> QED BY <2>1, <1>0, <1>15, PlantCanaryDoes DEF Shapes, MovesTo, Carries, Later
<1>16. ASSUME CopyAuthorizedKeys PROVE Shapes'
    <2>1. cmd.slot \in DOMAIN slots BY <1>0, <1>16, CopyAuthorizedKeysDoes, SlotDirs DEF Control, Away
    <2>2. slots[cmd.slot].dir.files[AuthorizedKeys] \in Content BY <2>1, <1>0, SlotDirs, NamesKnown DEF Dir
    <2>3. ssh' \in Dir BY <2>2, <1>0, <1>16, CopyAuthorizedKeysDoes, FileSet, NamesKnown DEF Shapes
    <2> QED BY <2>3, <1>0, <1>16, CopyAuthorizedKeysDoes DEF Shapes, MovesTo, Carries, Later
<1>17. ASSUME Commit PROVE Shapes' BY <1>0, <1>17, CommitDoes DEF Shapes, Starts, Ends, MovesTo, Carries, Later
<1>18. ASSUME Unplant PROVE Shapes'
    <2>1. ssh' \in Dir BY <1>0, <1>18, UnplantDoes, FileSet, Nothing DEF Shapes
    <2> QED BY <2>1, <1>0, <1>18, UnplantDoes DEF Shapes, Ends, MovesTo, Carries, Later
<1>19. ASSUME RenameBack PROVE Shapes'
    <2>1. cmd.slot \in DOMAIN slots BY <1>0, <1>19, RenameBackDoes, SlotDirs DEF Control, Away
    <2>2. ssh' \in Dir /\ slots' \in Seq(Slot) BY <2>1, <1>0, <1>19, RenameBackDoes, Popped DEF Shapes
    <2> QED BY <2>2, <1>0, <1>19, RenameBackDoes DEF Shapes, Ends, Later
<1>20. ASSUME NEW item \in Items, Undo(item) PROVE Shapes'
    <2>1. records[item] \in Seq({"absent", "user", "edited"}) BY <1>0, <1>20 DEF Shapes
    <2>2. records[item] # <<>> => Tail(records[item]) \in Seq({"absent", "user", "edited"}) /\ Head(records[item]) \in {"absent", "user", "edited"} BY <2>1
    <2>3. records[item] # <<>> => Undone(item) \in Held BY <2>2 DEF Undone, Held
    <2>4. records' \in [Items -> Seq({"absent", "user", "edited"})] BY <2>2, <1>0, <1>20, UndoDoes DEF Shapes
    <2>5. disk' \in [Items -> Held] BY <2>3, <1>0, <1>20, UndoDoes DEF Shapes
    <2> QED BY <2>4, <2>5, <1>0, <1>20, UndoDoes DEF Shapes, MovesTo, Carries, Later
<1>21. ASSUME NEW item \in Items, RetireUndone(item) PROVE Shapes'
    <2>1. records[item] \in Seq({"absent", "user", "edited"}) BY <1>0, <1>21 DEF Shapes
    <2>2. records[item] # <<>> BY <1>0, <1>21, RetireUndoneDoes DEF Control
    <2>3. Tail(records[item]) \in Seq({"absent", "user", "edited"}) BY <2>1, <2>2
    <2>4. records' \in [Items -> Seq({"absent", "user", "edited"})] BY <2>3, <1>0, <1>21, RetireUndoneDoes DEF Shapes
    <2> QED BY <2>4, <1>0, <1>21, RetireUndoneDoes DEF Shapes, Carries, Later
<1>22. ASSUME ChooseBackup PROVE Shapes' BY <1>0, <1>22, ChooseBackupDoes DEF Shapes, Starts, Ends, MovesTo, Carries, Later
<1>23. ASSUME MoveAside PROVE Shapes'
    <2>1. ssh' \in Dir /\ slots' \in Seq(Slot) BY <1>0, <1>23, MoveAsideDoes, Pushed DEF Shapes
    <2> QED BY <2>1, <1>0, <1>23, MoveAsideDoes DEF Shapes, Ends, Later
<1>24. ASSUME ReturnBackup PROVE Shapes'
    <2>1. cmd.slot \in DOMAIN slots BY <1>0, <1>24, ReturnBackupDoes DEF Control, Taking, Backups
    <2>2. ssh' \in Dir /\ slots' \in Seq(Slot) BY <2>1, <1>0, <1>24, ReturnBackupDoes, Popped DEF Shapes
    <2> QED BY <2>2, <1>0, <1>24, ReturnBackupDoes DEF Shapes, MovesTo, Carries, Later
<1>25. ASSUME UndoAside PROVE Shapes'
    <2>1. cmd.mine # 0 => cmd.mine \in DOMAIN slots BY <1>0, <1>25, UndoAsideDoes, SlotDirs DEF Control
    <2>2. ssh' \in Dir /\ slots' \in Seq(Slot) BY <2>1, <1>0, <1>25, UndoAsideDoes, Popped DEF Shapes
    <2> QED BY <2>2, <1>0, <1>25, UndoAsideDoes DEF Shapes, Ends, Later
<1>26. ASSUME Deactivate PROVE Shapes' BY <1>0, <1>26, DeactivateDoes DEF Shapes, Starts, Ends, MovesTo, Carries, Later
<1>27. ASSUME FinishRestore PROVE Shapes' BY <1>0, <1>27, FinishRestoreDoes DEF Shapes, Starts, Ends, MovesTo, Carries, Later
<1>28. ASSUME UserWrites PROVE Shapes'
    <2>0. PICK f \in Names : ssh' = [ssh EXCEPT !.files[f] = Fresh] BY <1>0, <1>28, UserWritesDoes
    <2>1. ssh' \in Dir BY <1>0, <2>0, FileSet, FreshKnown DEF Shapes
    <2> QED BY <2>1, <1>0, <1>28, UserWritesDoes DEF Shapes, Later
<1>29. ASSUME UserCreates PROVE Shapes'
    <2>1. \A f \in Names : ssh'.files[f] # Canary BY <1>0, <1>29, UserCreatesDoes, Nothing, FreshKnown
    <2>2. theirs' \subseteq 1 .. born' /\ born' \in Nat BY <2>1, <1>0, <1>29, UserCreatesDoes, Made
    <2> QED BY <2>2, <1>0, <1>29, UserCreatesDoes DEF Shapes, Later
<1>30. ASSUME UserWritesCopy PROVE Shapes'
    <2>1. copy' \in [Keys -> Content] /\ config' \in {NoFile} \cup Content
        BY <1>0, <1>30, UserWritesCopyDoes, FreshKnown DEF Shapes
    <2> QED BY <2>1, <1>0, <1>30, UserWritesCopyDoes DEF Shapes, Later
<1>31. ASSUME UserChangesItem PROVE Shapes'
    <2>1. disk' \in [Items -> Held] BY <1>0, <1>31, UserChangesItemDoes DEF Shapes, Held
    <2> QED BY <2>1, <1>0, <1>31, UserChangesItemDoes DEF Shapes, Later
<1>32. ASSUME Crash PROVE Shapes' BY <1>0, <1>32, CrashDoes DEF Shapes, Starts, Ends, MovesTo, Carries, Later
<1> QED BY <1>1, <1>2, <1>3, <1>4, <1>5, <1>6, <1>7, <1>8, <1>9, <1>10, <1>11, <1>12, <1>13, <1>14,
           <1>15, <1>16, <1>17, <1>18, <1>19, <1>20, <1>21, <1>22, <1>23, <1>24, <1>25, <1>26, <1>27,
           <1>28, <1>29, <1>30, <1>31, <1>32
        DEF Next, Command, Phase1, Phase2, Restore, InstallWrappers, InstallRcBlock, SetGitSshCommand,
            RemoveWrappers, RemoveRcBlocks, RestoreGitSshCommand, Items

\* A directory that an activation is filling is not the user's.
LEMMA Mine ==
    ASSUME Control, Owned, cmd.at \in {"plant", "commit"}
    PROVE  ssh.id # 0 /\ ssh.owner # "user" /\ cmd.op = "activate"
<1>1. cmd.op = "activate" BY DEF Control, InPlace, SetupStages, RestoreStages
<1>2. ssh.id = cmd.mine /\ cmd.mine # 0 /\ cmd.mine \notin theirs BY <1>1 DEF Control
<1> QED BY <1>1, <1>2 DEF Owned, Known

\* No directory is in two places or lost.
LEMMA OwnedKept ==
    ASSUME SSHCanaryAssumption, SSHInv, Next
    PROVE  Owned'
<1>0. Shapes /\ Control /\ Slotted /\ Recorded /\ Owned /\ Bottom /\ Calm /\ Dated /\ Faithful /\ Rowed BY DEF SSHInv
<1>1. ASSUME NEW force \in BOOLEAN, StartSetup(force) PROVE Owned' BY <1>0, <1>1, StartSetupDoes DEF Owned, Known
<1>2. ASSUME NEW force \in BOOLEAN, StartActivate(force) PROVE Owned' BY <1>0, <1>2, StartActivateDoes DEF Owned, Known
<1>3. ASSUME NEW force \in BOOLEAN, StartRestore(force) PROVE Owned' BY <1>0, <1>3, StartRestoreDoes DEF Owned, Known
<1>4. ASSUME NEW f \in Keys, CopyFile(f) PROVE Owned' BY <1>0, <1>4, CopyFileDoes DEF Owned, Known
<1>5. ASSUME CopyDone PROVE Owned' BY <1>0, <1>5, CopyDoneDoes DEF Owned, Known
<1>6. ASSUME WriteConfig PROVE Owned' BY <1>0, <1>6, WriteConfigDoes DEF Owned, Known
<1>7. ASSUME RecordConfig PROVE Owned' BY <1>0, <1>7, RecordConfigDoes DEF Owned, Known
<1>8. ASSUME NEW item \in Items, Install(item) PROVE Owned' BY <1>0, <1>8, InstallDoes DEF Owned, Known
<1>9. ASSUME NEW item \in Items, RecordInstall(item) PROVE Owned' BY <1>0, <1>9, RecordInstallDoes DEF Owned, Known
<1>10. ASSUME FinishSetup PROVE Owned' BY <1>0, <1>10, FinishSetupDoes DEF Owned, Known
<1>11. ASSUME CheckAll PROVE Owned' BY <1>0, <1>11, CheckAllDoes DEF Owned, Known
<1>12. ASSUME RenameAway PROVE Owned' BY <1>0, <1>12, RenameAwayDoes, Pushed DEF Owned, Known
<1>13. ASSUME VerifyBackup PROVE Owned' BY <1>0, <1>13, VerifyBackupDoes DEF Owned, Known
<1>14. ASSUME MakeDirectory PROVE Owned' BY <1>0, <1>14, MakeDirectoryDoes, Made DEF Owned, Known
<1>15. ASSUME PlantCanary PROVE Owned'
    <2>1. CASE ssh' = ssh BY <2>1, <1>0, <1>15, PlantCanaryDoes DEF Owned, Known
    <2>2. CASE ssh' # ssh
        <3>1. ssh' = [ssh EXCEPT !.files[Planted[cmd.planted + 1]] = Canary] /\ Planted[cmd.planted + 1] \in Names
            BY <2>2, <1>0, <1>15, PlantCanaryDoes
        <3>2. ssh'.id = ssh.id /\ ssh'.owner = ssh.owner BY <3>1, <1>0, FileSet, Nothing DEF Shapes
        <3>3. ssh.id # 0 /\ ssh.owner # "user" BY <1>0, <1>15, PlantCanaryDoes, Mine
        <3> QED BY <3>2, <3>3, <1>0, <1>15, PlantCanaryDoes, Changed
    <2> QED BY <2>1, <2>2
<1>16. ASSUME CopyAuthorizedKeys PROVE Owned'
    <2>1. CASE ssh' = ssh BY <2>1, <1>0, <1>16, CopyAuthorizedKeysDoes DEF Owned, Known
    <2>2. CASE ssh' # ssh
        <3>0. ssh' = [ssh EXCEPT !.files[AuthorizedKeys] = slots[cmd.slot].dir.files[AuthorizedKeys]]
            BY <2>2, <1>0, <1>16, CopyAuthorizedKeysDoes
        <3>1. cmd.slot \in DOMAIN slots BY <1>0, <1>16, CopyAuthorizedKeysDoes, SlotDirs DEF Control, Away
        <3>2. slots[cmd.slot].dir.files[AuthorizedKeys] \in Content BY <3>1, <1>0, SlotDirs, NamesKnown DEF Dir
        <3>3. ssh'.id = ssh.id /\ ssh'.owner = ssh.owner BY <3>0, <3>2, <1>0, FileSet, NamesKnown DEF Shapes
        <3>4. ssh.id # 0 /\ ssh.owner # "user" BY <1>0, <1>16, CopyAuthorizedKeysDoes, Mine
        <3> QED BY <3>3, <3>4, <1>0, <1>16, CopyAuthorizedKeysDoes, Changed
    <2> QED BY <2>1, <2>2
<1>17. ASSUME Commit PROVE Owned' BY <1>0, <1>17, CommitDoes DEF Owned, Known
<1>18. ASSUME Unplant PROVE Owned'
    <2>1. CASE ssh' = ssh BY <2>1, <1>0, <1>18, UnplantDoes DEF Owned, Known
    <2>2. CASE ssh' # ssh
        <3>1. cmd.mine # 0 /\ ssh.id = cmd.mine BY <2>2, <1>0, <1>18, UnplantDoes
        <3>2. cmd.mine \notin theirs BY <1>0, <1>18, UnplantDoes DEF Control, InPlace, SetupStages, RestoreStages
        <3>3. CASE ssh' = NoDir BY <3>1, <3>2, <3>3, <1>0, <1>18, UnplantDoes, Removed
        <3>4. CASE ssh' # NoDir
            <4>1. PICK f \in Names : ssh' = [ssh EXCEPT !.files[f] = Absent] BY <2>2, <3>4, <1>0, <1>18, UnplantDoes
            <4>2. ssh'.id = ssh.id /\ ssh'.owner = ssh.owner BY <4>1, <1>0, FileSet, Nothing DEF Shapes
            <4>3. ssh.id # 0 /\ ssh.owner # "user" BY <3>1, <3>2, <1>0 DEF Owned, Known
            <4> QED BY <4>2, <4>3, <1>0, <1>18, UnplantDoes, Changed
        <3> QED BY <3>3, <3>4
    <2> QED BY <2>1, <2>2
<1>19. ASSUME RenameBack PROVE Owned'
    <2>1. cmd.slot \in DOMAIN slots BY <1>0, <1>19, RenameBackDoes, SlotDirs DEF Control, Away
    <2> QED BY <2>1, <1>0, <1>19, RenameBackDoes, Popped DEF Owned, Known
<1>20. ASSUME NEW item \in Items, Undo(item) PROVE Owned' BY <1>0, <1>20, UndoDoes DEF Owned, Known
<1>21. ASSUME NEW item \in Items, RetireUndone(item) PROVE Owned' BY <1>0, <1>21, RetireUndoneDoes DEF Owned, Known
<1>22. ASSUME ChooseBackup PROVE Owned' BY <1>0, <1>22, ChooseBackupDoes DEF Owned, Known
<1>23. ASSUME MoveAside PROVE Owned' BY <1>0, <1>23, MoveAsideDoes, Pushed DEF Owned, Known
<1>24. ASSUME ReturnBackup PROVE Owned'
    <2>1. cmd.slot \in DOMAIN slots BY <1>0, <1>24, ReturnBackupDoes DEF Control, Taking, Backups
    <2> QED BY <2>1, <1>0, <1>24, ReturnBackupDoes, Popped DEF Owned, Known
<1>25. ASSUME UndoAside PROVE Owned'
    <2>1. cmd.mine # 0 => cmd.mine \in DOMAIN slots BY <1>0, <1>25, UndoAsideDoes, SlotDirs DEF Control
    <2> QED BY <2>1, <1>0, <1>25, UndoAsideDoes, Popped DEF Owned, Known
<1>26. ASSUME Deactivate PROVE Owned' BY <1>0, <1>26, DeactivateDoes DEF Owned, Known
<1>27. ASSUME FinishRestore PROVE Owned' BY <1>0, <1>27, FinishRestoreDoes DEF Owned, Known
<1>28. ASSUME UserWrites PROVE Owned'
    <2>1. PICK f \in Names : ssh' = [ssh EXCEPT !.files[f] = Fresh] BY <1>0, <1>28, UserWritesDoes
    <2>2. /\ ssh'.id = ssh.id /\ ssh'.owner = ssh.owner /\ ssh'.files[f] = Fresh
          /\ \A g \in Names : g # f => ssh'.files[g] = ssh.files[g] BY <2>1, <1>0, FileSet, FreshKnown DEF Shapes
    <2>3. ssh.owner = "user" => \A g \in Names : ssh'.files[g] # Canary BY <2>2, <1>0, FreshKnown DEF Owned, Known
    <2>4. ssh.id # 0 BY <1>0, <1>28, UserWritesDoes DEF Owned, Known
    <2> QED BY <2>2, <2>3, <2>4, <1>0, <1>28, UserWritesDoes, Changed
<1>29. ASSUME UserCreates PROVE Owned'
    <2>1. \A f \in Names : ssh'.files[f] # Canary BY <1>0, <1>29, UserCreatesDoes, Nothing, FreshKnown
    <2> QED BY <2>1, <1>0, <1>29, UserCreatesDoes, Made
<1>30. ASSUME UserWritesCopy PROVE Owned' BY <1>0, <1>30, UserWritesCopyDoes DEF Owned, Known
<1>31. ASSUME UserChangesItem PROVE Owned' BY <1>0, <1>31, UserChangesItemDoes DEF Owned, Known
<1>32. ASSUME Crash PROVE Owned' BY <1>0, <1>32, CrashDoes DEF Owned, Known
<1> QED BY <1>1, <1>2, <1>3, <1>4, <1>5, <1>6, <1>7, <1>8, <1>9, <1>10, <1>11, <1>12, <1>13, <1>14,
           <1>15, <1>16, <1>17, <1>18, <1>19, <1>20, <1>21, <1>22, <1>23, <1>24, <1>25, <1>26, <1>27,
           <1>28, <1>29, <1>30, <1>31, <1>32
        DEF Next, Command, Phase1, Phase2, Restore, InstallWrappers, InstallRcBlock, SetGitSshCommand,
            RemoveWrappers, RemoveRcBlocks, RestoreGitSshCommand, Items

\* The row goes on naming the newest of the backups.
LEMMA RecordedKept ==
    ASSUME SSHCanaryAssumption, SSHInv, Next
    PROVE  Recorded'
<1>0. Shapes /\ Control /\ Slotted /\ Recorded /\ Owned /\ Bottom /\ Calm /\ Dated /\ Faithful /\ Rowed BY DEF SSHInv
<1>1. ASSUME NEW force \in BOOLEAN, StartSetup(force) PROVE Recorded' BY <1>0, <1>1, StartSetupDoes DEF Recorded
<1>2. ASSUME NEW force \in BOOLEAN, StartActivate(force) PROVE Recorded' BY <1>0, <1>2, StartActivateDoes DEF Recorded
<1>3. ASSUME NEW force \in BOOLEAN, StartRestore(force) PROVE Recorded' BY <1>0, <1>3, StartRestoreDoes DEF Recorded
<1>4. ASSUME NEW f \in Keys, CopyFile(f) PROVE Recorded' BY <1>0, <1>4, CopyFileDoes DEF Recorded
<1>5. ASSUME CopyDone PROVE Recorded' BY <1>0, <1>5, CopyDoneDoes DEF Recorded
<1>6. ASSUME WriteConfig PROVE Recorded' BY <1>0, <1>6, WriteConfigDoes DEF Recorded
<1>7. ASSUME RecordConfig PROVE Recorded' BY <1>0, <1>7, RecordConfigDoes DEF Recorded
<1>8. ASSUME NEW item \in Items, Install(item) PROVE Recorded' BY <1>0, <1>8, InstallDoes DEF Recorded
<1>9. ASSUME NEW item \in Items, RecordInstall(item) PROVE Recorded' BY <1>0, <1>9, RecordInstallDoes DEF Recorded
<1>10. ASSUME FinishSetup PROVE Recorded' BY <1>0, <1>10, FinishSetupDoes DEF Recorded
<1>11. ASSUME CheckAll PROVE Recorded' BY <1>0, <1>11, CheckAllDoes DEF Recorded
<1>12. ASSUME RenameAway PROVE Recorded'
    <2>1. cmd.op = "activate" BY <1>0, <1>12, RenameAwayDoes DEF Control, InPlace, SetupStages, RestoreStages
    <2>2. db.backup = 0 BY <2>1, <1>0 DEF Control
    <2> QED BY <2>2, <1>0, <1>12, RenameAwayDoes DEF Recorded
<1>13. ASSUME VerifyBackup PROVE Recorded' BY <1>0, <1>13, VerifyBackupDoes DEF Recorded
<1>14. ASSUME MakeDirectory PROVE Recorded' BY <1>0, <1>14, MakeDirectoryDoes DEF Recorded
<1>15. ASSUME PlantCanary PROVE Recorded' BY <1>0, <1>15, PlantCanaryDoes DEF Recorded
<1>16. ASSUME CopyAuthorizedKeys PROVE Recorded' BY <1>0, <1>16, CopyAuthorizedKeysDoes DEF Recorded
<1>17. ASSUME Commit PROVE Recorded'
    <2>1. CASE db' = db BY <2>1, <1>0, <1>17, CommitDoes DEF Recorded
    <2>2. CASE db' # db
        <3>1. db'.backup = cmd.slot /\ db'.phase = "activated" BY <2>2, <1>0, <1>17, CommitDoes
        <3>2. cmd.slot = Len(slots) /\ cmd.slot # 0 /\ slots[cmd.slot].kind = "backup" BY <1>0, <1>17, CommitDoes DEF Control, Away
        <3>3. cmd.slot \in DOMAIN slots /\ \A i \in DOMAIN slots : i <= cmd.slot BY <3>2, <1>0, SlotDirs
        <3> QED BY <3>1, <3>2, <3>3, <1>0, <1>17, CommitDoes DEF Recorded
    <2> QED BY <2>1, <2>2
<1>18. ASSUME Unplant PROVE Recorded' BY <1>0, <1>18, UnplantDoes DEF Recorded
<1>19. ASSUME RenameBack PROVE Recorded'
    <2>1. cmd.slot \in DOMAIN slots BY <1>0, <1>19, RenameBackDoes, SlotDirs DEF Control, Away
    <2>2. DOMAIN slots' = DOMAIN slots /\ \A i \in DOMAIN slots : slots'[i].kind = slots[i].kind
        BY <2>1, <1>0, <1>19, RenameBackDoes, Popped
    <2> QED BY <2>2, <1>0, <1>19, RenameBackDoes DEF Recorded
<1>20. ASSUME NEW item \in Items, Undo(item) PROVE Recorded' BY <1>0, <1>20, UndoDoes DEF Recorded
<1>21. ASSUME NEW item \in Items, RetireUndone(item) PROVE Recorded' BY <1>0, <1>21, RetireUndoneDoes DEF Recorded
<1>22. ASSUME ChooseBackup PROVE Recorded' BY <1>0, <1>22, ChooseBackupDoes DEF Recorded
<1>23. ASSUME MoveAside PROVE Recorded'
    <2>1. CASE slots' = slots BY <2>1, <1>0, <1>23, MoveAsideDoes DEF Recorded
    <2>2. CASE slots' # slots
        <3>1. ssh # NoDir /\ ssh' = NoDir /\ slots' = Append(slots, [kind |-> "aside", dir |-> ssh]) BY <2>2, <1>0, <1>23, MoveAsideDoes
        <3>2. /\ DOMAIN slots' = DOMAIN slots \cup {Len(slots) + 1} /\ slots'[Len(slots) + 1].kind = "aside"
              /\ \A i \in DOMAIN slots : slots'[i] = slots[i] BY <3>1, <1>0, <1>23, MoveAsideDoes, Pushed
        <3> QED BY <3>2, <1>0, <1>23, MoveAsideDoes DEF Recorded
    <2> QED BY <2>1, <2>2
<1>24. ASSUME ReturnBackup PROVE Recorded'
    <2>1. cmd.slot \in DOMAIN slots BY <1>0, <1>24, ReturnBackupDoes DEF Control, Taking, Backups
    <2>2. DOMAIN slots' = DOMAIN slots /\ \A i \in DOMAIN slots : slots'[i].kind = slots[i].kind
        BY <2>1, <1>0, <1>24, ReturnBackupDoes, Popped
    <2> QED BY <2>2, <1>0, <1>24, ReturnBackupDoes DEF Recorded
<1>25. ASSUME UndoAside PROVE Recorded'
    <2>1. cmd.mine # 0 => cmd.mine \in DOMAIN slots BY <1>0, <1>25, UndoAsideDoes, SlotDirs DEF Control
    <2>2. DOMAIN slots' = DOMAIN slots /\ \A i \in DOMAIN slots : slots'[i].kind = slots[i].kind
        BY <2>1, <1>0, <1>25, UndoAsideDoes, Popped
    <2> QED BY <2>2, <1>0, <1>25, UndoAsideDoes DEF Recorded
<1>26. ASSUME Deactivate PROVE Recorded' BY <1>0, <1>26, DeactivateDoes DEF Recorded
<1>27. ASSUME FinishRestore PROVE Recorded' BY <1>0, <1>27, FinishRestoreDoes DEF Recorded
<1>28. ASSUME UserWrites PROVE Recorded' BY <1>0, <1>28, UserWritesDoes DEF Recorded
<1>29. ASSUME UserCreates PROVE Recorded' BY <1>0, <1>29, UserCreatesDoes DEF Recorded
<1>30. ASSUME UserWritesCopy PROVE Recorded' BY <1>0, <1>30, UserWritesCopyDoes DEF Recorded
<1>31. ASSUME UserChangesItem PROVE Recorded' BY <1>0, <1>31, UserChangesItemDoes DEF Recorded
<1>32. ASSUME Crash PROVE Recorded' BY <1>0, <1>32, CrashDoes DEF Recorded
<1> QED BY <1>1, <1>2, <1>3, <1>4, <1>5, <1>6, <1>7, <1>8, <1>9, <1>10, <1>11, <1>12, <1>13, <1>14,
           <1>15, <1>16, <1>17, <1>18, <1>19, <1>20, <1>21, <1>22, <1>23, <1>24, <1>25, <1>26, <1>27,
           <1>28, <1>29, <1>30, <1>31, <1>32
        DEF Next, Command, Phase1, Phase2, Restore, InstallWrappers, InstallRcBlock, SetGitSshCommand,
            RemoveWrappers, RemoveRcBlocks, RestoreGitSshCommand, Items

\* While a backup is being made, checked or taken there is one.
LEMMA SomeBackup ==
    ASSUME Shapes, Control, cmd.at \in Away \cup Taking
    PROVE  cmd.slot \in Backups /\ \A i \in Backups : i <= cmd.slot
<1>1. CASE cmd.at \in Taking BY <1>1 DEF Control
<1>2. CASE cmd.at \in Away
    <2>1. cmd.slot \in DOMAIN slots /\ \A i \in DOMAIN slots : i <= cmd.slot BY <1>2, SlotDirs DEF Control
    <2>2. slots[cmd.slot].kind = "backup" /\ slots[cmd.slot].dir # NoDir BY <1>2, Nothing DEF Control
    <2> QED BY <2>1, <2>2 DEF Backups
<1> QED BY <1>1, <1>2

\* With a backup there, what happens to ~/.ssh does not matter.
LEMMA BottomStays ==
    ASSUME Bottom, Backups # {}, Backups \subseteq DOMAIN slots, Backups' = Backups,
           \A i \in Backups : slots'[i] = slots[i]
    PROVE  Bottom'
<1>1. PICK i \in Backups : slots[i].dir.owner = "user" /\ \A j \in Backups : i <= j BY DEF Bottom
<1>2. i \in Backups' /\ slots'[i].dir.owner = "user" /\ \A j \in Backups' : i <= j BY <1>1
<1> QED BY <1>2 DEF Bottom

\* Taking the newest backup leaves the oldest, or was that one.
LEMMA TopTaken ==
    ASSUME Bottom, NEW k \in Backups, \A i \in Backups : i <= k, Backups \subseteq DOMAIN slots, Shapes,
           ssh' = slots[k].dir, Backups' = Backups \ {k}, \A i \in DOMAIN slots : i # k => slots'[i] = slots[i]
    PROVE  Bottom'
<1>1. PICK i \in Backups : slots[i].dir.owner = "user" /\ \A j \in Backups : i <= j BY DEF Bottom
<1>2. CASE i = k
    <2>1. \A j \in Backups : j = k
        <3> SUFFICES ASSUME NEW j \in Backups PROVE j = k OBVIOUS
        <3>1. j <= k /\ k <= j /\ j \in Nat /\ k \in Nat BY <1>1, <1>2, SlotDirs
        <3> QED BY <3>1
    <2>2. Backups' = {} BY <2>1
    <2> QED BY <2>2, <1>1, <1>2 DEF Bottom
<1>3. CASE i # k
    <2>1. i \in Backups' /\ slots'[i].dir.owner = "user" /\ \A j \in Backups' : i <= j BY <1>1, <1>3
    <2> QED BY <2>1 DEF Bottom
<1> QED BY <1>2, <1>3

\* The oldest backup stays the user's directory.
LEMMA BottomKept ==
    ASSUME SSHCanaryAssumption, SSHInv, Next
    PROVE  Bottom'
<1>0. Shapes /\ Control /\ Slotted /\ Recorded /\ Owned /\ Bottom /\ Calm /\ Dated /\ Faithful /\ Rowed BY DEF SSHInv
<1>1. ASSUME NEW force \in BOOLEAN, StartSetup(force) PROVE Bottom' BY <1>0, <1>1, StartSetupDoes DEF Bottom, Backups
<1>2. ASSUME NEW force \in BOOLEAN, StartActivate(force) PROVE Bottom' BY <1>0, <1>2, StartActivateDoes DEF Bottom, Backups
<1>3. ASSUME NEW force \in BOOLEAN, StartRestore(force) PROVE Bottom' BY <1>0, <1>3, StartRestoreDoes DEF Bottom, Backups
<1>4. ASSUME NEW f \in Keys, CopyFile(f) PROVE Bottom' BY <1>0, <1>4, CopyFileDoes DEF Bottom, Backups
<1>5. ASSUME CopyDone PROVE Bottom' BY <1>0, <1>5, CopyDoneDoes DEF Bottom, Backups
<1>6. ASSUME WriteConfig PROVE Bottom' BY <1>0, <1>6, WriteConfigDoes DEF Bottom, Backups
<1>7. ASSUME RecordConfig PROVE Bottom' BY <1>0, <1>7, RecordConfigDoes DEF Bottom, Backups
<1>8. ASSUME NEW item \in Items, Install(item) PROVE Bottom' BY <1>0, <1>8, InstallDoes DEF Bottom, Backups
<1>9. ASSUME NEW item \in Items, RecordInstall(item) PROVE Bottom' BY <1>0, <1>9, RecordInstallDoes DEF Bottom, Backups
<1>10. ASSUME FinishSetup PROVE Bottom' BY <1>0, <1>10, FinishSetupDoes DEF Bottom, Backups
<1>11. ASSUME CheckAll PROVE Bottom' BY <1>0, <1>11, CheckAllDoes DEF Bottom, Backups
<1>12. ASSUME RenameAway PROVE Bottom'
    <2>1. CASE UNCHANGED <<ssh, slots>> BY <2>1, <1>0 DEF Bottom, Backups
    <2>2. CASE ~UNCHANGED <<ssh, slots>>
        <3> DEFINE n == Len(slots) + 1
        <3>1. ssh # NoDir /\ ssh' = NoDir /\ slots' = Append(slots, [kind |-> "backup", dir |-> ssh])
            BY <2>2, <1>0, <1>12, RenameAwayDoes
        <3>2. /\ slots'[n].dir = ssh /\ Backups' = Backups \cup {n} /\ n \in Nat
              /\ \A i \in DOMAIN slots : slots'[i] = slots[i] /\ i < n
            BY <3>1, <1>0, <1>12, RenameAwayDoes, Pushed
        <3> HIDE DEF n
        <3>3. CASE Backups = {} /\ ssh.owner = "user"
            <4>1. n \in Backups' /\ slots'[n].dir.owner = "user" /\ \A j \in Backups' : n <= j BY <3>2, <3>3
            <4> QED BY <4>1 DEF Bottom
        <3>4. CASE Backups # {}
            <4>1. PICK i \in Backups : slots[i].dir.owner = "user" /\ \A j \in Backups : i <= j BY <3>4, <1>0 DEF Bottom
            <4>2. i \in DOMAIN slots /\ i \in Nat BY <4>1, <1>0, SlotDirs DEF Backups
            <4>3. i \in Backups' /\ slots'[i].dir.owner = "user" /\ i <= n BY <3>2, <4>1, <4>2
            <4>4. \A j \in Backups' : i <= j BY <3>2, <4>1, <4>3
            <4> QED BY <4>3, <4>4 DEF Bottom
        <3> QED BY <3>3, <3>4, <1>0 DEF Bottom
    <2> QED BY <2>1, <2>2
<1>13. ASSUME VerifyBackup PROVE Bottom' BY <1>0, <1>13, VerifyBackupDoes DEF Bottom, Backups
<1>14. ASSUME MakeDirectory PROVE Bottom'
    <2>1. Backups # {} BY <1>0, <1>14, MakeDirectoryDoes, SomeBackup DEF Away, Taking
    <2>2. Backups' = Backups BY <1>0, <1>14, MakeDirectoryDoes DEF Backups
    <2> QED BY <2>1, <2>2, <1>0, <1>14, MakeDirectoryDoes, BottomStays DEF Backups
<1>15. ASSUME PlantCanary PROVE Bottom'
    <2>1. Backups # {} BY <1>0, <1>15, PlantCanaryDoes, SomeBackup DEF Away, Taking
    <2>2. Backups' = Backups BY <1>0, <1>15, PlantCanaryDoes DEF Backups
    <2> QED BY <2>1, <2>2, <1>0, <1>15, PlantCanaryDoes, BottomStays DEF Backups
<1>16. ASSUME CopyAuthorizedKeys PROVE Bottom'
    <2>1. Backups # {} BY <1>0, <1>16, CopyAuthorizedKeysDoes, SomeBackup DEF Away, Taking
    <2>2. Backups' = Backups BY <1>0, <1>16, CopyAuthorizedKeysDoes DEF Backups
    <2> QED BY <2>1, <2>2, <1>0, <1>16, CopyAuthorizedKeysDoes, BottomStays DEF Backups
<1>17. ASSUME Commit PROVE Bottom' BY <1>0, <1>17, CommitDoes DEF Bottom, Backups
<1>18. ASSUME Unplant PROVE Bottom'
    <2>1. Backups # {} BY <1>0, <1>18, UnplantDoes, SomeBackup DEF Away, Taking
    <2>2. Backups' = Backups BY <1>0, <1>18, UnplantDoes DEF Backups
    <2> QED BY <2>1, <2>2, <1>0, <1>18, UnplantDoes, BottomStays DEF Backups
<1>19. ASSUME RenameBack PROVE Bottom'
    <2>1. CASE UNCHANGED <<ssh, slots>> BY <2>1, <1>0 DEF Bottom, Backups
    <2>2. CASE ~UNCHANGED <<ssh, slots>>
        <3>0. cmd.slot \in Backups /\ \A i \in Backups : i <= cmd.slot BY <1>0, <1>19, RenameBackDoes, SomeBackup DEF Away, Taking
        <3>1. cmd.slot \in DOMAIN slots BY <3>0 DEF Backups
        <3>2. ssh' = slots[cmd.slot].dir /\ slots' = [slots EXCEPT ![cmd.slot].dir = NoDir] /\ ssh = NoDir
            BY <2>2, <1>0, <1>19, RenameBackDoes
        <3>3. Backups' = Backups \ {cmd.slot} /\ \A i \in DOMAIN slots : i # cmd.slot => slots'[i] = slots[i]
            BY <3>1, <3>2, <1>0, <1>19, RenameBackDoes, Popped
        <3> QED BY <3>0, <3>2, <3>3, <1>0, TopTaken DEF Backups
    <2> QED BY <2>1, <2>2
<1>20. ASSUME NEW item \in Items, Undo(item) PROVE Bottom' BY <1>0, <1>20, UndoDoes DEF Bottom, Backups
<1>21. ASSUME NEW item \in Items, RetireUndone(item) PROVE Bottom' BY <1>0, <1>21, RetireUndoneDoes DEF Bottom, Backups
<1>22. ASSUME ChooseBackup PROVE Bottom' BY <1>0, <1>22, ChooseBackupDoes DEF Bottom, Backups
<1>23. ASSUME MoveAside PROVE Bottom'
    <2>0. Backups # {} BY <1>0, <1>23, MoveAsideDoes, SomeBackup DEF Away, Taking
    <2>1. CASE UNCHANGED <<ssh, slots>> BY <2>1, <1>0 DEF Bottom, Backups
    <2>2. CASE ~UNCHANGED <<ssh, slots>>
        <3>1. ssh # NoDir /\ ssh' = NoDir /\ slots' = Append(slots, [kind |-> "aside", dir |-> ssh])
            BY <2>2, <1>0, <1>23, MoveAsideDoes
        <3>2. Backups' = Backups /\ \A i \in DOMAIN slots : slots'[i] = slots[i]
            BY <3>1, <1>0, <1>23, MoveAsideDoes, Pushed
        <3> QED BY <2>0, <3>2, <1>0, BottomStays DEF Backups
    <2> QED BY <2>1, <2>2
<1>24. ASSUME ReturnBackup PROVE Bottom'
    <2>1. CASE UNCHANGED <<ssh, slots>> BY <2>1, <1>0 DEF Bottom, Backups
    <2>2. CASE ~UNCHANGED <<ssh, slots>>
        <3>0. cmd.slot \in Backups /\ \A i \in Backups : i <= cmd.slot BY <1>0, <1>24, ReturnBackupDoes, SomeBackup DEF Away, Taking
        <3>1. cmd.slot \in DOMAIN slots BY <3>0 DEF Backups
        <3>2. ssh' = slots[cmd.slot].dir /\ slots' = [slots EXCEPT ![cmd.slot].dir = NoDir] /\ ssh = NoDir
            BY <2>2, <1>0, <1>24, ReturnBackupDoes
        <3>3. Backups' = Backups \ {cmd.slot} /\ \A i \in DOMAIN slots : i # cmd.slot => slots'[i] = slots[i]
            BY <3>1, <3>2, <1>0, <1>24, ReturnBackupDoes, Popped
        <3> QED BY <3>0, <3>2, <3>3, <1>0, TopTaken DEF Backups
    <2> QED BY <2>1, <2>2
<1>25. ASSUME UndoAside PROVE Bottom'
    <2>0. Backups # {} BY <1>0, <1>25, UndoAsideDoes, SomeBackup DEF Away, Taking
    <2>1. CASE UNCHANGED <<ssh, slots>> BY <2>1, <1>0 DEF Bottom, Backups
    <2>2. CASE ~UNCHANGED <<ssh, slots>>
        <3>1. /\ cmd.mine # 0 /\ ssh = NoDir /\ ssh' = slots[cmd.mine].dir
              /\ slots' = [slots EXCEPT ![cmd.mine].dir = NoDir]
            BY <2>2, <1>0, <1>25, UndoAsideDoes
        <3>2. cmd.mine \in DOMAIN slots /\ slots[cmd.mine].kind = "aside" BY <3>1, <1>0, <1>25, UndoAsideDoes, SlotDirs DEF Control
        <3>3. Backups' = Backups \ {cmd.mine} /\ \A i \in DOMAIN slots : i # cmd.mine => slots'[i] = slots[i]
            BY <3>1, <3>2, <1>0, <1>25, UndoAsideDoes, Popped
        <3>4. cmd.mine \notin Backups BY <3>2 DEF Backups
        <3> QED BY <2>0, <3>3, <3>4, <1>0, BottomStays DEF Backups
    <2> QED BY <2>1, <2>2
<1>26. ASSUME Deactivate PROVE Bottom' BY <1>0, <1>26, DeactivateDoes DEF Bottom, Backups
<1>27. ASSUME FinishRestore PROVE Bottom' BY <1>0, <1>27, FinishRestoreDoes DEF Bottom, Backups
<1>28. ASSUME UserWrites PROVE Bottom'
    <2>1. PICK f \in Names : ssh' = [ssh EXCEPT !.files[f] = Fresh] BY <1>0, <1>28, UserWritesDoes
    <2>2. ssh'.owner = ssh.owner BY <2>1, <1>0, FileSet, FreshKnown DEF Shapes
    <2> QED BY <2>2, <1>0, <1>28, UserWritesDoes DEF Bottom, Backups
<1>29. ASSUME UserCreates PROVE Bottom' BY <1>0, <1>29, UserCreatesDoes DEF Bottom, Backups
<1>30. ASSUME UserWritesCopy PROVE Bottom' BY <1>0, <1>30, UserWritesCopyDoes DEF Bottom, Backups
<1>31. ASSUME UserChangesItem PROVE Bottom' BY <1>0, <1>31, UserChangesItemDoes DEF Bottom, Backups
<1>32. ASSUME Crash PROVE Bottom' BY <1>0, <1>32, CrashDoes DEF Bottom, Backups
<1> QED BY <1>1, <1>2, <1>3, <1>4, <1>5, <1>6, <1>7, <1>8, <1>9, <1>10, <1>11, <1>12, <1>13, <1>14,
           <1>15, <1>16, <1>17, <1>18, <1>19, <1>20, <1>21, <1>22, <1>23, <1>24, <1>25, <1>26, <1>27,
           <1>28, <1>29, <1>30, <1>31, <1>32
        DEF Next, Command, Phase1, Phase2, Restore, InstallWrappers, InstallRcBlock, SetGitSshCommand,
            RemoveWrappers, RemoveRcBlocks, RestoreGitSshCommand, Items

\* What is old stays old.
LEMMA OldLater ==
    ASSUME Later, used \in Uses, NEW F \in [Names -> Content], Old(F)
    PROVE  \A f \in Names : F[f] <= used'.trouble + 1
<1> SUFFICES ASSUME NEW f \in Names PROVE F[f] <= used'.trouble + 1 OBVIOUS
<1>1. F[f] <= used.trouble + 1 /\ F[f] \in Content BY DEF Old
<1>2. used.trouble \in Nat /\ used'.trouble \in Nat /\ used.trouble <= used'.trouble BY DEF Later, Uses
<1>3. F[f] \in Int BY <1>1 DEF Content, Canary, EmptyFile
<1> QED BY <1>1, <1>2, <1>3

LEMMA Files ==
    ASSUME Shapes
    PROVE  /\ ssh.files \in [Names -> Content] /\ cmd.inv \in [Names -> Content] /\ used \in Uses
           /\ \A i \in DOMAIN slots : slots[i].dir.files \in [Names -> Content]
<1>1. \A i \in DOMAIN slots : slots[i].dir \in Dir BY SlotDirs
<1> QED BY <1>1 DEF Shapes, Dir, Commands

\* An old directory, or one with a file set to something old, is old.
LEMMA OldSet ==
    ASSUME Later, used \in Uses, NEW d \in Dir, NEW f \in Names, NEW c \in Content,
           NEW e, e = [d EXCEPT !.files[f] = c], Old(d.files), c <= used'.trouble + 1
    PROVE  \A g \in Names : e.files[g] <= used'.trouble + 1
<1>1. \A g \in Names : d.files[g] <= used'.trouble + 1 BY OldLater DEF Dir
<1>2. \A g \in Names : g # f => e.files[g] = d.files[g] BY FileSet
<1>3. e.files[f] = c BY FileSet
<1> QED BY <1>1, <1>2, <1>3

LEMMA OldNothing ==
    ASSUME used' \in Uses
    PROVE  \A g \in Names : Empty[g] <= used'.trouble + 1
BY DEF Uses, Empty, Absent

\* What the user writes stays newer than what was there.
LEMMA DatedKept ==
    ASSUME SSHCanaryAssumption, SSHInv, Next
    PROVE  Dated'
<1>0. Shapes /\ Control /\ Slotted /\ Recorded /\ Owned /\ Bottom /\ Calm /\ Dated /\ Faithful /\ Rowed BY DEF SSHInv
<1>1. ASSUME NEW force \in BOOLEAN, StartSetup(force) PROVE Dated'
    <2>1. \A g \in Names : ssh.files[g] <= used'.trouble + 1 BY <1>0, <1>1, StartSetupDoes, OldLater, Files DEF Dated
    <2>2. \A g \in Names : cmd.inv[g] <= used'.trouble + 1 BY <1>0, <1>1, StartSetupDoes, OldLater, Files DEF Dated
    <2>3. \A i \in DOMAIN slots : \A g \in Names : slots[i].dir.files[g] <= used'.trouble + 1
        BY <1>0, <1>1, StartSetupDoes, OldLater, Files DEF Dated
    <2>4. \A g \in Names : Empty[g] <= used'.trouble + 1 BY <1>1, StartSetupDoes, OldNothing, <1>0 DEF Later
    <2> QED BY <2>1, <2>2, <2>3, <2>4, <1>0, <1>1, StartSetupDoes DEF Dated, Old, Ends, MovesTo, Carries, Starts
<1>2. ASSUME NEW force \in BOOLEAN, StartActivate(force) PROVE Dated'
    <2>1. \A g \in Names : ssh.files[g] <= used'.trouble + 1 BY <1>0, <1>2, StartActivateDoes, OldLater, Files DEF Dated
    <2>2. \A g \in Names : cmd.inv[g] <= used'.trouble + 1 BY <1>0, <1>2, StartActivateDoes, OldLater, Files DEF Dated
    <2>3. \A i \in DOMAIN slots : \A g \in Names : slots[i].dir.files[g] <= used'.trouble + 1
        BY <1>0, <1>2, StartActivateDoes, OldLater, Files DEF Dated
    <2>4. \A g \in Names : Empty[g] <= used'.trouble + 1 BY <1>2, StartActivateDoes, OldNothing, <1>0 DEF Later
    <2> QED BY <2>1, <2>2, <2>3, <2>4, <1>0, <1>2, StartActivateDoes DEF Dated, Old, Ends, MovesTo, Carries, Starts
<1>3. ASSUME NEW force \in BOOLEAN, StartRestore(force) PROVE Dated'
    <2>1. \A g \in Names : ssh.files[g] <= used'.trouble + 1 BY <1>0, <1>3, StartRestoreDoes, OldLater, Files DEF Dated
    <2>2. \A g \in Names : cmd.inv[g] <= used'.trouble + 1 BY <1>0, <1>3, StartRestoreDoes, OldLater, Files DEF Dated
    <2>3. \A i \in DOMAIN slots : \A g \in Names : slots[i].dir.files[g] <= used'.trouble + 1
        BY <1>0, <1>3, StartRestoreDoes, OldLater, Files DEF Dated
    <2>4. \A g \in Names : Empty[g] <= used'.trouble + 1 BY <1>3, StartRestoreDoes, OldNothing, <1>0 DEF Later
    <2> QED BY <2>1, <2>2, <2>3, <2>4, <1>0, <1>3, StartRestoreDoes DEF Dated, Old, Ends, MovesTo, Carries, Starts
<1>4. ASSUME NEW f \in Keys, CopyFile(f) PROVE Dated'
    <2>1. \A g \in Names : ssh.files[g] <= used'.trouble + 1 BY <1>0, <1>4, CopyFileDoes, OldLater, Files DEF Dated
    <2>2. \A g \in Names : cmd.inv[g] <= used'.trouble + 1 BY <1>0, <1>4, CopyFileDoes, OldLater, Files DEF Dated
    <2>3. \A i \in DOMAIN slots : \A g \in Names : slots[i].dir.files[g] <= used'.trouble + 1
        BY <1>0, <1>4, CopyFileDoes, OldLater, Files DEF Dated
    <2>4. \A g \in Names : Empty[g] <= used'.trouble + 1 BY <1>4, CopyFileDoes, OldNothing, <1>0 DEF Later
    <2> QED BY <2>1, <2>2, <2>3, <2>4, <1>0, <1>4, CopyFileDoes DEF Dated, Old, Ends, MovesTo, Carries, Starts
<1>5. ASSUME CopyDone PROVE Dated'
    <2>1. \A g \in Names : ssh.files[g] <= used'.trouble + 1 BY <1>0, <1>5, CopyDoneDoes, OldLater, Files DEF Dated
    <2>2. \A g \in Names : cmd.inv[g] <= used'.trouble + 1 BY <1>0, <1>5, CopyDoneDoes, OldLater, Files DEF Dated
    <2>3. \A i \in DOMAIN slots : \A g \in Names : slots[i].dir.files[g] <= used'.trouble + 1
        BY <1>0, <1>5, CopyDoneDoes, OldLater, Files DEF Dated
    <2>4. \A g \in Names : Empty[g] <= used'.trouble + 1 BY <1>5, CopyDoneDoes, OldNothing, <1>0 DEF Later
    <2> QED BY <2>1, <2>2, <2>3, <2>4, <1>0, <1>5, CopyDoneDoes DEF Dated, Old, Ends, MovesTo, Carries, Starts
<1>6. ASSUME WriteConfig PROVE Dated'
    <2>1. \A g \in Names : ssh.files[g] <= used'.trouble + 1 BY <1>0, <1>6, WriteConfigDoes, OldLater, Files DEF Dated
    <2>2. \A g \in Names : cmd.inv[g] <= used'.trouble + 1 BY <1>0, <1>6, WriteConfigDoes, OldLater, Files DEF Dated
    <2>3. \A i \in DOMAIN slots : \A g \in Names : slots[i].dir.files[g] <= used'.trouble + 1
        BY <1>0, <1>6, WriteConfigDoes, OldLater, Files DEF Dated
    <2>4. \A g \in Names : Empty[g] <= used'.trouble + 1 BY <1>6, WriteConfigDoes, OldNothing, <1>0 DEF Later
    <2> QED BY <2>1, <2>2, <2>3, <2>4, <1>0, <1>6, WriteConfigDoes DEF Dated, Old, Ends, MovesTo, Carries, Starts
<1>7. ASSUME RecordConfig PROVE Dated'
    <2>1. \A g \in Names : ssh.files[g] <= used'.trouble + 1 BY <1>0, <1>7, RecordConfigDoes, OldLater, Files DEF Dated
    <2>2. \A g \in Names : cmd.inv[g] <= used'.trouble + 1 BY <1>0, <1>7, RecordConfigDoes, OldLater, Files DEF Dated
    <2>3. \A i \in DOMAIN slots : \A g \in Names : slots[i].dir.files[g] <= used'.trouble + 1
        BY <1>0, <1>7, RecordConfigDoes, OldLater, Files DEF Dated
    <2>4. \A g \in Names : Empty[g] <= used'.trouble + 1 BY <1>7, RecordConfigDoes, OldNothing, <1>0 DEF Later
    <2> QED BY <2>1, <2>2, <2>3, <2>4, <1>0, <1>7, RecordConfigDoes DEF Dated, Old, Ends, MovesTo, Carries, Starts
<1>8. ASSUME NEW item \in Items, Install(item) PROVE Dated'
    <2>1. \A g \in Names : ssh.files[g] <= used'.trouble + 1 BY <1>0, <1>8, InstallDoes, OldLater, Files DEF Dated
    <2>2. \A g \in Names : cmd.inv[g] <= used'.trouble + 1 BY <1>0, <1>8, InstallDoes, OldLater, Files DEF Dated
    <2>3. \A i \in DOMAIN slots : \A g \in Names : slots[i].dir.files[g] <= used'.trouble + 1
        BY <1>0, <1>8, InstallDoes, OldLater, Files DEF Dated
    <2>4. \A g \in Names : Empty[g] <= used'.trouble + 1 BY <1>8, InstallDoes, OldNothing, <1>0 DEF Later
    <2> QED BY <2>1, <2>2, <2>3, <2>4, <1>0, <1>8, InstallDoes DEF Dated, Old, Ends, MovesTo, Carries, Starts
<1>9. ASSUME NEW item \in Items, RecordInstall(item) PROVE Dated'
    <2>1. \A g \in Names : ssh.files[g] <= used'.trouble + 1 BY <1>0, <1>9, RecordInstallDoes, OldLater, Files DEF Dated
    <2>2. \A g \in Names : cmd.inv[g] <= used'.trouble + 1 BY <1>0, <1>9, RecordInstallDoes, OldLater, Files DEF Dated
    <2>3. \A i \in DOMAIN slots : \A g \in Names : slots[i].dir.files[g] <= used'.trouble + 1
        BY <1>0, <1>9, RecordInstallDoes, OldLater, Files DEF Dated
    <2>4. \A g \in Names : Empty[g] <= used'.trouble + 1 BY <1>9, RecordInstallDoes, OldNothing, <1>0 DEF Later
    <2> QED BY <2>1, <2>2, <2>3, <2>4, <1>0, <1>9, RecordInstallDoes DEF Dated, Old, Ends, MovesTo, Carries, Starts
<1>10. ASSUME FinishSetup PROVE Dated'
    <2>1. \A g \in Names : ssh.files[g] <= used'.trouble + 1 BY <1>0, <1>10, FinishSetupDoes, OldLater, Files DEF Dated
    <2>2. \A g \in Names : cmd.inv[g] <= used'.trouble + 1 BY <1>0, <1>10, FinishSetupDoes, OldLater, Files DEF Dated
    <2>3. \A i \in DOMAIN slots : \A g \in Names : slots[i].dir.files[g] <= used'.trouble + 1
        BY <1>0, <1>10, FinishSetupDoes, OldLater, Files DEF Dated
    <2>4. \A g \in Names : Empty[g] <= used'.trouble + 1 BY <1>10, FinishSetupDoes, OldNothing, <1>0 DEF Later
    <2> QED BY <2>1, <2>2, <2>3, <2>4, <1>0, <1>10, FinishSetupDoes DEF Dated, Old, Ends, MovesTo, Carries, Starts
<1>11. ASSUME CheckAll PROVE Dated'
    <2>1. \A g \in Names : ssh.files[g] <= used'.trouble + 1 BY <1>0, <1>11, CheckAllDoes, OldLater, Files DEF Dated
    <2>2. \A g \in Names : cmd.inv[g] <= used'.trouble + 1 BY <1>0, <1>11, CheckAllDoes, OldLater, Files DEF Dated
    <2>3. \A i \in DOMAIN slots : \A g \in Names : slots[i].dir.files[g] <= used'.trouble + 1
        BY <1>0, <1>11, CheckAllDoes, OldLater, Files DEF Dated
    <2>4. \A g \in Names : Empty[g] <= used'.trouble + 1 BY <1>11, CheckAllDoes, OldNothing, <1>0 DEF Later
    <2> QED BY <2>1, <2>2, <2>3, <2>4, <1>0, <1>11, CheckAllDoes DEF Dated, Old, Ends, MovesTo, Carries, Starts
<1>12. ASSUME RenameAway PROVE Dated'
    <2>1. \A g \in Names : ssh.files[g] <= used'.trouble + 1 BY <1>0, <1>12, RenameAwayDoes, OldLater, Files DEF Dated
    <2>2. \A g \in Names : cmd.inv[g] <= used'.trouble + 1 BY <1>0, <1>12, RenameAwayDoes, OldLater, Files DEF Dated
    <2>3. \A i \in DOMAIN slots : \A g \in Names : slots[i].dir.files[g] <= used'.trouble + 1
        BY <1>0, <1>12, RenameAwayDoes, OldLater, Files DEF Dated
    <2>4. \A g \in Names : Empty[g] <= used'.trouble + 1 BY <1>12, RenameAwayDoes, OldNothing, <1>0 DEF Later
    <2>5. CASE UNCHANGED <<ssh, slots>> BY <2>5, <2>1, <2>2, <2>3, <2>4, <1>0, <1>12, RenameAwayDoes DEF Dated, Old, Ends, MovesTo, Carries
    <2>6. CASE ~UNCHANGED <<ssh, slots>>
        <3>1. ssh # NoDir /\ ssh' = NoDir /\ slots' = Append(slots, [kind |-> "backup", dir |-> ssh]) /\ cmd'.inv = cmd.inv
            BY <2>6, <1>0, <1>12, RenameAwayDoes
        <3>2. \A i \in DOMAIN slots' : slots'[i].dir = ssh \/ (i \in DOMAIN slots /\ slots'[i] = slots[i])
            BY <3>1, <1>0, <1>12, RenameAwayDoes, Pushed
        <3>3. \A i \in DOMAIN slots' : \A g \in Names : slots'[i].dir.files[g] <= used'.trouble + 1 BY <3>2, <2>1, <2>3
        <3>4. \A g \in Names : ssh'.files[g] <= used'.trouble + 1 BY <3>1, <2>4, Nothing
        <3> QED BY <3>1, <3>3, <3>4, <2>2 DEF Dated, Old
    <2> QED BY <2>5, <2>6
<1>13. ASSUME VerifyBackup PROVE Dated'
    <2>1. \A g \in Names : ssh.files[g] <= used'.trouble + 1 BY <1>0, <1>13, VerifyBackupDoes, OldLater, Files DEF Dated
    <2>2. \A g \in Names : cmd.inv[g] <= used'.trouble + 1 BY <1>0, <1>13, VerifyBackupDoes, OldLater, Files DEF Dated
    <2>3. \A i \in DOMAIN slots : \A g \in Names : slots[i].dir.files[g] <= used'.trouble + 1
        BY <1>0, <1>13, VerifyBackupDoes, OldLater, Files DEF Dated
    <2>4. \A g \in Names : Empty[g] <= used'.trouble + 1 BY <1>13, VerifyBackupDoes, OldNothing, <1>0 DEF Later
    <2> QED BY <2>1, <2>2, <2>3, <2>4, <1>0, <1>13, VerifyBackupDoes DEF Dated, Old, Ends, MovesTo, Carries, Starts
<1>14. ASSUME MakeDirectory PROVE Dated'
    <2>1. \A g \in Names : ssh.files[g] <= used'.trouble + 1 BY <1>0, <1>14, MakeDirectoryDoes, OldLater, Files DEF Dated
    <2>2. \A g \in Names : cmd.inv[g] <= used'.trouble + 1 BY <1>0, <1>14, MakeDirectoryDoes, OldLater, Files DEF Dated
    <2>3. \A i \in DOMAIN slots : \A g \in Names : slots[i].dir.files[g] <= used'.trouble + 1
        BY <1>0, <1>14, MakeDirectoryDoes, OldLater, Files DEF Dated
    <2>4. \A g \in Names : Empty[g] <= used'.trouble + 1 BY <1>14, MakeDirectoryDoes, OldNothing, <1>0 DEF Later
    <2>7. \A g \in Names : ssh'.files[g] <= used'.trouble + 1 BY <2>1, <2>4, <1>0, <1>14, MakeDirectoryDoes
    <2>8. \A g \in Names : ssh'.files[g] <= used'.trouble + 1 BY <2>7
    <2> QED BY <2>8, <2>2, <2>3, <2>4, <1>0, <1>14, MakeDirectoryDoes DEF Dated, Old, MovesTo, Carries, Ends
<1>15. ASSUME PlantCanary PROVE Dated'
    <2>1. \A g \in Names : ssh.files[g] <= used'.trouble + 1 BY <1>0, <1>15, PlantCanaryDoes, OldLater, Files DEF Dated
    <2>2. \A g \in Names : cmd.inv[g] <= used'.trouble + 1 BY <1>0, <1>15, PlantCanaryDoes, OldLater, Files DEF Dated
    <2>3. \A i \in DOMAIN slots : \A g \in Names : slots[i].dir.files[g] <= used'.trouble + 1
        BY <1>0, <1>15, PlantCanaryDoes, OldLater, Files DEF Dated
    <2>4. \A g \in Names : Empty[g] <= used'.trouble + 1 BY <1>15, PlantCanaryDoes, OldNothing, <1>0 DEF Later
    <2>9. Old(ssh.files) /\ ssh \in Dir /\ used \in Uses /\ Later BY <1>0, <1>15, PlantCanaryDoes DEF Dated, Shapes
    <2>5. Canary <= used'.trouble + 1 BY <1>0, <1>15, PlantCanaryDoes DEF Later, Uses, Canary
    <2>7. \A g \in Names : ssh'.files[g] <= used'.trouble + 1
        <3>1. CASE ssh' = ssh BY <3>1, <2>1
        <3>2. CASE ssh' # ssh
            <4>1. ssh' = [ssh EXCEPT !.files[Planted[cmd.planted + 1]] = Canary] /\ Planted[cmd.planted + 1] \in Names
                BY <3>2, <1>0, <1>15, PlantCanaryDoes
            <4>2. PICK f \in Names : ssh' = [ssh EXCEPT !.files[f] = Canary] BY <4>1
            <4> QED BY <4>2, <2>5, <2>9, OldSet, Nothing
        <3> QED BY <3>1, <3>2
    <2>8. \A g \in Names : ssh'.files[g] <= used'.trouble + 1 BY <2>7
    <2> QED BY <2>8, <2>2, <2>3, <2>4, <1>0, <1>15, PlantCanaryDoes DEF Dated, Old, MovesTo, Carries, Ends
<1>16. ASSUME CopyAuthorizedKeys PROVE Dated'
    <2>1. \A g \in Names : ssh.files[g] <= used'.trouble + 1 BY <1>0, <1>16, CopyAuthorizedKeysDoes, OldLater, Files DEF Dated
    <2>2. \A g \in Names : cmd.inv[g] <= used'.trouble + 1 BY <1>0, <1>16, CopyAuthorizedKeysDoes, OldLater, Files DEF Dated
    <2>3. \A i \in DOMAIN slots : \A g \in Names : slots[i].dir.files[g] <= used'.trouble + 1
        BY <1>0, <1>16, CopyAuthorizedKeysDoes, OldLater, Files DEF Dated
    <2>4. \A g \in Names : Empty[g] <= used'.trouble + 1 BY <1>16, CopyAuthorizedKeysDoes, OldNothing, <1>0 DEF Later
    <2>9. Old(ssh.files) /\ ssh \in Dir /\ used \in Uses /\ Later BY <1>0, <1>16, CopyAuthorizedKeysDoes DEF Dated, Shapes
    <2>5. cmd.slot \in DOMAIN slots BY <1>0, <1>16, CopyAuthorizedKeysDoes, SomeBackup DEF Away, Taking, Backups
    <2>6. slots[cmd.slot].dir.files[AuthorizedKeys] \in Content BY <2>5, <1>0, SlotDirs, NamesKnown DEF Dir
    <2>7. \A g \in Names : ssh'.files[g] <= used'.trouble + 1
        <3>1. CASE ssh' = ssh BY <3>1, <2>1
        <3>2. CASE ssh' # ssh
            <4>1. ssh' = [ssh EXCEPT !.files[AuthorizedKeys] = slots[cmd.slot].dir.files[AuthorizedKeys]]
                BY <3>2, <1>0, <1>16, CopyAuthorizedKeysDoes
            <4>2. slots[cmd.slot].dir.files[AuthorizedKeys] <= used'.trouble + 1 BY <2>3, <2>5, NamesKnown
            <4>3. PICK c \in Content : ssh' = [ssh EXCEPT !.files[AuthorizedKeys] = c] /\ c <= used'.trouble + 1
                BY <4>1, <4>2, <2>6
            <4> QED BY <4>3, <2>9, OldSet, NamesKnown
        <3> QED BY <3>1, <3>2
    <2>8. \A g \in Names : ssh'.files[g] <= used'.trouble + 1 BY <2>7
    <2> QED BY <2>8, <2>2, <2>3, <2>4, <1>0, <1>16, CopyAuthorizedKeysDoes DEF Dated, Old, MovesTo, Carries, Ends
<1>17. ASSUME Commit PROVE Dated'
    <2>1. \A g \in Names : ssh.files[g] <= used'.trouble + 1 BY <1>0, <1>17, CommitDoes, OldLater, Files DEF Dated
    <2>2. \A g \in Names : cmd.inv[g] <= used'.trouble + 1 BY <1>0, <1>17, CommitDoes, OldLater, Files DEF Dated
    <2>3. \A i \in DOMAIN slots : \A g \in Names : slots[i].dir.files[g] <= used'.trouble + 1
        BY <1>0, <1>17, CommitDoes, OldLater, Files DEF Dated
    <2>4. \A g \in Names : Empty[g] <= used'.trouble + 1 BY <1>17, CommitDoes, OldNothing, <1>0 DEF Later
    <2> QED BY <2>1, <2>2, <2>3, <2>4, <1>0, <1>17, CommitDoes DEF Dated, Old, Ends, MovesTo, Carries, Starts
<1>18. ASSUME Unplant PROVE Dated'
    <2>1. \A g \in Names : ssh.files[g] <= used'.trouble + 1 BY <1>0, <1>18, UnplantDoes, OldLater, Files DEF Dated
    <2>2. \A g \in Names : cmd.inv[g] <= used'.trouble + 1 BY <1>0, <1>18, UnplantDoes, OldLater, Files DEF Dated
    <2>3. \A i \in DOMAIN slots : \A g \in Names : slots[i].dir.files[g] <= used'.trouble + 1
        BY <1>0, <1>18, UnplantDoes, OldLater, Files DEF Dated
    <2>4. \A g \in Names : Empty[g] <= used'.trouble + 1 BY <1>18, UnplantDoes, OldNothing, <1>0 DEF Later
    <2>9. Old(ssh.files) /\ ssh \in Dir /\ used \in Uses /\ Later BY <1>0, <1>18, UnplantDoes DEF Dated, Shapes
    <2>5. Absent <= used'.trouble + 1 BY <1>0, <1>18, UnplantDoes DEF Later, Uses, Absent
    <2>7. \A g \in Names : ssh'.files[g] <= used'.trouble + 1
        <3>1. CASE ssh' = ssh BY <3>1, <2>1
        <3>2. CASE ssh' = NoDir BY <3>2, <2>4, Nothing
        <3>3. CASE ssh' # ssh /\ ssh' # NoDir
            <4>1. PICK f \in Names : ssh' = [ssh EXCEPT !.files[f] = Absent] BY <3>3, <1>0, <1>18, UnplantDoes
            <4> QED BY <4>1, <2>5, <2>9, OldSet, Nothing
        <3> QED BY <3>1, <3>2, <3>3
    <2>8. \A g \in Names : ssh'.files[g] <= used'.trouble + 1 BY <2>7
    <2> QED BY <2>8, <2>2, <2>3, <2>4, <1>0, <1>18, UnplantDoes DEF Dated, Old, MovesTo, Carries, Ends
<1>19. ASSUME RenameBack PROVE Dated'
    <2>1. \A g \in Names : ssh.files[g] <= used'.trouble + 1 BY <1>0, <1>19, RenameBackDoes, OldLater, Files DEF Dated
    <2>2. \A g \in Names : cmd.inv[g] <= used'.trouble + 1 BY <1>0, <1>19, RenameBackDoes, OldLater, Files DEF Dated
    <2>3. \A i \in DOMAIN slots : \A g \in Names : slots[i].dir.files[g] <= used'.trouble + 1
        BY <1>0, <1>19, RenameBackDoes, OldLater, Files DEF Dated
    <2>4. \A g \in Names : Empty[g] <= used'.trouble + 1 BY <1>19, RenameBackDoes, OldNothing, <1>0 DEF Later
    <2>5. CASE UNCHANGED <<ssh, slots>> BY <2>5, <2>1, <2>2, <2>3, <2>4, <1>0, <1>19, RenameBackDoes DEF Dated, Old, Ends, MovesTo, Carries
    <2>6. CASE ~UNCHANGED <<ssh, slots>>
        <3>1. /\ ssh = NoDir /\ ssh' = slots[cmd.slot].dir /\ slots' = [slots EXCEPT ![cmd.slot].dir = NoDir]
              /\ cmd'.inv = cmd.inv \/ cmd'.inv = Empty
            BY <2>6, <1>0, <1>19, RenameBackDoes DEF MovesTo, Carries, Ends
        <3>2. cmd.slot \in DOMAIN slots BY <1>0, <1>19, RenameBackDoes, SomeBackup DEF Away, Taking, Backups
        <3>3. /\ DOMAIN slots' = DOMAIN slots /\ slots'[cmd.slot].dir = NoDir
              /\ \A i \in DOMAIN slots : i # cmd.slot => slots'[i] = slots[i]
            BY <3>1, <3>2, <1>0, <1>19, RenameBackDoes, Popped
        <3>4. \A i \in DOMAIN slots' : \A g \in Names : slots'[i].dir.files[g] <= used'.trouble + 1
            BY <3>3, <2>3, <2>4, Nothing
        <3>5. \A g \in Names : ssh'.files[g] <= used'.trouble + 1 BY <3>1, <3>2, <2>3
        <3> QED BY <3>1, <3>4, <3>5, <2>2, <2>4 DEF Dated, Old
    <2> QED BY <2>5, <2>6
<1>20. ASSUME NEW item \in Items, Undo(item) PROVE Dated'
    <2>1. \A g \in Names : ssh.files[g] <= used'.trouble + 1 BY <1>0, <1>20, UndoDoes, OldLater, Files DEF Dated
    <2>2. \A g \in Names : cmd.inv[g] <= used'.trouble + 1 BY <1>0, <1>20, UndoDoes, OldLater, Files DEF Dated
    <2>3. \A i \in DOMAIN slots : \A g \in Names : slots[i].dir.files[g] <= used'.trouble + 1
        BY <1>0, <1>20, UndoDoes, OldLater, Files DEF Dated
    <2>4. \A g \in Names : Empty[g] <= used'.trouble + 1 BY <1>20, UndoDoes, OldNothing, <1>0 DEF Later
    <2> QED BY <2>1, <2>2, <2>3, <2>4, <1>0, <1>20, UndoDoes DEF Dated, Old, Ends, MovesTo, Carries, Starts
<1>21. ASSUME NEW item \in Items, RetireUndone(item) PROVE Dated'
    <2>1. \A g \in Names : ssh.files[g] <= used'.trouble + 1 BY <1>0, <1>21, RetireUndoneDoes, OldLater, Files DEF Dated
    <2>2. \A g \in Names : cmd.inv[g] <= used'.trouble + 1 BY <1>0, <1>21, RetireUndoneDoes, OldLater, Files DEF Dated
    <2>3. \A i \in DOMAIN slots : \A g \in Names : slots[i].dir.files[g] <= used'.trouble + 1
        BY <1>0, <1>21, RetireUndoneDoes, OldLater, Files DEF Dated
    <2>4. \A g \in Names : Empty[g] <= used'.trouble + 1 BY <1>21, RetireUndoneDoes, OldNothing, <1>0 DEF Later
    <2> QED BY <2>1, <2>2, <2>3, <2>4, <1>0, <1>21, RetireUndoneDoes DEF Dated, Old, Ends, MovesTo, Carries, Starts
<1>22. ASSUME ChooseBackup PROVE Dated'
    <2>1. \A g \in Names : ssh.files[g] <= used'.trouble + 1 BY <1>0, <1>22, ChooseBackupDoes, OldLater, Files DEF Dated
    <2>2. \A g \in Names : cmd.inv[g] <= used'.trouble + 1 BY <1>0, <1>22, ChooseBackupDoes, OldLater, Files DEF Dated
    <2>3. \A i \in DOMAIN slots : \A g \in Names : slots[i].dir.files[g] <= used'.trouble + 1
        BY <1>0, <1>22, ChooseBackupDoes, OldLater, Files DEF Dated
    <2>4. \A g \in Names : Empty[g] <= used'.trouble + 1 BY <1>22, ChooseBackupDoes, OldNothing, <1>0 DEF Later
    <2> QED BY <2>1, <2>2, <2>3, <2>4, <1>0, <1>22, ChooseBackupDoes DEF Dated, Old, Ends, MovesTo, Carries, Starts
<1>23. ASSUME MoveAside PROVE Dated'
    <2>1. \A g \in Names : ssh.files[g] <= used'.trouble + 1 BY <1>0, <1>23, MoveAsideDoes, OldLater, Files DEF Dated
    <2>2. \A g \in Names : cmd.inv[g] <= used'.trouble + 1 BY <1>0, <1>23, MoveAsideDoes, OldLater, Files DEF Dated
    <2>3. \A i \in DOMAIN slots : \A g \in Names : slots[i].dir.files[g] <= used'.trouble + 1
        BY <1>0, <1>23, MoveAsideDoes, OldLater, Files DEF Dated
    <2>4. \A g \in Names : Empty[g] <= used'.trouble + 1 BY <1>23, MoveAsideDoes, OldNothing, <1>0 DEF Later
    <2>5. CASE UNCHANGED <<ssh, slots>> BY <2>5, <2>1, <2>2, <2>3, <2>4, <1>0, <1>23, MoveAsideDoes DEF Dated, Old, Ends, MovesTo, Carries
    <2>6. CASE ~UNCHANGED <<ssh, slots>>
        <3>1. ssh # NoDir /\ ssh' = NoDir /\ slots' = Append(slots, [kind |-> "aside", dir |-> ssh]) /\ cmd'.inv = cmd.inv
            BY <2>6, <1>0, <1>23, MoveAsideDoes
        <3>2. \A i \in DOMAIN slots' : slots'[i].dir = ssh \/ (i \in DOMAIN slots /\ slots'[i] = slots[i])
            BY <3>1, <1>0, <1>23, MoveAsideDoes, Pushed
        <3>3. \A i \in DOMAIN slots' : \A g \in Names : slots'[i].dir.files[g] <= used'.trouble + 1 BY <3>2, <2>1, <2>3
        <3>4. \A g \in Names : ssh'.files[g] <= used'.trouble + 1 BY <3>1, <2>4, Nothing
        <3> QED BY <3>1, <3>3, <3>4, <2>2 DEF Dated, Old
    <2> QED BY <2>5, <2>6
<1>24. ASSUME ReturnBackup PROVE Dated'
    <2>1. \A g \in Names : ssh.files[g] <= used'.trouble + 1 BY <1>0, <1>24, ReturnBackupDoes, OldLater, Files DEF Dated
    <2>2. \A g \in Names : cmd.inv[g] <= used'.trouble + 1 BY <1>0, <1>24, ReturnBackupDoes, OldLater, Files DEF Dated
    <2>3. \A i \in DOMAIN slots : \A g \in Names : slots[i].dir.files[g] <= used'.trouble + 1
        BY <1>0, <1>24, ReturnBackupDoes, OldLater, Files DEF Dated
    <2>4. \A g \in Names : Empty[g] <= used'.trouble + 1 BY <1>24, ReturnBackupDoes, OldNothing, <1>0 DEF Later
    <2>5. CASE UNCHANGED <<ssh, slots>> BY <2>5, <2>1, <2>2, <2>3, <2>4, <1>0, <1>24, ReturnBackupDoes DEF Dated, Old, Ends, MovesTo, Carries
    <2>6. CASE ~UNCHANGED <<ssh, slots>>
        <3>1. /\ ssh = NoDir /\ ssh' = slots[cmd.slot].dir /\ slots' = [slots EXCEPT ![cmd.slot].dir = NoDir]
              /\ cmd'.inv = cmd.inv \/ cmd'.inv = Empty
            BY <2>6, <1>0, <1>24, ReturnBackupDoes DEF MovesTo, Carries, Ends
        <3>2. cmd.slot \in DOMAIN slots BY <1>0, <1>24, ReturnBackupDoes, SomeBackup DEF Away, Taking, Backups
        <3>3. /\ DOMAIN slots' = DOMAIN slots /\ slots'[cmd.slot].dir = NoDir
              /\ \A i \in DOMAIN slots : i # cmd.slot => slots'[i] = slots[i]
            BY <3>1, <3>2, <1>0, <1>24, ReturnBackupDoes, Popped
        <3>4. \A i \in DOMAIN slots' : \A g \in Names : slots'[i].dir.files[g] <= used'.trouble + 1
            BY <3>3, <2>3, <2>4, Nothing
        <3>5. \A g \in Names : ssh'.files[g] <= used'.trouble + 1 BY <3>1, <3>2, <2>3
        <3> QED BY <3>1, <3>4, <3>5, <2>2, <2>4 DEF Dated, Old
    <2> QED BY <2>5, <2>6
<1>25. ASSUME UndoAside PROVE Dated'
    <2>1. \A g \in Names : ssh.files[g] <= used'.trouble + 1 BY <1>0, <1>25, UndoAsideDoes, OldLater, Files DEF Dated
    <2>2. \A g \in Names : cmd.inv[g] <= used'.trouble + 1 BY <1>0, <1>25, UndoAsideDoes, OldLater, Files DEF Dated
    <2>3. \A i \in DOMAIN slots : \A g \in Names : slots[i].dir.files[g] <= used'.trouble + 1
        BY <1>0, <1>25, UndoAsideDoes, OldLater, Files DEF Dated
    <2>4. \A g \in Names : Empty[g] <= used'.trouble + 1 BY <1>25, UndoAsideDoes, OldNothing, <1>0 DEF Later
    <2>5. CASE UNCHANGED <<ssh, slots>> BY <2>5, <2>1, <2>2, <2>3, <2>4, <1>0, <1>25, UndoAsideDoes DEF Dated, Old, Ends, MovesTo, Carries
    <2>6. CASE ~UNCHANGED <<ssh, slots>>
        <3>1. /\ ssh = NoDir /\ ssh' = slots[cmd.mine].dir /\ slots' = [slots EXCEPT ![cmd.mine].dir = NoDir]
              /\ cmd'.inv = cmd.inv \/ cmd'.inv = Empty
            BY <2>6, <1>0, <1>25, UndoAsideDoes DEF MovesTo, Carries, Ends
        <3>2. cmd.mine \in DOMAIN slots BY <2>6, <1>0, <1>25, UndoAsideDoes, SlotDirs DEF Control
        <3>3. /\ DOMAIN slots' = DOMAIN slots /\ slots'[cmd.mine].dir = NoDir
              /\ \A i \in DOMAIN slots : i # cmd.mine => slots'[i] = slots[i]
            BY <3>1, <3>2, <1>0, <1>25, UndoAsideDoes, Popped
        <3>4. \A i \in DOMAIN slots' : \A g \in Names : slots'[i].dir.files[g] <= used'.trouble + 1
            BY <3>3, <2>3, <2>4, Nothing
        <3>5. \A g \in Names : ssh'.files[g] <= used'.trouble + 1 BY <3>1, <3>2, <2>3
        <3> QED BY <3>1, <3>4, <3>5, <2>2, <2>4 DEF Dated, Old
    <2> QED BY <2>5, <2>6
<1>26. ASSUME Deactivate PROVE Dated'
    <2>1. \A g \in Names : ssh.files[g] <= used'.trouble + 1 BY <1>0, <1>26, DeactivateDoes, OldLater, Files DEF Dated
    <2>2. \A g \in Names : cmd.inv[g] <= used'.trouble + 1 BY <1>0, <1>26, DeactivateDoes, OldLater, Files DEF Dated
    <2>3. \A i \in DOMAIN slots : \A g \in Names : slots[i].dir.files[g] <= used'.trouble + 1
        BY <1>0, <1>26, DeactivateDoes, OldLater, Files DEF Dated
    <2>4. \A g \in Names : Empty[g] <= used'.trouble + 1 BY <1>26, DeactivateDoes, OldNothing, <1>0 DEF Later
    <2> QED BY <2>1, <2>2, <2>3, <2>4, <1>0, <1>26, DeactivateDoes DEF Dated, Old, Ends, MovesTo, Carries, Starts
<1>27. ASSUME FinishRestore PROVE Dated'
    <2>1. \A g \in Names : ssh.files[g] <= used'.trouble + 1 BY <1>0, <1>27, FinishRestoreDoes, OldLater, Files DEF Dated
    <2>2. \A g \in Names : cmd.inv[g] <= used'.trouble + 1 BY <1>0, <1>27, FinishRestoreDoes, OldLater, Files DEF Dated
    <2>3. \A i \in DOMAIN slots : \A g \in Names : slots[i].dir.files[g] <= used'.trouble + 1
        BY <1>0, <1>27, FinishRestoreDoes, OldLater, Files DEF Dated
    <2>4. \A g \in Names : Empty[g] <= used'.trouble + 1 BY <1>27, FinishRestoreDoes, OldNothing, <1>0 DEF Later
    <2> QED BY <2>1, <2>2, <2>3, <2>4, <1>0, <1>27, FinishRestoreDoes DEF Dated, Old, Ends, MovesTo, Carries, Starts
<1>28. ASSUME UserWrites PROVE Dated'
    <2>1. \A g \in Names : ssh.files[g] <= used'.trouble + 1 BY <1>0, <1>28, UserWritesDoes, OldLater, Files DEF Dated
    <2>2. \A g \in Names : cmd.inv[g] <= used'.trouble + 1 BY <1>0, <1>28, UserWritesDoes, OldLater, Files DEF Dated
    <2>3. \A i \in DOMAIN slots : \A g \in Names : slots[i].dir.files[g] <= used'.trouble + 1
        BY <1>0, <1>28, UserWritesDoes, OldLater, Files DEF Dated
    <2>4. \A g \in Names : Empty[g] <= used'.trouble + 1 BY <1>28, UserWritesDoes, OldNothing, <1>0 DEF Later
    <2>9. Old(ssh.files) /\ ssh \in Dir /\ used \in Uses /\ Later BY <1>0, <1>28, UserWritesDoes DEF Dated, Shapes
    <2>5. Fresh <= used'.trouble + 1 BY <1>0, <1>28, UserWritesDoes, FreshKnown DEF Shapes, Uses
    <2>7. \A g \in Names : ssh'.files[g] <= used'.trouble + 1
        <3>1. PICK f \in Names : ssh' = [ssh EXCEPT !.files[f] = Fresh] BY <1>0, <1>28, UserWritesDoes
        <3> QED BY <3>1, <2>5, <1>0, <2>9, OldSet, FreshKnown
    <2>8. \A g \in Names : ssh'.files[g] <= used'.trouble + 1 BY <2>7
    <2> QED BY <2>8, <2>2, <2>3, <2>4, <1>0, <1>28, UserWritesDoes DEF Dated, Old, MovesTo, Carries, Ends
<1>29. ASSUME UserCreates PROVE Dated'
    <2>1. \A g \in Names : ssh.files[g] <= used'.trouble + 1 BY <1>0, <1>29, UserCreatesDoes, OldLater, Files DEF Dated
    <2>2. \A g \in Names : cmd.inv[g] <= used'.trouble + 1 BY <1>0, <1>29, UserCreatesDoes, OldLater, Files DEF Dated
    <2>3. \A i \in DOMAIN slots : \A g \in Names : slots[i].dir.files[g] <= used'.trouble + 1
        BY <1>0, <1>29, UserCreatesDoes, OldLater, Files DEF Dated
    <2>4. \A g \in Names : Empty[g] <= used'.trouble + 1 BY <1>29, UserCreatesDoes, OldNothing, <1>0 DEF Later
    <2>5. Fresh <= used'.trouble + 1 BY <1>0, <1>29, UserCreatesDoes, FreshKnown DEF Shapes, Uses
    <2>7. \A g \in Names : ssh'.files[g] <= used'.trouble + 1
        <3>1. ssh'.files = [Empty EXCEPT ![KnownHosts] = Fresh] BY <1>0, <1>29, UserCreatesDoes
        <3> QED BY <3>1, <2>4, <2>5, Nothing, NamesKnown
    <2>8. \A g \in Names : ssh'.files[g] <= used'.trouble + 1 BY <2>7
    <2> QED BY <2>8, <2>2, <2>3, <2>4, <1>0, <1>29, UserCreatesDoes DEF Dated, Old, MovesTo, Carries, Ends
<1>30. ASSUME UserWritesCopy PROVE Dated'
    <2>1. \A g \in Names : ssh.files[g] <= used'.trouble + 1 BY <1>0, <1>30, UserWritesCopyDoes, OldLater, Files DEF Dated
    <2>2. \A g \in Names : cmd.inv[g] <= used'.trouble + 1 BY <1>0, <1>30, UserWritesCopyDoes, OldLater, Files DEF Dated
    <2>3. \A i \in DOMAIN slots : \A g \in Names : slots[i].dir.files[g] <= used'.trouble + 1
        BY <1>0, <1>30, UserWritesCopyDoes, OldLater, Files DEF Dated
    <2>4. \A g \in Names : Empty[g] <= used'.trouble + 1 BY <1>30, UserWritesCopyDoes, OldNothing, <1>0 DEF Later
    <2> QED BY <2>1, <2>2, <2>3, <2>4, <1>0, <1>30, UserWritesCopyDoes DEF Dated, Old, Ends, MovesTo, Carries, Starts
<1>31. ASSUME UserChangesItem PROVE Dated'
    <2>1. \A g \in Names : ssh.files[g] <= used'.trouble + 1 BY <1>0, <1>31, UserChangesItemDoes, OldLater, Files DEF Dated
    <2>2. \A g \in Names : cmd.inv[g] <= used'.trouble + 1 BY <1>0, <1>31, UserChangesItemDoes, OldLater, Files DEF Dated
    <2>3. \A i \in DOMAIN slots : \A g \in Names : slots[i].dir.files[g] <= used'.trouble + 1
        BY <1>0, <1>31, UserChangesItemDoes, OldLater, Files DEF Dated
    <2>4. \A g \in Names : Empty[g] <= used'.trouble + 1 BY <1>31, UserChangesItemDoes, OldNothing, <1>0 DEF Later
    <2> QED BY <2>1, <2>2, <2>3, <2>4, <1>0, <1>31, UserChangesItemDoes DEF Dated, Old, Ends, MovesTo, Carries, Starts
<1>32. ASSUME Crash PROVE Dated'
    <2>1. \A g \in Names : ssh.files[g] <= used'.trouble + 1 BY <1>0, <1>32, CrashDoes, OldLater, Files DEF Dated
    <2>2. \A g \in Names : cmd.inv[g] <= used'.trouble + 1 BY <1>0, <1>32, CrashDoes, OldLater, Files DEF Dated
    <2>3. \A i \in DOMAIN slots : \A g \in Names : slots[i].dir.files[g] <= used'.trouble + 1
        BY <1>0, <1>32, CrashDoes, OldLater, Files DEF Dated
    <2>4. \A g \in Names : Empty[g] <= used'.trouble + 1 BY <1>32, CrashDoes, OldNothing, <1>0 DEF Later
    <2> QED BY <2>1, <2>2, <2>3, <2>4, <1>0, <1>32, CrashDoes DEF Dated, Old, Ends, MovesTo, Carries, Starts
<1> QED BY <1>1, <1>2, <1>3, <1>4, <1>5, <1>6, <1>7, <1>8, <1>9, <1>10, <1>11, <1>12, <1>13, <1>14,
           <1>15, <1>16, <1>17, <1>18, <1>19, <1>20, <1>21, <1>22, <1>23, <1>24, <1>25, <1>26, <1>27,
           <1>28, <1>29, <1>30, <1>31, <1>32
        DEF Next, Command, Phase1, Phase2, Restore, InstallWrappers, InstallRcBlock, SetGitSshCommand,
            RemoveWrappers, RemoveRcBlocks, RestoreGitSshCommand, Items

\* An exact copy is no older than what it was copied from.
LEMMA CopiedIsCopy ==
    ASSUME Shapes, CopyMatches(cmd.inv)
    PROVE  \A f \in Keys : cmd.inv[f] # Absent => copy[f] >= cmd.inv[f]
<1> SUFFICES ASSUME NEW f \in Keys, cmd.inv[f] # Absent PROVE copy[f] >= cmd.inv[f] OBVIOUS
<1>1. copy[f] = cmd.inv[f] BY DEF CopyMatches
<1>2. copy[f] \in Int BY DEF Shapes, Content, Canary, EmptyFile
<1> QED BY <1>1, <1>2

LEMMA FreshIsNew ==
    ASSUME Shapes, NEW F \in [Names -> Content], Old(F), NEW f \in Names
    PROVE  Fresh >= F[f]
<1>1. F[f] <= used.trouble + 1 /\ F[f] \in Int BY DEF Old, Content, Canary, EmptyFile
<1>2. used.trouble \in Nat BY DEF Shapes, Uses
<1> QED BY <1>1, <1>2, FreshKnown

\* What was verified stays so until the commit.
LEMMA FaithfulKept ==
    ASSUME SSHCanaryAssumption, SSHInv, Next
    PROVE  Faithful'
<1>0. Shapes /\ Control /\ Slotted /\ Recorded /\ Owned /\ Bottom /\ Calm /\ Dated /\ Faithful /\ Rowed BY DEF SSHInv
<1>1. ASSUME NEW force \in BOOLEAN, StartSetup(force) PROVE Faithful' BY <1>0, <1>1, StartSetupDoes, NextStage, AfterStage DEF Faithful, Ends, MovesTo, Carries, Starts, Items
<1>2. ASSUME NEW force \in BOOLEAN, StartActivate(force) PROVE Faithful' BY <1>0, <1>2, StartActivateDoes, NextStage, AfterStage DEF Faithful, Ends, MovesTo, Carries, Starts, Items
<1>3. ASSUME NEW force \in BOOLEAN, StartRestore(force) PROVE Faithful' BY <1>0, <1>3, StartRestoreDoes, NextStage, AfterStage DEF Faithful, Ends, MovesTo, Carries, Starts, Items
<1>4. ASSUME NEW f \in Keys, CopyFile(f) PROVE Faithful' BY <1>0, <1>4, CopyFileDoes, NextStage, AfterStage DEF Faithful, Ends, MovesTo, Carries, Starts, Items
<1>5. ASSUME CopyDone PROVE Faithful' BY <1>0, <1>5, CopyDoneDoes, NextStage, AfterStage DEF Faithful, Ends, MovesTo, Carries, Starts, Items
<1>6. ASSUME WriteConfig PROVE Faithful' BY <1>0, <1>6, WriteConfigDoes, NextStage, AfterStage DEF Faithful, Ends, MovesTo, Carries, Starts, Items
<1>7. ASSUME RecordConfig PROVE Faithful' BY <1>0, <1>7, RecordConfigDoes, NextStage, AfterStage DEF Faithful, Ends, MovesTo, Carries, Starts, Items
<1>8. ASSUME NEW item \in Items, Install(item) PROVE Faithful' BY <1>0, <1>8, InstallDoes, NextStage, AfterStage DEF Faithful, Ends, MovesTo, Carries, Starts, Items
<1>9. ASSUME NEW item \in Items, RecordInstall(item) PROVE Faithful' BY <1>0, <1>9, RecordInstallDoes, NextStage, AfterStage DEF Faithful, Ends, MovesTo, Carries, Starts, Items
<1>10. ASSUME FinishSetup PROVE Faithful' BY <1>0, <1>10, FinishSetupDoes, NextStage, AfterStage DEF Faithful, Ends, MovesTo, Carries, Starts, Items
<1>11. ASSUME CheckAll PROVE Faithful' BY <1>0, <1>11, CheckAllDoes, NextStage, AfterStage DEF Faithful, Ends, MovesTo, Carries, Starts, Items
<1>12. ASSUME RenameAway PROVE Faithful' BY <1>0, <1>12, RenameAwayDoes, NextStage, AfterStage DEF Faithful, Ends, MovesTo, Carries, Starts, Items
<1>13. ASSUME VerifyBackup PROVE Faithful' BY <1>0, <1>13, VerifyBackupDoes, CopiedIsCopy DEF Faithful, MovesTo, Carries
<1>14. ASSUME MakeDirectory PROVE Faithful' BY <1>0, <1>14, MakeDirectoryDoes, NextStage, AfterStage DEF Faithful, Ends, MovesTo, Carries, Starts, Items
<1>15. ASSUME PlantCanary PROVE Faithful' BY <1>0, <1>15, PlantCanaryDoes, NextStage, AfterStage DEF Faithful, Ends, MovesTo, Carries, Starts, Items
<1>16. ASSUME CopyAuthorizedKeys PROVE Faithful' BY <1>0, <1>16, CopyAuthorizedKeysDoes DEF Faithful, MovesTo, Carries
<1>17. ASSUME Commit PROVE Faithful' BY <1>0, <1>17, CommitDoes, NextStage, AfterStage DEF Faithful, Ends, MovesTo, Carries, Starts, Items
<1>18. ASSUME Unplant PROVE Faithful' BY <1>0, <1>18, UnplantDoes, NextStage, AfterStage DEF Faithful, Ends, MovesTo, Carries, Starts, Items
<1>19. ASSUME RenameBack PROVE Faithful' BY <1>0, <1>19, RenameBackDoes, NextStage, AfterStage DEF Faithful, Ends, MovesTo, Carries, Starts, Items
<1>20. ASSUME NEW item \in Items, Undo(item) PROVE Faithful' BY <1>0, <1>20, UndoDoes, NextStage, AfterStage DEF Faithful, Ends, MovesTo, Carries, Starts, Items
<1>21. ASSUME NEW item \in Items, RetireUndone(item) PROVE Faithful' BY <1>0, <1>21, RetireUndoneDoes, NextStage, AfterStage DEF Faithful, Ends, MovesTo, Carries, Starts, Items
<1>22. ASSUME ChooseBackup PROVE Faithful' BY <1>0, <1>22, ChooseBackupDoes, NextStage, AfterStage DEF Faithful, Ends, MovesTo, Carries, Starts, Items
<1>23. ASSUME MoveAside PROVE Faithful' BY <1>0, <1>23, MoveAsideDoes, NextStage, AfterStage DEF Faithful, Ends, MovesTo, Carries, Starts, Items
<1>24. ASSUME ReturnBackup PROVE Faithful' BY <1>0, <1>24, ReturnBackupDoes, NextStage, AfterStage DEF Faithful, Ends, MovesTo, Carries, Starts, Items
<1>25. ASSUME UndoAside PROVE Faithful' BY <1>0, <1>25, UndoAsideDoes, NextStage, AfterStage DEF Faithful, Ends, MovesTo, Carries, Starts, Items
<1>26. ASSUME Deactivate PROVE Faithful' BY <1>0, <1>26, DeactivateDoes, NextStage, AfterStage DEF Faithful, Ends, MovesTo, Carries, Starts, Items
<1>27. ASSUME FinishRestore PROVE Faithful' BY <1>0, <1>27, FinishRestoreDoes, NextStage, AfterStage DEF Faithful, Ends, MovesTo, Carries, Starts, Items
<1>28. ASSUME UserWrites PROVE Faithful' BY <1>0, <1>28, UserWritesDoes, NextStage, AfterStage DEF Faithful, Ends, MovesTo, Carries, Starts, Items
<1>29. ASSUME UserCreates PROVE Faithful' BY <1>0, <1>29, UserCreatesDoes, NextStage, AfterStage DEF Faithful, Ends, MovesTo, Carries, Starts, Items
<1>30. ASSUME UserWritesCopy PROVE Faithful'
    <2> SUFFICES ASSUME cmd.at \in {"mkdir", "plant", "commit"} PROVE Faithful' BY <1>0, <1>30, UserWritesCopyDoes DEF Faithful
    <2>1. Fresh >= cmd.inv[KnownHosts] BY <1>0, FreshKnown, NamesKnown, Files, FreshIsNew DEF Dated
    <2>2. copy' = copy \/ copy' = [copy EXCEPT ![KnownHosts] = Fresh] BY <1>0, <1>30, UserWritesCopyDoes
    <2>3. \A f \in Keys : copy'[f] = copy[f] \/ (f = KnownHosts /\ copy'[f] = Fresh) BY <2>2, <1>0 DEF Shapes
    <2> QED BY <2>1, <2>3, <1>0, <1>30, UserWritesCopyDoes DEF Faithful
<1>31. ASSUME UserChangesItem PROVE Faithful' BY <1>0, <1>31, UserChangesItemDoes, NextStage, AfterStage DEF Faithful, Ends, MovesTo, Carries, Starts, Items
<1>32. ASSUME Crash PROVE Faithful' BY <1>0, <1>32, CrashDoes, NextStage, AfterStage DEF Faithful, Ends, MovesTo, Carries, Starts, Items
<1> QED BY <1>1, <1>2, <1>3, <1>4, <1>5, <1>6, <1>7, <1>8, <1>9, <1>10, <1>11, <1>12, <1>13, <1>14,
           <1>15, <1>16, <1>17, <1>18, <1>19, <1>20, <1>21, <1>22, <1>23, <1>24, <1>25, <1>26, <1>27,
           <1>28, <1>29, <1>30, <1>31, <1>32
        DEF Next, Command, Phase1, Phase2, Restore, InstallWrappers, InstallRcBlock, SetGitSshCommand,
            RemoveWrappers, RemoveRcBlocks, RestoreGitSshCommand, Items

\* Nothing of this changes.
LEMMA RowedSame ==
    ASSUME Rowed, cmd.wrote = "none", cmd'.wrote = "none", disk' = disk, records' = records, lapse \subseteq lapse'
    PROVE  Rowed'
BY DEF Rowed, Between, Undisturbed

LEMMA RowedStays ==
    ASSUME Rowed, UNCHANGED <<cmd, disk, records>>, lapse \subseteq lapse'
    PROVE  Rowed'
BY DEF Rowed, Between, Undisturbed

LEMMA LapsedRows ==
    ASSUME ~Undisturbed'
    PROVE  Rowed'
BY DEF Rowed

\* Every change in place has its row.
LEMMA RowedKept ==
    ASSUME SSHCanaryAssumption, SSHInv, Next
    PROVE  Rowed'
<1>0. Shapes /\ Control /\ Slotted /\ Recorded /\ Owned /\ Bottom /\ Calm /\ Dated /\ Faithful /\ Rowed BY DEF SSHInv
<1>1. ASSUME NEW force \in BOOLEAN, StartSetup(force) PROVE Rowed'
    <2>1. cmd.wrote = "none" BY <1>0, <1>1, StartSetupDoes DEF Control, InPlace, Starts, Items
    <2> QED BY <2>1, <1>0, <1>1, StartSetupDoes, RowedSame DEF Ends, MovesTo, Starts
<1>2. ASSUME NEW force \in BOOLEAN, StartActivate(force) PROVE Rowed'
    <2>1. cmd.wrote = "none" BY <1>0, <1>2, StartActivateDoes DEF Control, InPlace, Starts, Items
    <2> QED BY <2>1, <1>0, <1>2, StartActivateDoes, RowedSame DEF Ends, MovesTo, Starts
<1>3. ASSUME NEW force \in BOOLEAN, StartRestore(force) PROVE Rowed'
    <2>1. cmd.wrote = "none" BY <1>0, <1>3, StartRestoreDoes DEF Control, InPlace, Starts, Items
    <2> QED BY <2>1, <1>0, <1>3, StartRestoreDoes, RowedSame DEF Ends, MovesTo, Starts
<1>4. ASSUME NEW f \in Keys, CopyFile(f) PROVE Rowed'
    <2>1. cmd.wrote = "none" BY <1>0, <1>4, CopyFileDoes DEF Control, InPlace, Starts, Items
    <2> QED BY <2>1, <1>0, <1>4, CopyFileDoes, RowedSame DEF Ends, MovesTo, Starts
<1>5. ASSUME CopyDone PROVE Rowed'
    <2>1. cmd.wrote = "none" BY <1>0, <1>5, CopyDoneDoes DEF Control, InPlace, Starts, Items
    <2> QED BY <2>1, <1>0, <1>5, CopyDoneDoes, RowedSame DEF Ends, MovesTo, Starts
<1>6. ASSUME WriteConfig PROVE Rowed'
    <2>1. cmd.wrote = "none" BY <1>0, <1>6, WriteConfigDoes DEF Control, InPlace, Starts, Items
    <2> QED BY <2>1, <1>0, <1>6, WriteConfigDoes, RowedSame DEF Ends, MovesTo, Starts
<1>7. ASSUME RecordConfig PROVE Rowed'
    <2>1. cmd.wrote = "none" BY <1>0, <1>7, RecordConfigDoes DEF Control, InPlace, Starts, Items
    <2> QED BY <2>1, <1>0, <1>7, RecordConfigDoes, RowedSame DEF Ends, MovesTo, Starts
<1>8. ASSUME NEW item \in Items, Install(item) PROVE Rowed'
    <2>1. CASE disk' = disk BY <2>1, <1>0, <1>8, InstallDoes, RowedSame DEF Ends, MovesTo, Shapes
    <2>2. CASE disk' # disk
        <3>1. /\ cmd.wrote = "none" /\ cmd'.at = item /\ cmd'.op = "setup" /\ disk[item] # "ours"
              /\ disk' = [disk EXCEPT ![item] = "ours"] /\ UNCHANGED <<lapse, records>> /\ disk \in [Items -> Held]
            BY <2>2, <1>0, <1>8, InstallDoes DEF Carries, Ends, MovesTo, Shapes
        <3>2. disk'[item] = "ours" /\ \A j \in Items : j # item => disk'[j] = disk[j] BY <3>1
        <3>3. cmd'.wrote = disk[item] BY <2>2, <1>0, <1>8, InstallDoes
        <3>4. cmd'.wrote # "none" BY <3>3, <3>1 DEF Held
        <3> QED BY <3>1, <3>2, <3>4, <1>0 DEF Rowed, Between, Undisturbed
    <2> QED BY <2>1, <2>2
<1>9. ASSUME NEW item \in Items, RecordInstall(item) PROVE Rowed'
    <2>1. /\ cmd.op = "setup" /\ cmd.at = item /\ cmd.wrote # "none" /\ cmd'.wrote = "none"
          /\ UNCHANGED <<lapse, disk>> BY <1>0, <1>9, RecordInstallDoes
    <2> SUFFICES ASSUME Undisturbed PROVE Rowed' BY <2>1 DEF Rowed, Undisturbed
    <2>2. records[item] = <<>> /\ disk[item] = "ours" BY <2>1, <1>0 DEF Rowed, Between
    <2>3. records' = [records EXCEPT ![item] = <<cmd.wrote>>]
        <3>1. <<cmd.wrote>> \o <<>> = <<cmd.wrote>> OBVIOUS
        <3> QED BY <3>1, <2>2, <1>0, <1>9, RecordInstallDoes
    <2>4. records'[item] = <<cmd.wrote>> /\ \A j \in Items : j # item => records'[j] = records[j]
        BY <2>3, <1>0 DEF Shapes
    <2>5. Len(<<cmd.wrote>>) <= 1 /\ <<cmd.wrote>> # <<>> OBVIOUS
    <2> QED BY <2>1, <2>2, <2>4, <2>5, <1>0 DEF Rowed, Between
<1>10. ASSUME FinishSetup PROVE Rowed'
    <2>1. cmd.wrote = "none" BY <1>0, <1>10, FinishSetupDoes DEF Control, InPlace, Starts, Items
    <2> QED BY <2>1, <1>0, <1>10, FinishSetupDoes, RowedSame DEF Ends, MovesTo, Starts
<1>11. ASSUME CheckAll PROVE Rowed'
    <2>1. cmd.wrote = "none" BY <1>0, <1>11, CheckAllDoes DEF Control, InPlace, Starts, Items
    <2> QED BY <2>1, <1>0, <1>11, CheckAllDoes, RowedSame DEF Ends, MovesTo, Starts
<1>12. ASSUME RenameAway PROVE Rowed'
    <2>1. cmd.wrote = "none" BY <1>0, <1>12, RenameAwayDoes DEF Control, InPlace, Starts, Items
    <2> QED BY <2>1, <1>0, <1>12, RenameAwayDoes, RowedSame DEF Ends, MovesTo, Starts
<1>13. ASSUME VerifyBackup PROVE Rowed'
    <2>1. cmd.wrote = "none" BY <1>0, <1>13, VerifyBackupDoes DEF Control, InPlace, Starts, Items
    <2> QED BY <2>1, <1>0, <1>13, VerifyBackupDoes, RowedSame DEF Ends, MovesTo, Starts
<1>14. ASSUME MakeDirectory PROVE Rowed'
    <2>1. cmd.wrote = "none" BY <1>0, <1>14, MakeDirectoryDoes DEF Control, InPlace, Starts, Items
    <2> QED BY <2>1, <1>0, <1>14, MakeDirectoryDoes, RowedSame DEF Ends, MovesTo, Starts
<1>15. ASSUME PlantCanary PROVE Rowed'
    <2>1. cmd.wrote = "none" BY <1>0, <1>15, PlantCanaryDoes DEF Control, InPlace, Starts, Items
    <2> QED BY <2>1, <1>0, <1>15, PlantCanaryDoes, RowedSame DEF Ends, MovesTo, Starts
<1>16. ASSUME CopyAuthorizedKeys PROVE Rowed'
    <2>1. cmd.wrote = "none" BY <1>0, <1>16, CopyAuthorizedKeysDoes DEF Control, InPlace, Starts, Items
    <2> QED BY <2>1, <1>0, <1>16, CopyAuthorizedKeysDoes, RowedSame DEF Ends, MovesTo, Starts
<1>17. ASSUME Commit PROVE Rowed'
    <2>1. cmd.wrote = "none" BY <1>0, <1>17, CommitDoes DEF Control, InPlace, Starts, Items
    <2> QED BY <2>1, <1>0, <1>17, CommitDoes, RowedSame DEF Ends, MovesTo, Starts
<1>18. ASSUME Unplant PROVE Rowed'
    <2>1. cmd.wrote = "none" BY <1>0, <1>18, UnplantDoes DEF Control, Items
    <2> QED BY <2>1, <1>0, <1>18, UnplantDoes, RowedSame, RowedStays, LapsedRows DEF Ends, MovesTo, Undisturbed
<1>19. ASSUME RenameBack PROVE Rowed'
    <2>1. cmd.wrote = "none" BY <1>0, <1>19, RenameBackDoes DEF Control, InPlace, Starts, Items
    <2> QED BY <2>1, <1>0, <1>19, RenameBackDoes, RowedSame DEF Ends, MovesTo, Starts
<1>20. ASSUME NEW item \in Items, Undo(item) PROVE Rowed'
    <2>0. cmd.op = "restore" /\ cmd.at = item /\ cmd.wrote = "none" /\ lapse' = lapse BY <1>0, <1>20, UndoDoes
    <2> SUFFICES ASSUME Undisturbed PROVE Rowed' BY <2>0 DEF Rowed, Undisturbed
    <2>1. CASE MovesTo(AfterUndo[item]) /\ UNCHANGED <<disk, records>> BY <2>0, <2>1, <1>0, RowedSame DEF MovesTo
    <2>2. CASE records[item] # <<>> /\ disk[item] = "absent" BY <2>0, <2>2, <1>0 DEF Rowed, Between
    <2>3. CASE /\ Carries /\ cmd'.at = item /\ cmd'.wrote = "ours" /\ records[item] # <<>> /\ records' = records
               /\ \/ disk' = [disk EXCEPT ![item] = Undone(item)]
                  \/ item = "git" /\ disk' = disk
        <3>1. \A j \in Items : j # item => disk'[j] = disk[j] BY <2>3, <1>0 DEF Shapes
        <3>2. disk'[item] = "ours" => item = "git" BY <2>3, <1>0 DEF Shapes, Undone
        <3>3. cmd'.op = "restore" BY <2>0, <2>3 DEF Carries
        <3> QED BY <2>0, <2>3, <3>1, <3>2, <3>3, <1>0 DEF Rowed, Between
    <2> QED BY <2>1, <2>2, <2>3, <1>0, <1>20, UndoDoes
<1>21. ASSUME NEW item \in Items, RetireUndone(item) PROVE Rowed'
    <2>0. /\ cmd.op = "restore" /\ cmd.at = item /\ cmd.wrote # "none" /\ cmd'.wrote = "none" /\ disk' = disk
          /\ lapse' = IF item = "git" /\ disk[item] = "ours" THEN lapse \cup {"git"} ELSE lapse
          /\ records' = [records EXCEPT ![item] = Tail(records[item])] BY <1>0, <1>21, RetireUndoneDoes
    <2> SUFFICES ASSUME Undisturbed' PROVE Rowed' BY LapsedRows
    <2>1. Undisturbed /\ ~(item = "git" /\ disk[item] = "ours") BY <2>0 DEF Undisturbed
    <2>2. disk[item] # "ours" /\ records[item] # <<>> /\ Len(records[item]) <= 1 BY <2>0, <2>1, <1>0 DEF Rowed, Between
    <2>3. Tail(records[item]) = <<>>
        <3>1. records[item] \in Seq({"absent", "user", "edited"}) BY <1>0, <1>21 DEF Shapes
        <3> QED BY <3>1, <2>2
    <2>4. records'[item] = <<>> /\ \A j \in Items : j # item => records'[j] = records[j] BY <2>0, <2>3, <1>0 DEF Shapes
    <2>5. Len(<<>>) <= 1 OBVIOUS
    <2> QED BY <2>0, <2>1, <2>2, <2>4, <2>5, <1>0 DEF Rowed, Between
<1>22. ASSUME ChooseBackup PROVE Rowed'
    <2>1. cmd.wrote = "none" BY <1>0, <1>22, ChooseBackupDoes DEF Control, InPlace, Starts, Items
    <2> QED BY <2>1, <1>0, <1>22, ChooseBackupDoes, RowedSame DEF Ends, MovesTo, Starts
<1>23. ASSUME MoveAside PROVE Rowed'
    <2>1. cmd.wrote = "none" BY <1>0, <1>23, MoveAsideDoes DEF Control, InPlace, Starts, Items
    <2> QED BY <2>1, <1>0, <1>23, MoveAsideDoes, RowedSame DEF Ends, MovesTo, Starts
<1>24. ASSUME ReturnBackup PROVE Rowed'
    <2>1. cmd.wrote = "none" BY <1>0, <1>24, ReturnBackupDoes DEF Control, InPlace, Starts, Items
    <2> QED BY <2>1, <1>0, <1>24, ReturnBackupDoes, RowedSame DEF Ends, MovesTo, Starts
<1>25. ASSUME UndoAside PROVE Rowed'
    <2>1. cmd.wrote = "none" BY <1>0, <1>25, UndoAsideDoes DEF Control, InPlace, Starts, Items
    <2> QED BY <2>1, <1>0, <1>25, UndoAsideDoes, RowedSame DEF Ends, MovesTo, Starts
<1>26. ASSUME Deactivate PROVE Rowed'
    <2>1. cmd.wrote = "none" BY <1>0, <1>26, DeactivateDoes DEF Control, InPlace, Starts, Items
    <2> QED BY <2>1, <1>0, <1>26, DeactivateDoes, RowedSame DEF Ends, MovesTo, Starts
<1>27. ASSUME FinishRestore PROVE Rowed'
    <2>1. cmd.wrote = "none" BY <1>0, <1>27, FinishRestoreDoes DEF Control, InPlace, Starts, Items
    <2> QED BY <2>1, <1>0, <1>27, FinishRestoreDoes, RowedSame DEF Ends, MovesTo, Starts
<1>28. ASSUME UserWrites PROVE Rowed' BY <1>0, <1>28, UserWritesDoes, RowedStays
<1>29. ASSUME UserCreates PROVE Rowed' BY <1>0, <1>29, UserCreatesDoes, RowedStays
<1>30. ASSUME UserWritesCopy PROVE Rowed' BY <1>0, <1>30, UserWritesCopyDoes, RowedStays
<1>31. ASSUME UserChangesItem PROVE Rowed' BY <1>0, <1>31, UserChangesItemDoes, LapsedRows DEF Undisturbed
<1>32. ASSUME Crash PROVE Rowed' BY <1>0, <1>32, CrashDoes, LapsedRows DEF Undisturbed
<1> QED BY <1>1, <1>2, <1>3, <1>4, <1>5, <1>6, <1>7, <1>8, <1>9, <1>10, <1>11, <1>12, <1>13, <1>14,
           <1>15, <1>16, <1>17, <1>18, <1>19, <1>20, <1>21, <1>22, <1>23, <1>24, <1>25, <1>26, <1>27,
           <1>28, <1>29, <1>30, <1>31, <1>32
        DEF Next, Command, Phase1, Phase2, Restore, InstallWrappers, InstallRcBlock, SetGitSshCommand,
            RemoveWrappers, RemoveRcBlocks, RestoreGitSshCommand, Items

\* A command that has ended holds nothing.
LEMMA EndsControl == ASSUME Ends PROVE Control'
<1>1. cmd'.op = "idle" /\ cmd'.at = "" /\ cmd'.wrote = "none" BY DEF Ends
<1> QED BY <1>1 DEF Control, InPlace, Items, Away, Taking

\* Each command goes on holding what its stage needs.
LEMMA ControlKept ==
    ASSUME SSHCanaryAssumption, SSHInv, Next
    PROVE  Control'
<1>0. Shapes /\ Control /\ Slotted /\ Recorded /\ Owned /\ Bottom /\ Calm /\ Dated /\ Faithful /\ Rowed BY DEF SSHInv
<1>1. ASSUME NEW force \in BOOLEAN, StartSetup(force) PROVE Control' BY <1>0, <1>1, StartSetupDoes, EndsControl, NextStage, AfterStage DEF Control, InPlace, Ends, MovesTo, Carries, Starts, Items, Away, Taking, SetupStages, ActivateStages, RestoreStages, Backups
<1>2. ASSUME NEW force \in BOOLEAN, StartActivate(force) PROVE Control'
    <2>1. 0 <= born /\ 0 \notin theirs BY <1>0, SlotDirs
    <2>2. /\ cmd'.op = "activate" /\ cmd'.at = "copy" /\ cmd'.mine = 0 /\ cmd'.planted = 0 /\ cmd'.wrote = "none"
          /\ db.phase = "prepared" /\ db.backup = 0 /\ UNCHANGED <<born, theirs, db>>
        BY <1>0, <1>2, StartActivateDoes DEF Starts
    <2> QED BY <2>1, <2>2 DEF Control, InPlace, Ends, MovesTo, Carries, Starts, Items, Away, Taking, SetupStages, ActivateStages, RestoreStages, Backups
<1>3. ASSUME NEW force \in BOOLEAN, StartRestore(force) PROVE Control' BY <1>0, <1>3, StartRestoreDoes, EndsControl, NextStage, AfterStage DEF Control, InPlace, Ends, MovesTo, Carries, Starts, Items, Away, Taking, SetupStages, ActivateStages, RestoreStages, Backups
<1>4. ASSUME NEW f \in Keys, CopyFile(f) PROVE Control'
    <2>1. /\ cmd.at = "copy" /\ MovesTo("copy") /\ UNCHANGED <<ssh, slots, born, theirs, db, records>>
        BY <1>0, <1>4, CopyFileDoes
    <2> QED BY <2>1, <1>0 DEF Control, InPlace, Ends, MovesTo, Carries, Starts, Items, Away, Taking, SetupStages, ActivateStages, RestoreStages, Backups
<1>5. ASSUME CopyDone PROVE Control' BY <1>0, <1>5, CopyDoneDoes, EndsControl, NextStage, AfterStage DEF Control, InPlace, Ends, MovesTo, Carries, Starts, Items, Away, Taking, SetupStages, ActivateStages, RestoreStages, Backups
<1>6. ASSUME WriteConfig PROVE Control' BY <1>0, <1>6, WriteConfigDoes, EndsControl, NextStage, AfterStage DEF Control, InPlace, Ends, MovesTo, Carries, Starts, Items, Away, Taking, SetupStages, ActivateStages, RestoreStages, Backups
<1>7. ASSUME RecordConfig PROVE Control' BY <1>0, <1>7, RecordConfigDoes, EndsControl, NextStage, AfterStage DEF Control, InPlace, Ends, MovesTo, Carries, Starts, Items, Away, Taking, SetupStages, ActivateStages, RestoreStages, Backups
<1>8. ASSUME NEW item \in Items, Install(item) PROVE Control' BY <1>0, <1>8, InstallDoes, EndsControl, NextStage, AfterStage DEF Control, InPlace, Ends, MovesTo, Carries, Starts, Items, Away, Taking, SetupStages, ActivateStages, RestoreStages, Backups
<1>9. ASSUME NEW item \in Items, RecordInstall(item) PROVE Control' BY <1>0, <1>9, RecordInstallDoes, EndsControl, NextStage, AfterStage DEF Control, InPlace, Ends, MovesTo, Carries, Starts, Items, Away, Taking, SetupStages, ActivateStages, RestoreStages, Backups
<1>10. ASSUME FinishSetup PROVE Control' BY <1>0, <1>10, FinishSetupDoes, EndsControl, NextStage, AfterStage DEF Control, InPlace, Ends, MovesTo, Carries, Starts, Items, Away, Taking, SetupStages, ActivateStages, RestoreStages, Backups
<1>11. ASSUME CheckAll PROVE Control' BY <1>0, <1>11, CheckAllDoes, EndsControl, NextStage, AfterStage DEF Control, InPlace, Ends, MovesTo, Carries, Starts, Items, Away, Taking, SetupStages, ActivateStages, RestoreStages, Backups
<1>12. ASSUME RenameAway PROVE Control'
    <2>1. CASE Ends BY <2>1, EndsControl
    <2>2. CASE ~Ends
        <3>1. /\ ssh # NoDir /\ ssh' = NoDir /\ slots' = Append(slots, [kind |-> "backup", dir |-> ssh])
              /\ cmd.at = "rename" /\ cmd'.op = cmd.op /\ cmd'.at = "verify" /\ cmd'.slot = Len(slots) + 1
              /\ cmd'.planted = cmd.planted /\ cmd'.mine = cmd.mine /\ cmd'.wrote = cmd.wrote
              /\ UNCHANGED <<born, theirs, db, records>>
            BY <2>2, <1>0, <1>12, RenameAwayDoes
        <3>2. /\ slots'[cmd'.slot].kind = "backup" /\ slots'[cmd'.slot].dir.id # 0
              /\ cmd'.slot = Len(slots') /\ cmd'.slot # 0
            BY <3>1, <1>0, Pushed
        <3>3. cmd.op = "activate" /\ cmd'.wrote = "none" /\ cmd.mine = 0 /\ cmd.planted = 0 BY <3>1, <1>0 DEF Control, InPlace, Ends, MovesTo, Carries, Starts, Items, Away, Taking, SetupStages, ActivateStages, RestoreStages, Backups
        <3> QED BY <3>1, <3>2, <3>3, <1>0 DEF Control, InPlace, Ends, MovesTo, Carries, Starts, Items, Away, Taking, SetupStages, ActivateStages, RestoreStages, Backups
    <2> QED BY <2>1, <2>2
<1>13. ASSUME VerifyBackup PROVE Control' BY <1>0, <1>13, VerifyBackupDoes, EndsControl, NextStage, AfterStage DEF Control, InPlace, Ends, MovesTo, Carries, Starts, Items, Away, Taking, SetupStages, ActivateStages, RestoreStages, Backups
<1>14. ASSUME MakeDirectory PROVE Control'
    <2>1. CASE MovesTo("unplant") /\ UNCHANGED <<ssh, born>> BY <2>1, <1>0, <1>14, MakeDirectoryDoes DEF Control, InPlace, Ends, MovesTo, Carries, Starts, Items, Away, Taking, SetupStages, ActivateStages, RestoreStages, Backups
    <2>2. CASE ~(MovesTo("unplant") /\ UNCHANGED <<ssh, born>>)
        <3>1. /\ born' = born + 1 /\ ssh'.id = born + 1 /\ UNCHANGED <<slots, theirs, db, records>>
              /\ cmd.at = "mkdir" /\ cmd'.op = cmd.op /\ cmd'.at = "plant" /\ cmd'.slot = cmd.slot
              /\ cmd'.mine = born + 1 /\ cmd'.wrote = cmd.wrote
            BY <2>2, <1>0, <1>14, MakeDirectoryDoes
        <3>2. born + 1 <= born' /\ born + 1 # 0 /\ ~(born + 1 <= born) BY <3>1, <1>0, SlotDirs
        <3>3. born + 1 \notin theirs BY <3>2, <1>0, SlotDirs
        <3>4. cmd.op = "activate" /\ cmd.wrote = "none" BY <3>1, <1>0 DEF Control, InPlace, Ends, MovesTo, Carries, Starts, Items, Away, Taking, SetupStages, ActivateStages, RestoreStages, Backups
        <3>5. cmd'.mine <= born' /\ cmd'.mine \notin theirs' /\ cmd'.mine # 0 BY <3>1, <3>2, <3>3
        <3> QED BY <3>1, <3>4, <3>5, <1>0 DEF Control, InPlace, Ends, MovesTo, Carries, Starts, Items, Away, Taking, SetupStages, ActivateStages, RestoreStages, Backups
    <2> QED BY <2>1, <2>2
<1>15. ASSUME PlantCanary PROVE Control'
    <2>1. /\ cmd.at = "plant" /\ cmd'.op = cmd.op /\ cmd'.at \in {"plant", "unplant"} /\ cmd'.slot = cmd.slot
          /\ cmd'.mine = cmd.mine /\ cmd'.wrote = cmd.wrote /\ UNCHANGED <<slots, born, theirs, db, records>>
        BY <1>0, <1>15, PlantCanaryDoes DEF MovesTo, Carries
    <2>2. ssh'.id = ssh.id
        <3>1. CASE ssh' = ssh BY <3>1
        <3>2. CASE ssh' # ssh
            <4>1. PICK f \in Names : ssh' = [ssh EXCEPT !.files[f] = Canary] BY <3>2, <1>0, <1>15, PlantCanaryDoes
            <4> QED BY <4>1, <1>0, FileSet, Nothing DEF Shapes
        <3> QED BY <3>1, <3>2
    <2> QED BY <2>1, <2>2, <1>0 DEF Control, InPlace, Ends, MovesTo, Carries, Starts, Items, Away, Taking, SetupStages, ActivateStages, RestoreStages, Backups
<1>16. ASSUME CopyAuthorizedKeys PROVE Control'
    <2>1. /\ cmd.at = "plant" /\ cmd'.op = cmd.op /\ cmd'.at \in {"commit", "unplant"} /\ cmd'.slot = cmd.slot
          /\ cmd'.mine = cmd.mine /\ cmd'.wrote = cmd.wrote /\ UNCHANGED <<slots, born, theirs, db, records>>
        BY <1>0, <1>16, CopyAuthorizedKeysDoes DEF MovesTo, Carries
    <2>2. ssh'.id = ssh.id
        <3>1. CASE ssh' = ssh BY <3>1
        <3>2. CASE ssh' # ssh
            <4>1. ssh' = [ssh EXCEPT !.files[AuthorizedKeys] = slots[cmd.slot].dir.files[AuthorizedKeys]]
                BY <3>2, <1>0, <1>16, CopyAuthorizedKeysDoes
            <4>2. cmd.slot \in DOMAIN slots BY <1>0, <1>16, CopyAuthorizedKeysDoes, SomeBackup DEF Away, Taking, Backups
            <4>3. slots[cmd.slot].dir.files[AuthorizedKeys] \in Content BY <4>2, <1>0, SlotDirs, NamesKnown DEF Dir
            <4> QED BY <4>1, <4>3, <1>0, FileSet, NamesKnown DEF Shapes
        <3> QED BY <3>1, <3>2
    <2> QED BY <2>1, <2>2, <1>0 DEF Control, InPlace, Ends, MovesTo, Carries, Starts, Items, Away, Taking, SetupStages, ActivateStages, RestoreStages, Backups
<1>17. ASSUME Commit PROVE Control' BY <1>0, <1>17, CommitDoes, EndsControl, NextStage, AfterStage DEF Control, InPlace, Ends, MovesTo, Carries, Starts, Items, Away, Taking, SetupStages, ActivateStages, RestoreStages, Backups
<1>18. ASSUME Unplant PROVE Control' BY <1>0, <1>18, UnplantDoes, EndsControl, NextStage, AfterStage DEF Control, InPlace, Ends, MovesTo, Carries, Starts, Items, Away, Taking, SetupStages, ActivateStages, RestoreStages, Backups
<1>19. ASSUME RenameBack PROVE Control' BY <1>0, <1>19, RenameBackDoes, EndsControl, NextStage, AfterStage DEF Control, InPlace, Ends, MovesTo, Carries, Starts, Items, Away, Taking, SetupStages, ActivateStages, RestoreStages, Backups
<1>20. ASSUME NEW item \in Items, Undo(item) PROVE Control'
    <2>1. /\ cmd.op = "restore" /\ cmd.at = item /\ cmd.wrote = "none" /\ item \in Items
          /\ UNCHANGED <<ssh, slots, born, theirs, db>> BY <1>0, <1>20, UndoDoes
    <2>2. CASE MovesTo(AfterUndo[item]) BY <2>1, <2>2, <1>0, AfterStage DEF Control, InPlace, Ends, MovesTo, Carries, Starts, Items, Away, Taking, SetupStages, ActivateStages, RestoreStages, Backups
    <2>3. CASE cmd' = cmd BY <2>1, <2>3, <1>0 DEF Control, InPlace, Ends, MovesTo, Carries, Starts, Items, Away, Taking, SetupStages, ActivateStages, RestoreStages, Backups
    <2>4. CASE /\ Carries /\ cmd'.at = item /\ cmd'.wrote = "ours" /\ records[item] # <<>> /\ records' = records
        BY <2>1, <2>4, <1>0 DEF Control, InPlace, Ends, MovesTo, Carries, Starts, Items, Away, Taking, SetupStages, ActivateStages, RestoreStages, Backups
    <2> QED BY <2>2, <2>3, <2>4, <1>0, <1>20, UndoDoes
<1>21. ASSUME NEW item \in Items, RetireUndone(item) PROVE Control' BY <1>0, <1>21, RetireUndoneDoes, EndsControl, NextStage, AfterStage DEF Control, InPlace, Ends, MovesTo, Carries, Starts, Items, Away, Taking, SetupStages, ActivateStages, RestoreStages, Backups
<1>22. ASSUME ChooseBackup PROVE Control' BY <1>0, <1>22, ChooseBackupDoes, EndsControl, NextStage, AfterStage DEF Control, InPlace, Ends, MovesTo, Carries, Starts, Items, Away, Taking, SetupStages, ActivateStages, RestoreStages, Backups
<1>23. ASSUME MoveAside PROVE Control'
    <2>1. CASE Ends BY <2>1, EndsControl
    <2>2. CASE ~Ends
        <3>1. /\ ssh # NoDir /\ ssh' = NoDir /\ slots' = Append(slots, [kind |-> "aside", dir |-> ssh])
              /\ cmd.at = "aside" /\ cmd'.op = cmd.op /\ cmd'.at = "return" /\ cmd'.mine = Len(slots) + 1
              /\ cmd'.slot = cmd.slot /\ cmd'.wrote = cmd.wrote
              /\ UNCHANGED <<born, theirs, db, records>>
            BY <2>2, <1>0, <1>23, MoveAsideDoes
        <3>2. /\ slots'[cmd'.mine].kind = "aside" /\ cmd'.mine = Len(slots') /\ Backups' = Backups
            BY <3>1, <1>0, Pushed
        <3>3. cmd.op = "restore" /\ cmd'.wrote = "none" BY <3>1, <1>0 DEF Control, InPlace, Ends, MovesTo, Carries, Starts, Items, Away, Taking, SetupStages, ActivateStages, RestoreStages, Backups
        <3>4. cmd.slot \in Backups /\ \A i \in Backups : i <= cmd.slot BY <3>1, <1>0, SomeBackup DEF Taking
        <3> QED BY <3>1, <3>2, <3>3, <3>4 DEF Control, InPlace, Ends, MovesTo, Carries, Starts, Items, Away, Taking, SetupStages, ActivateStages, RestoreStages
    <2> QED BY <2>1, <2>2
<1>24. ASSUME ReturnBackup PROVE Control' BY <1>0, <1>24, ReturnBackupDoes, EndsControl, NextStage, AfterStage DEF Control, InPlace, Ends, MovesTo, Carries, Starts, Items, Away, Taking, SetupStages, ActivateStages, RestoreStages, Backups
<1>25. ASSUME UndoAside PROVE Control' BY <1>0, <1>25, UndoAsideDoes, EndsControl, NextStage, AfterStage DEF Control, InPlace, Ends, MovesTo, Carries, Starts, Items, Away, Taking, SetupStages, ActivateStages, RestoreStages, Backups
<1>26. ASSUME Deactivate PROVE Control' BY <1>0, <1>26, DeactivateDoes, EndsControl, NextStage, AfterStage DEF Control, InPlace, Ends, MovesTo, Carries, Starts, Items, Away, Taking, SetupStages, ActivateStages, RestoreStages, Backups
<1>27. ASSUME FinishRestore PROVE Control' BY <1>0, <1>27, FinishRestoreDoes, EndsControl, NextStage, AfterStage DEF Control, InPlace, Ends, MovesTo, Carries, Starts, Items, Away, Taking, SetupStages, ActivateStages, RestoreStages, Backups
<1>28. ASSUME UserWrites PROVE Control'
    <2>1. PICK f \in Names : ssh' = [ssh EXCEPT !.files[f] = Fresh] BY <1>0, <1>28, UserWritesDoes
    <2>2. ssh'.id = ssh.id BY <2>1, <1>0, FileSet, FreshKnown DEF Shapes
    <2>3. cmd' = cmd /\ UNCHANGED <<slots, born, theirs, db, records>> BY <1>0, <1>28, UserWritesDoes
    <2> QED BY <2>2, <2>3, <1>0 DEF Control, InPlace, Ends, MovesTo, Carries, Starts, Items, Away, Taking, SetupStages, ActivateStages, RestoreStages, Backups
<1>29. ASSUME UserCreates PROVE Control'
    <2>1. /\ cmd' = cmd /\ born' = born + 1 /\ theirs' = theirs \cup {born + 1}
          /\ UNCHANGED <<slots, db, records>> BY <1>0, <1>29, UserCreatesDoes
    <2>2. cmd.at \notin {"plant", "commit"}
        <3>1. ssh.id = 0 BY <1>0, <1>29, UserCreatesDoes, Nothing
        <3> QED BY <3>1, <1>0 DEF Control
    <2>3. cmd.op = "activate" => cmd.mine <= born' /\ cmd.mine \notin theirs'
        <3> SUFFICES ASSUME cmd.op = "activate" PROVE cmd.mine <= born' /\ cmd.mine \notin theirs' OBVIOUS
        <3>1. cmd.mine <= born /\ cmd.mine \notin theirs BY <1>0 DEF Control
        <3>2. cmd.mine \in Nat /\ born \in Nat BY <1>0, SlotDirs
        <3>3. cmd.mine <= born + 1 /\ cmd.mine # born + 1 BY <3>1, <3>2
        <3> QED BY <2>1, <3>1, <3>3
    <2> QED BY <2>1, <2>2, <2>3, <1>0 DEF Control, InPlace, Ends, MovesTo, Carries, Starts, Items, Away, Taking, SetupStages, ActivateStages, RestoreStages, Backups
<1>30. ASSUME UserWritesCopy PROVE Control' BY <1>0, <1>30, UserWritesCopyDoes, EndsControl, NextStage, AfterStage DEF Control, InPlace, Ends, MovesTo, Carries, Starts, Items, Away, Taking, SetupStages, ActivateStages, RestoreStages, Backups
<1>31. ASSUME UserChangesItem PROVE Control' BY <1>0, <1>31, UserChangesItemDoes, EndsControl, NextStage, AfterStage DEF Control, InPlace, Ends, MovesTo, Carries, Starts, Items, Away, Taking, SetupStages, ActivateStages, RestoreStages, Backups
<1>32. ASSUME Crash PROVE Control' BY <1>0, <1>32, CrashDoes, EndsControl, NextStage, AfterStage DEF Control, InPlace, Ends, MovesTo, Carries, Starts, Items, Away, Taking, SetupStages, ActivateStages, RestoreStages, Backups
<1> QED BY <1>1, <1>2, <1>3, <1>4, <1>5, <1>6, <1>7, <1>8, <1>9, <1>10, <1>11, <1>12, <1>13, <1>14,
           <1>15, <1>16, <1>17, <1>18, <1>19, <1>20, <1>21, <1>22, <1>23, <1>24, <1>25, <1>26, <1>27,
           <1>28, <1>29, <1>30, <1>31, <1>32
        DEF Next, Command, Phase1, Phase2, Restore, InstallWrappers, InstallRcBlock, SetGitSshCommand,
            RemoveWrappers, RemoveRcBlocks, RestoreGitSshCommand, Items

-----------------------------------------------------------------------------
(* The installation while nothing crashed. *)

\* The config is one of the canaries, authorized_keys is not.
LEMMA PlantedNames ==
    ASSUME SSHCanaryAssumption
    PROVE  /\ Len(Planted) \in Nat /\ DOMAIN Planted = 1 .. Len(Planted)
           /\ \A i \in DOMAIN Planted : Planted[i] \in Names /\ Planted[i] # AuthorizedKeys
           /\ \E c \in DOMAIN Planted : /\ Planted[c] = Config
                                        /\ \A i \in DOMAIN Planted : Planted[i] = KnownHosts => c < i
<1>1. Planted \in Seq(Keys \cup {Config}) BY DEF SSHCanaryAssumption
<1>2. Len(Planted) \in Nat /\ DOMAIN Planted = 1 .. Len(Planted) /\ \A i \in DOMAIN Planted : Planted[i] \in Keys \cup {Config}
    BY <1>1
<1>3. AuthorizedKeys \notin Keys /\ AuthorizedKeys # Config BY DEF SSHCanaryAssumption, AuthorizedKeys, Config
<1>4. PICK c \in DOMAIN Planted : Planted[c] = Config BY DEF SSHCanaryAssumption
<1>5. \A i \in DOMAIN Planted : Planted[i] = KnownHosts => c < i BY <1>4 DEF SSHCanaryAssumption
<1> QED BY <1>2, <1>3, <1>4, <1>5 DEF Names

\* A directory with every canary in it is recognised as one.
LEMMA WholeIsCanary ==
    ASSUME SSHCanaryAssumption, NEW d, Whole(d)
    PROVE  IsCanaryDir(d)
BY PlantedNames DEF Whole, IsCanaryDir

\* What the user owns holds no fake.
LEMMA TheirsAreReal ==
    ASSUME SSHCanaryAssumption, Owned, ssh.owner = "user"
    PROVE  \A f \in Keys : ssh.files[f] # Canary
BY NamesKnown DEF Owned, Known

\* Where a command is says which situations are possible.
LEMMA InSituation ==
    ASSUME Situation, Control, Recorded, Shapes
    PROVE  /\ cmd.op = "idle" => \/ Installed
                                 \/ /\ Untouched \/ Returned
                                    /\ ssh.owner = "user" /\ Backups = {} /\ ~db.rows /\ db.phase # "activated"
           /\ cmd.op = "activate" /\ cmd.at \notin Away => Untouched
           /\ cmd.at \in Away => Moving
           /\ cmd.at = "aside" => Installed
           /\ cmd.at \in {"return", "unaside"} => Returning
<1>1. CASE Untouched
    <2>1. db.backup = 0 /\ ssh.owner = "user" /\ Backups = {} /\ ~db.rows /\ cmd.at \notin Away BY <1>1 DEF Untouched
    <2>2. cmd.at \notin Taking BY <2>1 DEF Control
    <2>3. db.phase # "activated" BY <2>1 DEF Recorded
    <2> QED BY <1>1, <2>1, <2>2, <2>3 DEF Taking
<1>2. CASE Moving
    <2>1. cmd.at \in Away BY <1>2 DEF Moving
    <2>2. cmd.op = "activate" BY <2>1 DEF Control, InPlace, SetupStages, RestoreStages, Away
    <2> QED BY <1>2, <2>1, <2>2 DEF Away
<1>3. CASE Installed
    <2>1. cmd.op # "activate" /\ cmd.at \notin {"return", "unaside"} BY <1>3 DEF Installed, Control
    <2>2. cmd.at \notin Away BY <2>1 DEF Control, InPlace, SetupStages, RestoreStages, Away
    <2> QED BY <1>3, <2>1, <2>2
<1>4. CASE Returning
    <2>1. cmd.at \in {"return", "unaside"} BY <1>4 DEF Returning
    <2>2. cmd.op = "restore" /\ cmd.at \notin Away BY <2>1 DEF Control, InPlace, SetupStages, ActivateStages, Away
    <2> QED BY <1>4, <2>1, <2>2
<1>5. CASE Returned
    <2>1. db.backup # 0 /\ ssh.owner = "user" /\ Backups = {} BY <1>5 DEF Returned
    <2>2. cmd.at \notin Taking BY <2>1 DEF Control
    <2>3. cmd.op # "activate" BY <2>1 DEF Control
    <2>4. cmd.at \notin Away BY <2>3 DEF Control, InPlace, SetupStages, RestoreStages, Away
    <2>5. cmd.op = "idle" => db.phase # "activated" /\ ~db.rows BY <1>5 DEF Returned
    <2> QED BY <1>5, <2>1, <2>2, <2>3, <2>4, <2>5 DEF Taking
<1> QED BY <1>1, <1>2, <1>3, <1>4, <1>5 DEF Situation

\* Each situation is left as it is by what does not concern it.
LEMMA UntouchedStays ==
    ASSUME Untouched, UNCHANGED slots, ssh'.owner = ssh.owner, db'.backup = db.backup, ~db'.rows, cmd'.at \notin Away
    PROVE  Untouched'
BY DEF Untouched, Backups

LEMMA MovingStays ==
    ASSUME Moving, UNCHANGED slots, db'.backup = db.backup, ~db'.rows, cmd'.at \in Away, cmd'.slot = cmd.slot,
           cmd'.at \notin {"plant", "commit"}
    PROVE  Moving'
BY DEF Moving, Backups

LEMMA InstalledStays ==
    ASSUME Installed, UNCHANGED <<ssh, slots>>, db'.backup = db.backup, lapse \subseteq lapse',
           cmd'.at \notin {"return", "unaside"}
    PROVE  Installed'
BY DEF Installed, Backups, Whole, AsPlanted

LEMMA ReturningStays ==
    ASSUME Returning, UNCHANGED slots, db'.backup = db.backup, lapse \subseteq lapse',
           cmd'.at \in {"return", "unaside"}, cmd'.slot = cmd.slot, cmd'.mine = cmd.mine
    PROVE  Returning'
BY DEF Returning, Backups, Whole, AsPlanted

LEMMA ReturnedStays ==
    ASSUME Returned, UNCHANGED slots, ssh'.owner = ssh.owner, db'.backup = db.backup,
           db'.phase = "activated" => cmd'.op = "restore" /\ cmd'.at \in {"git", "rc", "done", "row"},
           db'.rows => cmd'.op = "restore" /\ cmd'.at \in {"git", "rc", "done"}
    PROVE  Returned'
BY DEF Returned, Backups

LEMMA SituationSame ==
    ASSUME Situation, UNCHANGED <<ssh, slots, db, cmd>>, lapse \subseteq lapse'
    PROVE  Situation'
<1>1. Backups' = Backups BY DEF Backups
<1>2. (AsPlanted' => AsPlanted) /\ (Whole(ssh) => Whole(ssh)') /\ (Whole(slots[cmd.mine].dir) => Whole(slots[cmd.mine].dir)')
    BY DEF AsPlanted, Whole
<1>3. (Untouched => Untouched') /\ (Returned => Returned') BY <1>1 DEF Untouched, Returned
<1>4. (Moving => Moving') BY <1>1, <1>2 DEF Moving
<1>5. (Installed => Installed') /\ (Returning => Returning') BY <1>1, <1>2 DEF Installed, Returning
<1> QED BY <1>3, <1>4, <1>5 DEF Situation

\* Phase 1, and Phase 2 before its rename, leave the directories alone.
LEMMA BeforeRename ==
    ASSUME Situation, Control, Recorded, Shapes, UNCHANGED <<ssh, slots>>, db'.backup = db.backup, db'.rows = db.rows,
           db'.phase = "activated" => db.phase = "activated", lapse \subseteq lapse',
           cmd'.at \notin Away \cup {"return", "unaside"},
           cmd.op = "idle" \/ (cmd.op \in {"setup", "activate"} /\ cmd.at \notin Away)
    PROVE  Situation'
<1>1. Untouched \/ Installed \/ (Returned /\ cmd.op # "restore")
    <2>1. CASE cmd.op = "idle" BY <2>1, InSituation
    <2>2. CASE cmd.op \in {"setup", "activate"} /\ cmd.at \notin Away
        <3>1. ~Moving BY <2>2 DEF Moving
        <3>2. ~Returning BY <2>2 DEF Returning, Control, InPlace, SetupStages, ActivateStages
        <3> QED BY <2>2, <3>1, <3>2 DEF Situation
    <2> QED BY <2>1, <2>2
<1>2. CASE Untouched
    <2>1. ~db'.rows BY <1>2 DEF Untouched
    <2> QED BY <1>2, <2>1, UntouchedStays DEF Situation
<1>3. CASE Returned /\ cmd.op # "restore"
    <2>1. db.phase # "activated" /\ ~db.rows BY <1>3 DEF Returned
    <2> QED BY <1>3, <2>1, ReturnedStays DEF Situation
<1>4. CASE Installed BY <1>4, InstalledStays DEF Situation
<1> QED BY <1>1, <1>2, <1>3, <1>4

\* So does a restore before and after it moves them.
LEMMA AroundReturn ==
    ASSUME Situation, Control, Recorded, Shapes, UNCHANGED <<ssh, slots>>, db'.backup = db.backup,
           db'.rows => db.rows, db'.phase = "activated" => db.phase = "activated", lapse \subseteq lapse',
           cmd.op = "restore", cmd.at \notin {"return", "unaside"},
           cmd'.op \in {"idle", "restore"}, cmd'.at \notin Away \cup {"return", "unaside"},
           db'.phase = "activated" /\ cmd.at \in {"git", "rc", "done", "row"}
              => cmd'.op = "restore" /\ cmd'.at \in {"git", "rc", "done", "row"},
           db'.rows /\ cmd.at \in {"git", "rc", "done"} => cmd'.op = "restore" /\ cmd'.at \in {"git", "rc", "done"}
    PROVE  Situation'
<1>1. cmd.at \notin Away BY DEF Control, InPlace, RestoreStages, Away
<1>2. ~Moving /\ ~Returning BY <1>1 DEF Moving, Returning
<1>3. CASE Untouched
    <2>1. ~db'.rows BY <1>3 DEF Untouched
    <2> QED BY <1>3, <2>1, UntouchedStays DEF Situation
<1>4. CASE Installed BY <1>4, InstalledStays DEF Situation
<1>5. CASE Returned
    <2>1. db'.phase = "activated" => cmd'.op = "restore" /\ cmd'.at \in {"git", "rc", "done", "row"} BY <1>5 DEF Returned
    <2>2. db'.rows => cmd'.op = "restore" /\ cmd'.at \in {"git", "rc", "done"} BY <1>5 DEF Returned
    <2> QED BY <1>5, <2>1, <2>2, ReturnedStays DEF Situation
<1> QED BY <1>2, <1>3, <1>4, <1>5 DEF Situation

\* A crash or a failed rollback ends the calm.
LEMMA NotCalm ==
    ASSUME lapse' = lapse \cup {"crash"} \/ lapse' = lapse \cup {"fatal"}
    PROVE  Calm'
BY DEF Calm, Orderly

LEMMA WasOrderly ==
    ASSUME lapse \subseteq lapse', Orderly'
    PROVE  Orderly
BY DEF Orderly

\* No fake gets into the relocated copy.
LEMMA FakesKeptOut ==
    ASSUME SSHCanaryAssumption, SSHInv, Next, Orderly, AsPlanted, NoFakes, Situation
    PROVE  NoFakes'
<1>0. Shapes /\ Control /\ Slotted /\ Recorded /\ Owned /\ Bottom /\ Calm /\ Dated /\ Faithful /\ Rowed BY DEF SSHInv
<1>1. ASSUME NEW force \in BOOLEAN, StartSetup(force) PROVE NoFakes'
    <2>1. cmd.op = "idle" /\ cmd'.inv = ssh.files /\ copy' = copy /\ ~IsCanaryDir(ssh) BY <1>0, <1>1, StartSetupDoes DEF Starts
    <2>2. ~Installed BY <2>1, WholeIsCanary DEF Installed
    <2>3. ssh.owner = "user" BY <2>1, <2>2, <1>0, InSituation
    <2>4. \A f \in Keys : ssh.files[f] # Canary BY <2>3, <1>0, TheirsAreReal
    <2> QED BY <2>1, <2>4 DEF NoFakes
<1>2. ASSUME NEW force \in BOOLEAN, StartActivate(force) PROVE NoFakes'
    <2>1. cmd.op = "idle" /\ cmd'.inv = ssh.files /\ copy' = copy /\ ~IsCanaryDir(ssh) BY <1>0, <1>2, StartActivateDoes DEF Starts
    <2>2. ~Installed BY <2>1, WholeIsCanary DEF Installed
    <2>3. ssh.owner = "user" BY <2>1, <2>2, <1>0, InSituation
    <2>4. \A f \in Keys : ssh.files[f] # Canary BY <2>3, <1>0, TheirsAreReal
    <2> QED BY <2>1, <2>4 DEF NoFakes
<1>3. ASSUME NEW force \in BOOLEAN, StartRestore(force) PROVE NoFakes' BY <1>0, <1>3, StartRestoreDoes DEF NoFakes, Ends, MovesTo, Carries, Starts
<1>4. ASSUME NEW f \in Keys, CopyFile(f) PROVE NoFakes'
    <2>1. cmd.op \in {"setup", "activate"} BY <1>0, <1>4, CopyFileDoes DEF Control, InPlace, RestoreStages
    <2>2. copy' = copy \/ copy' = [copy EXCEPT ![f] = cmd.inv[f]] BY <1>0, <1>4, CopyFileDoes
    <2>3. \A g \in Keys : copy'[g] = copy[g] \/ copy'[g] = cmd.inv[g] BY <2>2, <1>0 DEF Shapes
    <2> QED BY <2>1, <2>3, <1>0, <1>4, CopyFileDoes DEF NoFakes, MovesTo, Carries
<1>5. ASSUME CopyDone PROVE NoFakes'
    <2>1. copy' = copy \/ copy' = Seeded(copy) BY <1>0, <1>5, CopyDoneDoes
    <2>2. \A g \in Keys : copy'[g] = copy[g] \/ copy'[g] = EmptyFile BY <2>1, <1>0 DEF Shapes, Seeded
    <2>3. EmptyFile # Canary BY DEF EmptyFile, Canary
    <2> QED BY <2>2, <2>3, <1>0, <1>5, CopyDoneDoes DEF NoFakes, Ends, MovesTo, Carries
<1>6. ASSUME WriteConfig PROVE NoFakes' BY <1>0, <1>6, WriteConfigDoes DEF NoFakes, Ends, MovesTo, Carries, Starts
<1>7. ASSUME RecordConfig PROVE NoFakes' BY <1>0, <1>7, RecordConfigDoes DEF NoFakes, Ends, MovesTo, Carries, Starts
<1>8. ASSUME NEW item \in Items, Install(item) PROVE NoFakes' BY <1>0, <1>8, InstallDoes DEF NoFakes, Ends, MovesTo, Carries, Starts
<1>9. ASSUME NEW item \in Items, RecordInstall(item) PROVE NoFakes' BY <1>0, <1>9, RecordInstallDoes DEF NoFakes, Ends, MovesTo, Carries, Starts
<1>10. ASSUME FinishSetup PROVE NoFakes' BY <1>0, <1>10, FinishSetupDoes DEF NoFakes, Ends, MovesTo, Carries, Starts
<1>11. ASSUME CheckAll PROVE NoFakes' BY <1>0, <1>11, CheckAllDoes DEF NoFakes, Ends, MovesTo, Carries, Starts
<1>12. ASSUME RenameAway PROVE NoFakes' BY <1>0, <1>12, RenameAwayDoes DEF NoFakes, Ends, MovesTo, Carries, Starts
<1>13. ASSUME VerifyBackup PROVE NoFakes' BY <1>0, <1>13, VerifyBackupDoes DEF NoFakes, Ends, MovesTo, Carries, Starts
<1>14. ASSUME MakeDirectory PROVE NoFakes' BY <1>0, <1>14, MakeDirectoryDoes DEF NoFakes, Ends, MovesTo, Carries, Starts
<1>15. ASSUME PlantCanary PROVE NoFakes' BY <1>0, <1>15, PlantCanaryDoes DEF NoFakes, Ends, MovesTo, Carries, Starts
<1>16. ASSUME CopyAuthorizedKeys PROVE NoFakes' BY <1>0, <1>16, CopyAuthorizedKeysDoes DEF NoFakes, Ends, MovesTo, Carries, Starts
<1>17. ASSUME Commit PROVE NoFakes' BY <1>0, <1>17, CommitDoes DEF NoFakes, Ends, MovesTo, Carries, Starts
<1>18. ASSUME Unplant PROVE NoFakes' BY <1>0, <1>18, UnplantDoes DEF NoFakes, Ends, MovesTo, Carries, Starts
<1>19. ASSUME RenameBack PROVE NoFakes' BY <1>0, <1>19, RenameBackDoes DEF NoFakes, Ends, MovesTo, Carries, Starts
<1>20. ASSUME NEW item \in Items, Undo(item) PROVE NoFakes' BY <1>0, <1>20, UndoDoes DEF NoFakes, Ends, MovesTo, Carries, Starts
<1>21. ASSUME NEW item \in Items, RetireUndone(item) PROVE NoFakes' BY <1>0, <1>21, RetireUndoneDoes DEF NoFakes, Ends, MovesTo, Carries, Starts
<1>22. ASSUME ChooseBackup PROVE NoFakes' BY <1>0, <1>22, ChooseBackupDoes DEF NoFakes, Ends, MovesTo, Carries, Starts
<1>23. ASSUME MoveAside PROVE NoFakes' BY <1>0, <1>23, MoveAsideDoes DEF NoFakes, Ends, MovesTo, Carries, Starts
<1>24. ASSUME ReturnBackup PROVE NoFakes' BY <1>0, <1>24, ReturnBackupDoes DEF NoFakes, Ends, MovesTo, Carries, Starts
<1>25. ASSUME UndoAside PROVE NoFakes' BY <1>0, <1>25, UndoAsideDoes DEF NoFakes, Ends, MovesTo, Carries, Starts
<1>26. ASSUME Deactivate PROVE NoFakes' BY <1>0, <1>26, DeactivateDoes DEF NoFakes, Ends, MovesTo, Carries, Starts
<1>27. ASSUME FinishRestore PROVE NoFakes' BY <1>0, <1>27, FinishRestoreDoes DEF NoFakes, Ends, MovesTo, Carries, Starts
<1>28. ASSUME UserWrites PROVE NoFakes' BY <1>0, <1>28, UserWritesDoes DEF NoFakes, Ends, MovesTo, Carries, Starts
<1>29. ASSUME UserCreates PROVE NoFakes' BY <1>0, <1>29, UserCreatesDoes DEF NoFakes, Ends, MovesTo, Carries, Starts
<1>30. ASSUME UserWritesCopy PROVE NoFakes'
    <2>1. copy' = copy \/ copy' = [copy EXCEPT ![KnownHosts] = Fresh] BY <1>0, <1>30, UserWritesCopyDoes
    <2>2. \A g \in Keys : copy'[g] = copy[g] \/ copy'[g] = Fresh BY <2>1, <1>0 DEF Shapes
    <2> QED BY <2>2, <1>0, <1>30, UserWritesCopyDoes, FreshKnown DEF NoFakes
<1>31. ASSUME UserChangesItem PROVE NoFakes' BY <1>0, <1>31, UserChangesItemDoes DEF NoFakes, Ends, MovesTo, Carries, Starts
<1>32. ASSUME Crash PROVE NoFakes' BY <1>0, <1>32, CrashDoes DEF NoFakes, Ends, MovesTo, Carries, Starts
<1> QED BY <1>1, <1>2, <1>3, <1>4, <1>5, <1>6, <1>7, <1>8, <1>9, <1>10, <1>11, <1>12, <1>13, <1>14,
           <1>15, <1>16, <1>17, <1>18, <1>19, <1>20, <1>21, <1>22, <1>23, <1>24, <1>25, <1>26, <1>27,
           <1>28, <1>29, <1>30, <1>31, <1>32
        DEF Next, Command, Phase1, Phase2, Restore, InstallWrappers, InstallRcBlock, SetGitSshCommand,
            RemoveWrappers, RemoveRcBlocks, RestoreGitSshCommand, Items

\* An activation under way goes to another of its stages.
LEMMA MovesOn ==
    ASSUME Moving, UNCHANGED <<slots, db>>, cmd'.at \in Away, cmd'.slot = cmd.slot, cmd'.at \notin {"plant", "commit"}
    PROVE  Situation'
<1>1. db'.backup = db.backup /\ ~db'.rows BY DEF Moving
<1> QED BY <1>1, MovingStays DEF Situation

\* ... or goes on planting.
LEMMA PlantsOn ==
    ASSUME Moving, UNCHANGED <<slots, db>>, cmd'.at \in {"plant", "commit"}, cmd'.slot = cmd.slot,
           cmd'.planted <= Len(Planted), cmd'.at = "commit" => cmd'.planted = Len(Planted),
           AsPlanted' => \A i \in 1 .. cmd'.planted : ssh'.files[Planted[i]] = Canary
    PROVE  Situation'
<1>1. Moving' BY DEF Moving, Backups, Away, AsPlanted
<1> QED BY <1>1 DEF Situation

\* Each step keeps to one of the five situations, or goes to the next.
LEMMA SituationKept ==
    ASSUME SSHCanaryAssumption, SSHInv, Next, Orderly, Situation
    PROVE  (Orderly' => Situation')
<1>0. Shapes /\ Control /\ Slotted /\ Recorded /\ Owned /\ Bottom /\ Calm /\ Dated /\ Faithful /\ Rowed BY DEF SSHInv
<1>1. ASSUME NEW force \in BOOLEAN, StartSetup(force) PROVE (Orderly' => Situation')
    <2>1. /\ cmd.op = "idle" /\ cmd'.at = "copy"
          /\ UNCHANGED <<ssh, slots, db, lapse>> BY <1>0, <1>1, StartSetupDoes DEF Starts
    <2> QED BY <2>1, <1>0, BeforeRename DEF Away
<1>2. ASSUME NEW force \in BOOLEAN, StartActivate(force) PROVE (Orderly' => Situation')
    <2>1. /\ cmd.op = "idle" /\ cmd'.at = "copy"
          /\ UNCHANGED <<ssh, slots, db, lapse>> BY <1>0, <1>2, StartActivateDoes DEF Starts
    <2> QED BY <2>1, <1>0, BeforeRename DEF Away
<1>3. ASSUME NEW force \in BOOLEAN, StartRestore(force) PROVE (Orderly' => Situation')
    <2>1. /\ cmd.op = "idle" /\ cmd'.at = "wrapper"
          /\ UNCHANGED <<ssh, slots, db, lapse>> BY <1>0, <1>3, StartRestoreDoes DEF Starts
    <2> QED BY <2>1, <1>0, BeforeRename DEF Away
<1>4. ASSUME NEW f \in Keys, CopyFile(f) PROVE (Orderly' => Situation')
    <2>1. /\ cmd.op \in {"setup", "activate"} /\ cmd.at \notin Away
        BY <1>0, <1>4, CopyFileDoes DEF Control, InPlace, RestoreStages, Away, Items
    <2>2. /\ UNCHANGED <<ssh, slots, lapse>> /\ db'.backup = db.backup /\ db'.rows = db.rows
          /\ db'.phase = "activated" => db.phase = "activated" BY <1>0, <1>4, CopyFileDoes
    <2>3. cmd'.at \notin Away \cup {"return", "unaside"}
        BY <2>1, <1>0, <1>4, CopyFileDoes, NextStage DEF Ends, MovesTo, Carries, Away, Items
    <2> QED BY <2>1, <2>2, <2>3, <1>0, BeforeRename
<1>5. ASSUME CopyDone PROVE (Orderly' => Situation')
    <2>1. /\ cmd.op \in {"setup", "activate"} /\ cmd.at \notin Away
        BY <1>0, <1>5, CopyDoneDoes DEF Control, InPlace, RestoreStages, Away, Items
    <2>2. /\ UNCHANGED <<ssh, slots, lapse>> /\ db'.backup = db.backup /\ db'.rows = db.rows
          /\ db'.phase = "activated" => db.phase = "activated" BY <1>0, <1>5, CopyDoneDoes
    <2>3. cmd'.at \notin Away \cup {"return", "unaside"}
        BY <2>1, <1>0, <1>5, CopyDoneDoes, NextStage DEF Ends, MovesTo, Carries, Away, Items
    <2> QED BY <2>1, <2>2, <2>3, <1>0, BeforeRename
<1>6. ASSUME WriteConfig PROVE (Orderly' => Situation')
    <2>1. /\ cmd.op \in {"setup", "activate"} /\ cmd.at \notin Away
        BY <1>0, <1>6, WriteConfigDoes DEF Control, InPlace, RestoreStages, Away, Items
    <2>2. /\ UNCHANGED <<ssh, slots, lapse>> /\ db'.backup = db.backup /\ db'.rows = db.rows
          /\ db'.phase = "activated" => db.phase = "activated" BY <1>0, <1>6, WriteConfigDoes
    <2>3. cmd'.at \notin Away \cup {"return", "unaside"}
        BY <2>1, <1>0, <1>6, WriteConfigDoes, NextStage DEF Ends, MovesTo, Carries, Away, Items
    <2> QED BY <2>1, <2>2, <2>3, <1>0, BeforeRename
<1>7. ASSUME RecordConfig PROVE (Orderly' => Situation')
    <2>1. /\ cmd.op \in {"setup", "activate"} /\ cmd.at \notin Away
        BY <1>0, <1>7, RecordConfigDoes DEF Control, InPlace, RestoreStages, Away, Items
    <2>2. /\ UNCHANGED <<ssh, slots, lapse>> /\ db'.backup = db.backup /\ db'.rows = db.rows
          /\ db'.phase = "activated" => db.phase = "activated" BY <1>0, <1>7, RecordConfigDoes
    <2>3. cmd'.at \notin Away \cup {"return", "unaside"}
        BY <2>1, <1>0, <1>7, RecordConfigDoes, NextStage DEF Ends, MovesTo, Carries, Away, Items
    <2> QED BY <2>1, <2>2, <2>3, <1>0, BeforeRename
<1>8. ASSUME NEW item \in Items, Install(item) PROVE (Orderly' => Situation')
    <2>1. /\ cmd.op \in {"setup", "activate"} /\ cmd.at \notin Away
        BY <1>0, <1>8, InstallDoes DEF Control, InPlace, RestoreStages, Away, Items
    <2>2. /\ UNCHANGED <<ssh, slots, lapse>> /\ db'.backup = db.backup /\ db'.rows = db.rows
          /\ db'.phase = "activated" => db.phase = "activated" BY <1>0, <1>8, InstallDoes
    <2>3. cmd'.at \notin Away \cup {"return", "unaside"}
        BY <2>1, <1>0, <1>8, InstallDoes, NextStage DEF Ends, MovesTo, Carries, Away, Items
    <2> QED BY <2>1, <2>2, <2>3, <1>0, BeforeRename
<1>9. ASSUME NEW item \in Items, RecordInstall(item) PROVE (Orderly' => Situation')
    <2>1. /\ cmd.op \in {"setup", "activate"} /\ cmd.at \notin Away
        BY <1>0, <1>9, RecordInstallDoes DEF Control, InPlace, RestoreStages, Away, Items
    <2>2. /\ UNCHANGED <<ssh, slots, lapse>> /\ db'.backup = db.backup /\ db'.rows = db.rows
          /\ db'.phase = "activated" => db.phase = "activated" BY <1>0, <1>9, RecordInstallDoes
    <2>3. cmd'.at \notin Away \cup {"return", "unaside"}
        BY <2>1, <1>0, <1>9, RecordInstallDoes, NextStage DEF Ends, MovesTo, Carries, Away, Items
    <2> QED BY <2>1, <2>2, <2>3, <1>0, BeforeRename
<1>10. ASSUME FinishSetup PROVE (Orderly' => Situation')
    <2>1. /\ cmd.op \in {"setup", "activate"} /\ cmd.at \notin Away
        BY <1>0, <1>10, FinishSetupDoes DEF Control, InPlace, RestoreStages, Away, Items
    <2>2. /\ UNCHANGED <<ssh, slots, lapse>> /\ db'.backup = db.backup /\ db'.rows = db.rows
          /\ db'.phase = "activated" => db.phase = "activated" BY <1>0, <1>10, FinishSetupDoes
    <2>3. cmd'.at \notin Away \cup {"return", "unaside"}
        BY <2>1, <1>0, <1>10, FinishSetupDoes, NextStage DEF Ends, MovesTo, Carries, Away, Items
    <2> QED BY <2>1, <2>2, <2>3, <1>0, BeforeRename
<1>11. ASSUME CheckAll PROVE (Orderly' => Situation')
    <2>1. /\ cmd.op \in {"setup", "activate"} /\ cmd.at \notin Away
        BY <1>0, <1>11, CheckAllDoes DEF Control, InPlace, RestoreStages, Away, Items
    <2>2. /\ UNCHANGED <<ssh, slots, lapse>> /\ db'.backup = db.backup /\ db'.rows = db.rows
          /\ db'.phase = "activated" => db.phase = "activated" BY <1>0, <1>11, CheckAllDoes
    <2>3. cmd'.at \notin Away \cup {"return", "unaside"}
        BY <2>1, <1>0, <1>11, CheckAllDoes, NextStage DEF Ends, MovesTo, Carries, Away, Items
    <2> QED BY <2>1, <2>2, <2>3, <1>0, BeforeRename
<1>12. ASSUME RenameAway PROVE (Orderly' => Situation')
    <2>1. cmd.op = "activate" /\ cmd.at = "rename"
        BY <1>0, <1>12, RenameAwayDoes DEF Control, InPlace, SetupStages, RestoreStages
    <2>2. Untouched BY <2>1, <1>0, InSituation DEF Away
    <2>3. CASE Ends /\ UNCHANGED <<ssh, slots>>
        <3>1. cmd'.at \notin Away \cup {"return", "unaside"} BY <2>3 DEF Ends, Away
        <3>2. cmd.at \notin Away BY <2>1 DEF Away
        <3>3. UNCHANGED <<db, lapse>> BY <1>0, <1>12, RenameAwayDoes
        <3> QED BY <3>1, <3>2, <3>3, <2>1, <2>3, <1>0, BeforeRename
    <2>4. CASE ~(Ends /\ UNCHANGED <<ssh, slots>>)
        <3>1. /\ ssh # NoDir /\ ssh' = NoDir /\ slots' = Append(slots, [kind |-> "backup", dir |-> ssh])
              /\ cmd'.at = "verify" /\ cmd'.slot = Len(slots) + 1 /\ UNCHANGED <<born, theirs, db>>
            BY <2>4, <1>0, <1>12, RenameAwayDoes
        <3>2. Backups' = Backups \cup {cmd'.slot} /\ slots'[cmd'.slot].dir = ssh BY <3>1, <1>0, Pushed
        <3>3. Backups' = {cmd'.slot} /\ slots'[cmd'.slot].dir.owner = "user" /\ db'.backup = 0 /\ ~db'.rows
            BY <3>1, <3>2, <2>2 DEF Untouched
        <3>4. Moving' BY <3>1, <3>3 DEF Moving, Away
        <3> QED BY <3>4 DEF Situation
    <2> QED BY <2>3, <2>4
<1>13. ASSUME VerifyBackup PROVE (Orderly' => Situation')
    <2>1. Moving BY <1>0, <1>13, VerifyBackupDoes, InSituation DEF Away
    <2>2. /\ cmd'.at \in {"mkdir", "unplant"} /\ cmd'.slot = cmd.slot /\ UNCHANGED <<slots, db>>
        BY <1>0, <1>13, VerifyBackupDoes DEF MovesTo, Carries
    <2> QED BY <2>1, <2>2, MovesOn DEF Away
<1>14. ASSUME MakeDirectory PROVE (Orderly' => Situation')
    <2>1. Moving /\ cmd.planted = 0 BY <1>0, <1>14, MakeDirectoryDoes, InSituation DEF Away, Control
    <2>2. cmd'.slot = cmd.slot /\ UNCHANGED <<slots, db>> BY <1>0, <1>14, MakeDirectoryDoes DEF MovesTo, Carries
    <2>3. CASE cmd'.at = "unplant" BY <2>1, <2>2, <2>3, MovesOn DEF Away
    <2>4. CASE cmd'.at # "unplant"
        <3>1. cmd'.at = "plant" /\ cmd'.planted = 0 BY <2>1, <2>4, <1>0, <1>14, MakeDirectoryDoes DEF MovesTo
        <3>2. 0 <= Len(Planted) BY PlantedNames
        <3> QED BY <2>1, <2>2, <3>1, <3>2, PlantsOn DEF Away
    <2> QED BY <2>3, <2>4
<1>15. ASSUME PlantCanary PROVE (Orderly' => Situation')
    <2>1. Moving BY <1>0, <1>15, PlantCanaryDoes, InSituation DEF Away
    <2>2. cmd'.slot = cmd.slot /\ UNCHANGED <<slots, db>> BY <1>0, <1>15, PlantCanaryDoes DEF MovesTo, Carries
    <2>3. CASE cmd'.at = "unplant" BY <2>1, <2>2, <2>3, MovesOn DEF Away
    <2>4. CASE cmd'.at # "unplant"
        <3>1. /\ cmd.at = "plant" /\ cmd'.at = "plant" /\ cmd'.planted = cmd.planted + 1 /\ cmd.planted < Len(Planted)
              /\ cmd.planted + 1 \in DOMAIN Planted /\ Planted[cmd.planted + 1] \in Names
              /\ ssh' = [ssh EXCEPT !.files[Planted[cmd.planted + 1]] = Canary]
            BY <2>4, <1>0, <1>15, PlantCanaryDoes DEF MovesTo
        <3>2. PICK g \in Names : g = Planted[cmd.planted + 1] /\ ssh' = [ssh EXCEPT !.files[g] = Canary] BY <3>1
        <3>3. ssh'.files[g] = Canary /\ \A f \in Names : f # g => ssh'.files[f] = ssh.files[f]
            <4>1. ssh \in Dir /\ Canary \in Content BY <1>0, Nothing DEF Shapes
            <4>2. ssh' = [ssh EXCEPT !.files[g] = Canary] BY <3>2
            <4> QED BY <4>1, <4>2, FileSet
        <3>4. AsPlanted' => \A i \in 1 .. cmd.planted : ssh.files[Planted[i]] = Canary
            BY <2>1, <3>1, <1>0, <1>15, PlantCanaryDoes DEF Moving, AsPlanted
        <3>5. /\ cmd.planted \in Nat /\ Len(Planted) \in Nat /\ DOMAIN Planted = 1 .. Len(Planted)
              /\ \A i \in DOMAIN Planted : Planted[i] \in Names BY <1>0, SlotDirs, PlantedNames
        <3>6. AsPlanted' => \A i \in 1 .. cmd.planted + 1 : ssh'.files[Planted[i]] = Canary
            <4> SUFFICES ASSUME AsPlanted', NEW i \in 1 .. cmd.planted + 1 PROVE ssh'.files[Planted[i]] = Canary OBVIOUS
            <4>1. i \in DOMAIN Planted /\ (i = cmd.planted + 1 \/ i \in 1 .. cmd.planted) BY <3>1, <3>5
            <4>2. CASE i = cmd.planted + 1 BY <4>2, <3>2, <3>3
            <4>3. CASE i \in 1 .. cmd.planted
                <5>1. ssh.files[Planted[i]] = Canary /\ Planted[i] \in Names BY <4>1, <4>3, <3>4, <3>5
                <5> QED BY <5>1, <3>3
            <4> QED BY <4>1, <4>2, <4>3
        <3>7. cmd'.planted <= Len(Planted) BY <3>1, <3>5
        <3> QED BY <2>1, <2>2, <3>1, <3>6, <3>7, PlantsOn DEF Away
    <2> QED BY <2>3, <2>4
<1>16. ASSUME CopyAuthorizedKeys PROVE (Orderly' => Situation')
    <2>1. Moving BY <1>0, <1>16, CopyAuthorizedKeysDoes, InSituation DEF Away
    <2>2. cmd'.slot = cmd.slot /\ UNCHANGED <<slots, db>> BY <1>0, <1>16, CopyAuthorizedKeysDoes DEF MovesTo, Carries
    <2>3. CASE cmd'.at = "unplant" BY <2>1, <2>2, <2>3, MovesOn DEF Away
    <2>4. CASE cmd'.at # "unplant"
        <3>1. /\ cmd.at = "plant" /\ cmd'.at = "commit" /\ cmd'.planted = cmd.planted /\ cmd.planted = Len(Planted)
              /\ ssh' = ssh \/ ssh' = [ssh EXCEPT !.files[AuthorizedKeys] = slots[cmd.slot].dir.files[AuthorizedKeys]]
            BY <2>4, <1>0, <1>16, CopyAuthorizedKeysDoes DEF MovesTo, Carries
        <3>2. cmd.slot \in DOMAIN slots BY <1>0, <1>16, CopyAuthorizedKeysDoes, SomeBackup DEF Away, Taking, Backups
        <3>3. slots[cmd.slot].dir.files[AuthorizedKeys] \in Content BY <3>2, <1>0, SlotDirs, NamesKnown DEF Dir
        <3>4. \A f \in Names : f # AuthorizedKeys => ssh'.files[f] = ssh.files[f]
            BY <3>1, <3>3, <1>0, FileSet, NamesKnown DEF Shapes
        <3>5. AsPlanted' => \A i \in 1 .. Len(Planted) : ssh.files[Planted[i]] = Canary
            BY <2>1, <3>1, <1>0, <1>16, CopyAuthorizedKeysDoes DEF Moving, AsPlanted
        <3>6. AsPlanted' => \A i \in 1 .. Len(Planted) : ssh'.files[Planted[i]] = Canary BY <3>4, <3>5, PlantedNames
        <3>7. Len(Planted) <= Len(Planted) BY PlantedNames
        <3> QED BY <2>1, <2>2, <3>1, <3>6, <3>7, PlantsOn DEF Away
    <2> QED BY <2>3, <2>4
<1>17. ASSUME Commit PROVE (Orderly' => Situation')
    <2>1. Moving BY <1>0, <1>17, CommitDoes, InSituation DEF Away
    <2>2. CASE MovesTo("unplant") /\ db' = db
        <3>1. cmd'.at = "unplant" /\ cmd'.slot = cmd.slot BY <2>2 DEF MovesTo, Carries
        <3> QED BY <2>1, <2>2, <3>1, <1>0, <1>17, CommitDoes, MovesOn DEF Away
    <2>3. CASE Ends /\ db'.backup = cmd.slot
        <3>1. cmd.at = "commit" /\ UNCHANGED <<ssh, slots, lapse>> BY <1>0, <1>17, CommitDoes
        <3>2. ssh.id # 0 /\ cmd.slot # 0 /\ ssh.owner # "user" BY <3>1, <1>0, Mine DEF Control, Away
        <3>3. AsPlanted => Whole(ssh) BY <3>1, <2>1, PlantedNames DEF Moving, Whole
        <3>4. Backups = {cmd.slot} /\ slots[cmd.slot].dir.owner = "user" BY <2>1 DEF Moving
        <3>5. AsPlanted' => Whole(ssh)' BY <3>1, <3>3 DEF Whole, AsPlanted
        <3>6. Backups' = Backups BY <3>1 DEF Backups
        <3>7. cmd'.op = "idle" /\ cmd'.at = "" BY <2>3 DEF Ends
        <3>8. Installed' BY <2>3, <3>1, <3>2, <3>4, <3>5, <3>6, <3>7 DEF Installed
        <3> QED BY <3>8 DEF Situation
    <2> QED BY <2>2, <2>3, <1>0, <1>17, CommitDoes
<1>18. ASSUME Unplant PROVE (Orderly' => Situation')
    <2>1. Moving /\ cmd.at = "unplant" BY <1>0, <1>18, UnplantDoes, InSituation DEF Away
    <2>2. CASE lapse' = lapse \cup {"fatal"} BY <2>2 DEF Orderly
    <2>3. CASE lapse' # lapse \cup {"fatal"}
        <3>1. cmd'.at \in {"unplant", "back"} /\ cmd'.slot = cmd.slot /\ UNCHANGED <<slots, db>>
            BY <2>1, <2>3, <1>0, <1>18, UnplantDoes DEF MovesTo, Carries
        <3> QED BY <2>1, <3>1, MovesOn DEF Away
    <2> QED BY <2>2, <2>3
<1>19. ASSUME RenameBack PROVE (Orderly' => Situation')
    <2>1. Moving BY <1>0, <1>19, RenameBackDoes, InSituation DEF Away
    <2>2. CASE lapse' = lapse \cup {"fatal"} BY <2>2 DEF Orderly
    <2>3. CASE lapse' # lapse \cup {"fatal"}
        <3>1. /\ ssh = NoDir /\ ssh' = slots[cmd.slot].dir /\ slots' = [slots EXCEPT ![cmd.slot].dir = NoDir]
              /\ UNCHANGED <<born, theirs, db>> /\ Ends BY <2>3, <1>0, <1>19, RenameBackDoes
        <3>2. cmd.slot \in DOMAIN slots BY <1>0, <1>19, RenameBackDoes, SomeBackup DEF Away, Taking, Backups
        <3>3. Backups' = Backups \ {cmd.slot} BY <3>1, <3>2, <1>0, Popped
        <3>4. Backups' = {} /\ ssh'.owner = "user" /\ db'.backup = 0 /\ ~db'.rows BY <2>1, <3>1, <3>3 DEF Moving
        <3>5. cmd'.at = "" BY <3>1 DEF Ends
        <3>6. Untouched' BY <3>4, <3>5 DEF Untouched, Away
        <3> QED BY <3>6 DEF Situation
    <2> QED BY <2>2, <2>3
<1>20. ASSUME NEW item \in Items, Undo(item) PROVE (Orderly' => Situation')
    <2>1. cmd.op = "restore" /\ cmd.at \notin {"return", "unaside"}
        BY <1>0, <1>20, UndoDoes DEF Control, InPlace, SetupStages, ActivateStages, Items
    <2>2. /\ UNCHANGED <<ssh, slots>> /\ lapse \subseteq lapse' /\ db'.backup = db.backup /\ (db'.rows => db.rows)
          /\ db'.phase = "activated" => db.phase = "activated" BY <1>0, <1>20, UndoDoes
    <2>3. cmd'.op \in {"idle", "restore"} /\ cmd'.at \notin Away \cup {"return", "unaside"}
        BY <2>1, <1>0, <1>20, UndoDoes, AfterStage DEF Ends, MovesTo, Carries, Away, Items
    <2>4. /\ db'.phase = "activated" /\ cmd.at \in {"git", "rc", "done", "row"}
             => cmd'.op = "restore" /\ cmd'.at \in {"git", "rc", "done", "row"}
          /\ db'.rows /\ cmd.at \in {"git", "rc", "done"} => cmd'.op = "restore" /\ cmd'.at \in {"git", "rc", "done"}
        BY <2>1, <1>0, <1>20, UndoDoes, AfterStage DEF Ends, MovesTo, Carries, Items
    <2> QED BY <2>1, <2>2, <2>3, <2>4, <1>0, AroundReturn
<1>21. ASSUME NEW item \in Items, RetireUndone(item) PROVE (Orderly' => Situation')
    <2>1. cmd.op = "restore" /\ cmd.at \notin {"return", "unaside"}
        BY <1>0, <1>21, RetireUndoneDoes DEF Control, InPlace, SetupStages, ActivateStages, Items
    <2>2. /\ UNCHANGED <<ssh, slots>> /\ lapse \subseteq lapse' /\ db'.backup = db.backup /\ (db'.rows => db.rows)
          /\ db'.phase = "activated" => db.phase = "activated" BY <1>0, <1>21, RetireUndoneDoes
    <2>3. cmd'.op \in {"idle", "restore"} /\ cmd'.at \notin Away \cup {"return", "unaside"}
        BY <2>1, <1>0, <1>21, RetireUndoneDoes, AfterStage DEF Ends, MovesTo, Carries, Away, Items
    <2>4. /\ db'.phase = "activated" /\ cmd.at \in {"git", "rc", "done", "row"}
             => cmd'.op = "restore" /\ cmd'.at \in {"git", "rc", "done", "row"}
          /\ db'.rows /\ cmd.at \in {"git", "rc", "done"} => cmd'.op = "restore" /\ cmd'.at \in {"git", "rc", "done"}
        BY <2>1, <1>0, <1>21, RetireUndoneDoes, AfterStage DEF Ends, MovesTo, Carries, Items
    <2> QED BY <2>1, <2>2, <2>3, <2>4, <1>0, AroundReturn
<1>22. ASSUME ChooseBackup PROVE (Orderly' => Situation')
    <2>1. cmd.op = "restore" /\ cmd.at = "choose"
        BY <1>0, <1>22, ChooseBackupDoes DEF Control, InPlace, SetupStages, ActivateStages
    <2>2. UNCHANGED <<ssh, slots, db, lapse>> BY <1>0, <1>22, ChooseBackupDoes
    <2>3. CASE MovesTo("git")
        <3>1. cmd'.op = "restore" /\ cmd'.at = "git" BY <2>1, <2>3 DEF MovesTo, Carries
        <3> QED BY <2>1, <2>2, <3>1, <1>0, AroundReturn DEF Away
    <2>4. CASE ~MovesTo("git")
        <3>1. Chosen \in Backups /\ cmd'.op = cmd.op /\ cmd'.at = IF ssh = NoDir THEN "return" ELSE "aside"
            BY <2>4, <1>0, <1>22, ChooseBackupDoes
        <3>2. Installed BY <3>1, <2>1, <1>0 DEF Situation, Untouched, Moving, Returning, Returned, Away
        <3>3. ssh # NoDir BY <3>2, Nothing DEF Installed
        <3> QED BY <2>1, <2>2, <3>1, <3>2, <3>3, InstalledStays DEF Situation
    <2> QED BY <2>3, <2>4
<1>23. ASSUME MoveAside PROVE (Orderly' => Situation')
    <2>1. cmd.op = "restore" /\ cmd.at = "aside"
        BY <1>0, <1>23, MoveAsideDoes DEF Control, InPlace, SetupStages, ActivateStages
    <2>2. Installed BY <2>1, <1>0, InSituation
    <2>3. CASE Ends /\ UNCHANGED <<ssh, slots>>
        <3>1. cmd'.op = "idle" /\ cmd'.at = "" BY <2>3 DEF Ends
        <3> QED BY <3>1, <2>2, <2>3, <1>0, <1>23, MoveAsideDoes, InstalledStays DEF Situation
    <2>4. CASE ~(Ends /\ UNCHANGED <<ssh, slots>>)
        <3>1. /\ ssh # NoDir /\ ssh' = NoDir /\ slots' = Append(slots, [kind |-> "aside", dir |-> ssh])
              /\ cmd'.at = "return" /\ cmd'.mine = Len(slots) + 1 /\ cmd'.slot = cmd.slot
              /\ UNCHANGED <<born, theirs, db, lapse>>
            BY <2>4, <1>0, <1>23, MoveAsideDoes
        <3>2. /\ Backups' = Backups /\ slots'[cmd'.mine].dir = ssh /\ cmd'.mine # 0
              /\ \A i \in DOMAIN slots : slots'[i] = slots[i] BY <3>1, <1>0, Pushed
        <3>3. cmd.slot \in Backups BY <2>1, <1>0 DEF Control, Taking
        <3>4. cmd.slot = db.backup /\ db.backup \in DOMAIN slots BY <2>2, <3>3 DEF Installed, Backups
        <3>5. slots'[db.backup] = slots[db.backup] BY <3>2, <3>4
        <3>6. AsPlanted' => Whole(slots[cmd.mine].dir)' BY <2>2, <3>1, <3>2 DEF Installed, Whole, AsPlanted
        <3>7. slots'[cmd'.mine].dir.id # 0 /\ slots'[cmd'.mine].dir.owner # "user" BY <2>2, <3>2 DEF Installed
        <3>8. db'.backup = db.backup /\ db.backup # 0 /\ Backups' = {db.backup} /\ slots'[db.backup].dir.owner = "user"
            BY <2>2, <3>1, <3>2, <3>5 DEF Installed
        <3>9. Returning' BY <3>1, <3>2, <3>4, <3>6, <3>7, <3>8 DEF Returning
        <3> QED BY <3>9 DEF Situation
    <2> QED BY <2>3, <2>4
<1>24. ASSUME ReturnBackup PROVE (Orderly' => Situation')
    <2>1. Returning BY <1>0, <1>24, ReturnBackupDoes, InSituation
    <2>2. CASE MovesTo("unaside") /\ UNCHANGED <<ssh, slots>>
        <3>1. cmd'.at = "unaside" /\ cmd'.slot = cmd.slot /\ cmd'.mine = cmd.mine BY <2>2 DEF MovesTo, Carries
        <3> QED BY <3>1, <2>1, <2>2, <1>0, <1>24, ReturnBackupDoes, ReturningStays DEF Situation
    <2>3. CASE ~(MovesTo("unaside") /\ UNCHANGED <<ssh, slots>>)
        <3>1. /\ ssh = NoDir /\ ssh' = slots[cmd.slot].dir /\ slots' = [slots EXCEPT ![cmd.slot].dir = NoDir]
              /\ UNCHANGED <<born, theirs, db>> /\ MovesTo("git") BY <2>3, <1>0, <1>24, ReturnBackupDoes
        <3>2. cmd.slot \in DOMAIN slots BY <1>0, <1>24, ReturnBackupDoes, SomeBackup DEF Away, Taking, Backups
        <3>3. Backups' = Backups \ {cmd.slot} BY <3>1, <3>2, <1>0, Popped
        <3>4. Backups' = {} /\ ssh'.owner = "user" /\ db'.backup # 0 BY <2>1, <3>1, <3>3 DEF Returning
        <3>5. cmd.op = "restore" BY <1>0, <1>24, ReturnBackupDoes DEF Control, InPlace, SetupStages, ActivateStages
        <3>6. cmd'.op = "restore" /\ cmd'.at = "git" BY <3>1, <3>5 DEF MovesTo, Carries
        <3>7. Returned' BY <3>4, <3>6 DEF Returned
        <3> QED BY <3>7 DEF Situation
    <2> QED BY <2>2, <2>3
<1>25. ASSUME UndoAside PROVE (Orderly' => Situation')
    <2>1. Returning BY <1>0, <1>25, UndoAsideDoes, InSituation
    <2>2. CASE lapse' = lapse \cup {"fatal"} BY <2>2 DEF Orderly
    <2>3. CASE lapse' # lapse \cup {"fatal"}
        <3>1. /\ ssh = NoDir /\ ssh' = slots[cmd.mine].dir /\ slots' = [slots EXCEPT ![cmd.mine].dir = NoDir]
              /\ UNCHANGED <<born, theirs, db>> /\ lapse \subseteq lapse' /\ Ends
            BY <2>1, <2>3, <1>0, <1>25, UndoAsideDoes DEF Returning
        <3>2. cmd.mine \in DOMAIN slots /\ slots[cmd.mine].kind = "aside"
            BY <2>1, <1>0, <1>25, UndoAsideDoes, SlotDirs DEF Control, Returning
        <3>3. Backups' = Backups \ {cmd.mine} /\ \A i \in DOMAIN slots : i # cmd.mine => slots'[i] = slots[i]
            BY <3>1, <3>2, <1>0, Popped
        <3>4. cmd.mine \notin Backups BY <3>2 DEF Backups
        <3>5. db.backup \in DOMAIN slots /\ db.backup # cmd.mine BY <2>1, <3>4 DEF Returning, Backups
        <3>6. slots'[db.backup] = slots[db.backup] BY <3>3, <3>5
        <3>7. db'.backup # 0 /\ Backups' = {db'.backup} /\ slots'[db'.backup].dir.owner = "user"
            BY <2>1, <3>1, <3>3, <3>4, <3>6 DEF Returning
        <3>8. (AsPlanted' => Whole(ssh)') /\ ssh'.id # 0 /\ ssh'.owner # "user" BY <2>1, <3>1 DEF Returning, Whole, AsPlanted
        <3>9. cmd'.op = "idle" /\ cmd'.at = "" BY <3>1 DEF Ends
        <3>10. Installed' BY <3>7, <3>8, <3>9 DEF Installed
        <3> QED BY <3>10 DEF Situation
    <2> QED BY <2>2, <2>3
<1>26. ASSUME Deactivate PROVE (Orderly' => Situation')
    <2>1. cmd.op = "restore" /\ cmd.at \notin {"return", "unaside"}
        BY <1>0, <1>26, DeactivateDoes DEF Control, InPlace, SetupStages, ActivateStages, Items
    <2>2. /\ UNCHANGED <<ssh, slots>> /\ lapse \subseteq lapse' /\ db'.backup = db.backup /\ (db'.rows => db.rows)
          /\ db'.phase = "activated" => db.phase = "activated" BY <1>0, <1>26, DeactivateDoes
    <2>3. cmd'.op \in {"idle", "restore"} /\ cmd'.at \notin Away \cup {"return", "unaside"}
        BY <2>1, <1>0, <1>26, DeactivateDoes, AfterStage DEF Ends, MovesTo, Carries, Away, Items
    <2>4. /\ db'.phase = "activated" /\ cmd.at \in {"git", "rc", "done", "row"}
             => cmd'.op = "restore" /\ cmd'.at \in {"git", "rc", "done", "row"}
          /\ db'.rows /\ cmd.at \in {"git", "rc", "done"} => cmd'.op = "restore" /\ cmd'.at \in {"git", "rc", "done"}
        BY <2>1, <1>0, <1>26, DeactivateDoes, AfterStage DEF Ends, MovesTo, Carries, Items
    <2> QED BY <2>1, <2>2, <2>3, <2>4, <1>0, AroundReturn
<1>27. ASSUME FinishRestore PROVE (Orderly' => Situation')
    <2>1. cmd.op = "restore" /\ cmd.at \notin {"return", "unaside"}
        BY <1>0, <1>27, FinishRestoreDoes DEF Control, InPlace, SetupStages, ActivateStages, Items
    <2>2. /\ UNCHANGED <<ssh, slots>> /\ lapse \subseteq lapse' /\ db'.backup = db.backup /\ (db'.rows => db.rows)
          /\ db'.phase = "activated" => db.phase = "activated" BY <1>0, <1>27, FinishRestoreDoes
    <2>3. cmd'.op \in {"idle", "restore"} /\ cmd'.at \notin Away \cup {"return", "unaside"}
        BY <2>1, <1>0, <1>27, FinishRestoreDoes, AfterStage DEF Ends, MovesTo, Carries, Away, Items
    <2>4. /\ db'.phase = "activated" /\ cmd.at \in {"git", "rc", "done", "row"}
             => cmd'.op = "restore" /\ cmd'.at \in {"git", "rc", "done", "row"}
          /\ db'.rows /\ cmd.at \in {"git", "rc", "done"} => cmd'.op = "restore" /\ cmd'.at \in {"git", "rc", "done"}
        BY <2>1, <1>0, <1>27, FinishRestoreDoes, AfterStage DEF Ends, MovesTo, Carries, Items
    <2> QED BY <2>1, <2>2, <2>3, <2>4, <1>0, AroundReturn
<1>28. ASSUME UserWrites PROVE (Orderly' => Situation')
    <2>1. UNCHANGED <<slots, db, cmd>> /\ lapse \subseteq lapse' BY <1>0, <1>28, UserWritesDoes
    <2>2. PICK f \in Names :
            /\ ssh' = [ssh EXCEPT !.files[f] = Fresh]
            /\ AsPlanted' => AsPlanted /\ (ssh.owner = "user" \/ (f = KnownHosts /\ ~IsCanaryDir(ssh)))
        BY <2>1, <1>0, <1>28, UserWritesDoes DEF AsPlanted
    <2>3. /\ ssh'.id = ssh.id /\ ssh'.owner = ssh.owner /\ \A g \in Names : g # f => ssh'.files[g] = ssh.files[g]
        BY <2>2, <1>0, FileSet, FreshKnown DEF Shapes
    <2>4. CASE Untouched
        <3>1. cmd'.at \notin Away /\ ~db'.rows BY <2>4, <2>1 DEF Untouched
        <3> QED BY <3>1, <2>1, <2>3, <2>4, UntouchedStays DEF Situation
    <2>5. CASE Moving
        <3>1. CASE cmd.at \notin {"plant", "commit"} BY <3>1, <2>1, <2>5, MovesOn DEF Moving
        <3>2. CASE cmd.at \in {"plant", "commit"}
            <4>1. /\ cmd.planted <= Len(Planted) /\ (cmd.at = "commit" => cmd.planted = Len(Planted)) BY <3>2, <2>5 DEF Moving
            <4>2. AsPlanted' => \A i \in 1 .. cmd.planted : ssh'.files[Planted[i]] = Canary
                <5> SUFFICES ASSUME AsPlanted', NEW i \in 1 .. cmd.planted PROVE ssh'.files[Planted[i]] = Canary OBVIOUS
                <5>1. \A j \in 1 .. cmd.planted : ssh.files[Planted[j]] = Canary BY <3>2, <2>2, <2>5 DEF Moving
                <5>2. f = KnownHosts /\ ~IsCanaryDir(ssh) BY <3>2, <2>2, <1>0, Mine
                <5>3. PICK c \in DOMAIN Planted : Planted[c] = Config /\ \A j \in DOMAIN Planted : Planted[j] = KnownHosts => c < j
                    BY PlantedNames
                <5>4. c \notin 1 .. cmd.planted BY <5>1, <5>2, <5>3 DEF IsCanaryDir
                <5>5. /\ cmd.planted \in Nat /\ Len(Planted) \in Nat /\ DOMAIN Planted = 1 .. Len(Planted)
                      /\ \A j \in DOMAIN Planted : Planted[j] \in Names BY <1>0, SlotDirs, PlantedNames
                <5>6. i \in DOMAIN Planted BY <4>1, <5>5
                <5>7. ~(c < i) BY <5>4, <5>5, <5>6
                <5>8. Planted[i] # f /\ Planted[i] \in Names BY <5>6, <5>7, <5>2, <5>3, <5>5
                <5> QED BY <5>8, <5>1, <2>3
            <4> QED BY <3>2, <4>1, <4>2, <2>1, <2>5, PlantsOn DEF Away
        <3> QED BY <3>1, <3>2
    <2>6. CASE Installed
        <3>1. ~AsPlanted'
            <4> SUFFICES ASSUME AsPlanted' PROVE FALSE OBVIOUS
            <4>1. ~IsCanaryDir(ssh) /\ AsPlanted BY <2>2, <2>6 DEF Installed
            <4> QED BY <4>1, <2>6, WholeIsCanary DEF Installed
        <3>2. Backups' = Backups BY <2>1 DEF Backups
        <3>3. Installed' BY <2>1, <2>3, <2>6, <3>1, <3>2 DEF Installed
        <3> QED BY <3>3 DEF Situation
    <2>7. CASE Returning BY <2>7, <2>1, ReturningStays DEF Situation, Returning
    <2>8. CASE Returned BY <2>8, <2>1, <2>3, ReturnedStays DEF Situation, Returned
    <2> QED BY <2>4, <2>5, <2>6, <2>7, <2>8 DEF Situation
<1>29. ASSUME UserCreates PROVE (Orderly' => Situation')
    <2>1. UNCHANGED <<slots, db, cmd, lapse>> /\ ssh = NoDir BY <1>0, <1>29, UserCreatesDoes
    <2>2. ssh.id = 0 /\ ssh.owner = "none" BY <2>1, Nothing
    <2>3. ~Untouched /\ ~Installed /\ ~Returned BY <2>2 DEF Untouched, Installed, Returned
    <2>4. CASE Moving
        <3>1. cmd.at \notin {"plant", "commit"} BY <2>2, <1>0 DEF Control
        <3> QED BY <3>1, <2>1, <2>4, MovesOn DEF Moving
    <2>5. CASE Returning BY <2>5, <2>1, ReturningStays DEF Situation, Returning
    <2> QED BY <2>3, <2>4, <2>5 DEF Situation
<1>30. ASSUME UserWritesCopy PROVE (Orderly' => Situation')
    <2>1. UNCHANGED <<ssh, slots, db, cmd, lapse>> BY <1>0, <1>30, UserWritesCopyDoes
    <2> QED BY <2>1, SituationSame
<1>31. ASSUME UserChangesItem PROVE (Orderly' => Situation')
    <2>1. UNCHANGED <<ssh, slots, db, cmd>> /\ lapse \subseteq lapse' BY <1>0, <1>31, UserChangesItemDoes
    <2> QED BY <2>1, SituationSame
<1>32. ASSUME Crash PROVE (Orderly' => Situation') BY <1>0, <1>32, CrashDoes DEF Orderly
<1> QED BY <1>1, <1>2, <1>3, <1>4, <1>5, <1>6, <1>7, <1>8, <1>9, <1>10, <1>11, <1>12, <1>13, <1>14,
           <1>15, <1>16, <1>17, <1>18, <1>19, <1>20, <1>21, <1>22, <1>23, <1>24, <1>25, <1>26, <1>27,
           <1>28, <1>29, <1>30, <1>31, <1>32
        DEF Next, Command, Phase1, Phase2, Restore, InstallWrappers, InstallRcBlock, SetGitSshCommand,
            RemoveWrappers, RemoveRcBlocks, RestoreGitSshCommand, Items

\* What interfered is never forgotten.
LEMMA LapsesStay ==
    ASSUME SSHCanaryAssumption, SSHInv, Next
    PROVE  lapse \subseteq lapse'
<1>0. Shapes /\ Control /\ Slotted /\ Recorded /\ Owned /\ Bottom /\ Calm /\ Dated /\ Faithful /\ Rowed BY DEF SSHInv
<1>1. ASSUME NEW force \in BOOLEAN, StartSetup(force) PROVE lapse \subseteq lapse' BY <1>0, <1>1, StartSetupDoes
<1>2. ASSUME NEW force \in BOOLEAN, StartActivate(force) PROVE lapse \subseteq lapse' BY <1>0, <1>2, StartActivateDoes
<1>3. ASSUME NEW force \in BOOLEAN, StartRestore(force) PROVE lapse \subseteq lapse' BY <1>0, <1>3, StartRestoreDoes
<1>4. ASSUME NEW f \in Keys, CopyFile(f) PROVE lapse \subseteq lapse' BY <1>0, <1>4, CopyFileDoes
<1>5. ASSUME CopyDone PROVE lapse \subseteq lapse' BY <1>0, <1>5, CopyDoneDoes
<1>6. ASSUME WriteConfig PROVE lapse \subseteq lapse' BY <1>0, <1>6, WriteConfigDoes
<1>7. ASSUME RecordConfig PROVE lapse \subseteq lapse' BY <1>0, <1>7, RecordConfigDoes
<1>8. ASSUME NEW item \in Items, Install(item) PROVE lapse \subseteq lapse' BY <1>0, <1>8, InstallDoes
<1>9. ASSUME NEW item \in Items, RecordInstall(item) PROVE lapse \subseteq lapse' BY <1>0, <1>9, RecordInstallDoes
<1>10. ASSUME FinishSetup PROVE lapse \subseteq lapse' BY <1>0, <1>10, FinishSetupDoes
<1>11. ASSUME CheckAll PROVE lapse \subseteq lapse' BY <1>0, <1>11, CheckAllDoes
<1>12. ASSUME RenameAway PROVE lapse \subseteq lapse' BY <1>0, <1>12, RenameAwayDoes
<1>13. ASSUME VerifyBackup PROVE lapse \subseteq lapse' BY <1>0, <1>13, VerifyBackupDoes
<1>14. ASSUME MakeDirectory PROVE lapse \subseteq lapse' BY <1>0, <1>14, MakeDirectoryDoes
<1>15. ASSUME PlantCanary PROVE lapse \subseteq lapse' BY <1>0, <1>15, PlantCanaryDoes
<1>16. ASSUME CopyAuthorizedKeys PROVE lapse \subseteq lapse' BY <1>0, <1>16, CopyAuthorizedKeysDoes
<1>17. ASSUME Commit PROVE lapse \subseteq lapse' BY <1>0, <1>17, CommitDoes
<1>18. ASSUME Unplant PROVE lapse \subseteq lapse' BY <1>0, <1>18, UnplantDoes
<1>19. ASSUME RenameBack PROVE lapse \subseteq lapse' BY <1>0, <1>19, RenameBackDoes
<1>20. ASSUME NEW item \in Items, Undo(item) PROVE lapse \subseteq lapse' BY <1>0, <1>20, UndoDoes
<1>21. ASSUME NEW item \in Items, RetireUndone(item) PROVE lapse \subseteq lapse' BY <1>0, <1>21, RetireUndoneDoes
<1>22. ASSUME ChooseBackup PROVE lapse \subseteq lapse' BY <1>0, <1>22, ChooseBackupDoes
<1>23. ASSUME MoveAside PROVE lapse \subseteq lapse' BY <1>0, <1>23, MoveAsideDoes
<1>24. ASSUME ReturnBackup PROVE lapse \subseteq lapse' BY <1>0, <1>24, ReturnBackupDoes
<1>25. ASSUME UndoAside PROVE lapse \subseteq lapse' BY <1>0, <1>25, UndoAsideDoes
<1>26. ASSUME Deactivate PROVE lapse \subseteq lapse' BY <1>0, <1>26, DeactivateDoes
<1>27. ASSUME FinishRestore PROVE lapse \subseteq lapse' BY <1>0, <1>27, FinishRestoreDoes
<1>28. ASSUME UserWrites PROVE lapse \subseteq lapse' BY <1>0, <1>28, UserWritesDoes
<1>29. ASSUME UserCreates PROVE lapse \subseteq lapse' BY <1>0, <1>29, UserCreatesDoes
<1>30. ASSUME UserWritesCopy PROVE lapse \subseteq lapse' BY <1>0, <1>30, UserWritesCopyDoes
<1>31. ASSUME UserChangesItem PROVE lapse \subseteq lapse' BY <1>0, <1>31, UserChangesItemDoes
<1>32. ASSUME Crash PROVE lapse \subseteq lapse' BY <1>0, <1>32, CrashDoes
<1> QED BY <1>1, <1>2, <1>3, <1>4, <1>5, <1>6, <1>7, <1>8, <1>9, <1>10, <1>11, <1>12, <1>13, <1>14,
           <1>15, <1>16, <1>17, <1>18, <1>19, <1>20, <1>21, <1>22, <1>23, <1>24, <1>25, <1>26, <1>27,
           <1>28, <1>29, <1>30, <1>31, <1>32
        DEF Next, Command, Phase1, Phase2, Restore, InstallWrappers, InstallRcBlock, SetGitSshCommand,
            RemoveWrappers, RemoveRcBlocks, RestoreGitSshCommand, Items

\* An ended command holds the slot 0.
LEMMA EndsLow == ASSUME Shapes, Ends PROVE cmd'.slot = 0
BY DEF Ends

LEMMA HoldsLess ==
    ASSUME Shapes, Slotted, NEW n \in Nat, Len(slots) <= n, Len(slots') = n, cmd'.slot = cmd.slot \/ cmd'.slot = 0
    PROVE  Slotted'
<1>1. cmd.slot \in Nat /\ Len(slots) \in Nat BY SlotDirs
<1>2. CASE cmd'.slot = cmd.slot
    <2>1. cmd.slot <= n BY <1>1 DEF Slotted
    <2> QED BY <2>1, <1>2 DEF Slotted
<1>3. CASE cmd'.slot = 0
    <2>1. 0 <= n OBVIOUS
    <2> QED BY <2>1, <1>3 DEF Slotted
<1> QED BY <1>2, <1>3

\* The slot a command holds exists.
LEMMA SlottedKept ==
    ASSUME SSHCanaryAssumption, SSHInv, Next
    PROVE  Slotted'
<1>0. Shapes /\ Control /\ Slotted /\ Recorded /\ Owned /\ Bottom /\ Calm /\ Dated /\ Faithful /\ Rowed BY DEF SSHInv
<1>1. ASSUME NEW force \in BOOLEAN, StartSetup(force) PROVE Slotted'
    <2>1. Len(slots) \in Nat /\ Len(slots) <= Len(slots) /\ slots' = slots BY <1>0, <1>1, StartSetupDoes, SlotDirs
    <2>2. cmd'.slot = cmd.slot \/ cmd'.slot = 0 BY <1>0, <1>1, StartSetupDoes, EndsLow DEF MovesTo, Carries, Starts
    <2> QED BY <2>1, <2>2, <1>0, HoldsLess
<1>2. ASSUME NEW force \in BOOLEAN, StartActivate(force) PROVE Slotted'
    <2>1. Len(slots) \in Nat /\ Len(slots) <= Len(slots) /\ slots' = slots BY <1>0, <1>2, StartActivateDoes, SlotDirs
    <2>2. cmd'.slot = cmd.slot \/ cmd'.slot = 0 BY <1>0, <1>2, StartActivateDoes, EndsLow DEF MovesTo, Carries, Starts
    <2> QED BY <2>1, <2>2, <1>0, HoldsLess
<1>3. ASSUME NEW force \in BOOLEAN, StartRestore(force) PROVE Slotted'
    <2>1. Len(slots) \in Nat /\ Len(slots) <= Len(slots) /\ slots' = slots BY <1>0, <1>3, StartRestoreDoes, SlotDirs
    <2>2. cmd'.slot = cmd.slot \/ cmd'.slot = 0 BY <1>0, <1>3, StartRestoreDoes, EndsLow DEF MovesTo, Carries, Starts
    <2> QED BY <2>1, <2>2, <1>0, HoldsLess
<1>4. ASSUME NEW f \in Keys, CopyFile(f) PROVE Slotted'
    <2>1. Len(slots) \in Nat /\ Len(slots) <= Len(slots) /\ slots' = slots BY <1>0, <1>4, CopyFileDoes, SlotDirs
    <2>2. cmd'.slot = cmd.slot \/ cmd'.slot = 0 BY <1>0, <1>4, CopyFileDoes, EndsLow DEF MovesTo, Carries, Starts
    <2> QED BY <2>1, <2>2, <1>0, HoldsLess
<1>5. ASSUME CopyDone PROVE Slotted'
    <2>1. Len(slots) \in Nat /\ Len(slots) <= Len(slots) /\ slots' = slots BY <1>0, <1>5, CopyDoneDoes, SlotDirs
    <2>2. cmd'.slot = cmd.slot \/ cmd'.slot = 0 BY <1>0, <1>5, CopyDoneDoes, EndsLow DEF MovesTo, Carries, Starts
    <2> QED BY <2>1, <2>2, <1>0, HoldsLess
<1>6. ASSUME WriteConfig PROVE Slotted'
    <2>1. Len(slots) \in Nat /\ Len(slots) <= Len(slots) /\ slots' = slots BY <1>0, <1>6, WriteConfigDoes, SlotDirs
    <2>2. cmd'.slot = cmd.slot \/ cmd'.slot = 0 BY <1>0, <1>6, WriteConfigDoes, EndsLow DEF MovesTo, Carries, Starts
    <2> QED BY <2>1, <2>2, <1>0, HoldsLess
<1>7. ASSUME RecordConfig PROVE Slotted'
    <2>1. Len(slots) \in Nat /\ Len(slots) <= Len(slots) /\ slots' = slots BY <1>0, <1>7, RecordConfigDoes, SlotDirs
    <2>2. cmd'.slot = cmd.slot \/ cmd'.slot = 0 BY <1>0, <1>7, RecordConfigDoes, EndsLow DEF MovesTo, Carries, Starts
    <2> QED BY <2>1, <2>2, <1>0, HoldsLess
<1>8. ASSUME NEW item \in Items, Install(item) PROVE Slotted'
    <2>1. Len(slots) \in Nat /\ Len(slots) <= Len(slots) /\ slots' = slots BY <1>0, <1>8, InstallDoes, SlotDirs
    <2>2. cmd'.slot = cmd.slot \/ cmd'.slot = 0 BY <1>0, <1>8, InstallDoes, EndsLow DEF MovesTo, Carries, Starts
    <2> QED BY <2>1, <2>2, <1>0, HoldsLess
<1>9. ASSUME NEW item \in Items, RecordInstall(item) PROVE Slotted'
    <2>1. Len(slots) \in Nat /\ Len(slots) <= Len(slots) /\ slots' = slots BY <1>0, <1>9, RecordInstallDoes, SlotDirs
    <2>2. cmd'.slot = cmd.slot \/ cmd'.slot = 0 BY <1>0, <1>9, RecordInstallDoes, EndsLow DEF MovesTo, Carries, Starts
    <2> QED BY <2>1, <2>2, <1>0, HoldsLess
<1>10. ASSUME FinishSetup PROVE Slotted'
    <2>1. Len(slots) \in Nat /\ Len(slots) <= Len(slots) /\ slots' = slots BY <1>0, <1>10, FinishSetupDoes, SlotDirs
    <2>2. cmd'.slot = cmd.slot \/ cmd'.slot = 0 BY <1>0, <1>10, FinishSetupDoes, EndsLow DEF MovesTo, Carries, Starts
    <2> QED BY <2>1, <2>2, <1>0, HoldsLess
<1>11. ASSUME CheckAll PROVE Slotted'
    <2>1. Len(slots) \in Nat /\ Len(slots) <= Len(slots) /\ slots' = slots BY <1>0, <1>11, CheckAllDoes, SlotDirs
    <2>2. cmd'.slot = cmd.slot \/ cmd'.slot = 0 BY <1>0, <1>11, CheckAllDoes, EndsLow DEF MovesTo, Carries, Starts
    <2> QED BY <2>1, <2>2, <1>0, HoldsLess
<1>12. ASSUME RenameAway PROVE Slotted'
    <2>1. Len(slots) \in Nat /\ Len(slots) <= Len(slots) /\ Len(slots) + 1 \in Nat /\ Len(slots) <= Len(slots) + 1
        BY <1>0, SlotDirs
    <2>2. CASE slots' = slots
        <3>1. Ends BY <2>1, <2>2, <1>0, <1>12, RenameAwayDoes, Pushed
        <3> QED BY <2>1, <2>2, <3>1, <1>0, EndsLow, HoldsLess
    <2>3. CASE slots' # slots
        <3>1. /\ ssh # NoDir /\ ssh' = NoDir /\ slots' = Append(slots, [kind |-> "backup", dir |-> ssh])
              /\ cmd'.slot = Len(slots) + 1 /\ UNCHANGED <<born, theirs>>
            BY <2>3, <1>0, <1>12, RenameAwayDoes
        <3>2. Len(slots') = Len(slots) + 1 BY <3>1, <1>0, Pushed
        <3> QED BY <2>1, <3>1, <3>2 DEF Slotted
    <2> QED BY <2>2, <2>3
<1>13. ASSUME VerifyBackup PROVE Slotted'
    <2>1. Len(slots) \in Nat /\ Len(slots) <= Len(slots) /\ slots' = slots BY <1>0, <1>13, VerifyBackupDoes, SlotDirs
    <2>2. cmd'.slot = cmd.slot \/ cmd'.slot = 0 BY <1>0, <1>13, VerifyBackupDoes, EndsLow DEF MovesTo, Carries, Starts
    <2> QED BY <2>1, <2>2, <1>0, HoldsLess
<1>14. ASSUME MakeDirectory PROVE Slotted'
    <2>1. Len(slots) \in Nat /\ Len(slots) <= Len(slots) /\ slots' = slots BY <1>0, <1>14, MakeDirectoryDoes, SlotDirs
    <2>2. cmd'.slot = cmd.slot \/ cmd'.slot = 0 BY <1>0, <1>14, MakeDirectoryDoes, EndsLow DEF MovesTo, Carries, Starts
    <2> QED BY <2>1, <2>2, <1>0, HoldsLess
<1>15. ASSUME PlantCanary PROVE Slotted'
    <2>1. Len(slots) \in Nat /\ Len(slots) <= Len(slots) /\ slots' = slots BY <1>0, <1>15, PlantCanaryDoes, SlotDirs
    <2>2. cmd'.slot = cmd.slot \/ cmd'.slot = 0 BY <1>0, <1>15, PlantCanaryDoes, EndsLow DEF MovesTo, Carries, Starts
    <2> QED BY <2>1, <2>2, <1>0, HoldsLess
<1>16. ASSUME CopyAuthorizedKeys PROVE Slotted'
    <2>1. Len(slots) \in Nat /\ Len(slots) <= Len(slots) /\ slots' = slots BY <1>0, <1>16, CopyAuthorizedKeysDoes, SlotDirs
    <2>2. cmd'.slot = cmd.slot \/ cmd'.slot = 0 BY <1>0, <1>16, CopyAuthorizedKeysDoes, EndsLow DEF MovesTo, Carries, Starts
    <2> QED BY <2>1, <2>2, <1>0, HoldsLess
<1>17. ASSUME Commit PROVE Slotted'
    <2>1. Len(slots) \in Nat /\ Len(slots) <= Len(slots) /\ slots' = slots BY <1>0, <1>17, CommitDoes, SlotDirs
    <2>2. cmd'.slot = cmd.slot \/ cmd'.slot = 0 BY <1>0, <1>17, CommitDoes, EndsLow DEF MovesTo, Carries, Starts
    <2> QED BY <2>1, <2>2, <1>0, HoldsLess
<1>18. ASSUME Unplant PROVE Slotted'
    <2>1. Len(slots) \in Nat /\ Len(slots) <= Len(slots) /\ slots' = slots BY <1>0, <1>18, UnplantDoes, SlotDirs
    <2>2. cmd'.slot = cmd.slot \/ cmd'.slot = 0 BY <1>0, <1>18, UnplantDoes, EndsLow DEF MovesTo, Carries, Starts
    <2> QED BY <2>1, <2>2, <1>0, HoldsLess
<1>19. ASSUME RenameBack PROVE Slotted'
    <2>1. cmd.slot \in DOMAIN slots BY <1>0, <1>19, RenameBackDoes, SomeBackup DEF Away, Taking, Backups
    <2>2. Len(slots') = Len(slots) BY <2>1, <1>0, <1>19, RenameBackDoes, Popped
    <2>3. Len(slots) \in Nat /\ Len(slots) <= Len(slots) BY <1>0, SlotDirs
    <2>4. cmd'.slot = cmd.slot \/ cmd'.slot = 0 BY <1>0, <1>19, RenameBackDoes, EndsLow DEF MovesTo, Carries
    <2> QED BY <2>2, <2>3, <2>4, <1>0, HoldsLess
<1>20. ASSUME NEW item \in Items, Undo(item) PROVE Slotted'
    <2>1. Len(slots) \in Nat /\ Len(slots) <= Len(slots) /\ slots' = slots BY <1>0, <1>20, UndoDoes, SlotDirs
    <2>2. cmd'.slot = cmd.slot \/ cmd'.slot = 0 BY <1>0, <1>20, UndoDoes, EndsLow DEF MovesTo, Carries, Starts
    <2> QED BY <2>1, <2>2, <1>0, HoldsLess
<1>21. ASSUME NEW item \in Items, RetireUndone(item) PROVE Slotted'
    <2>1. Len(slots) \in Nat /\ Len(slots) <= Len(slots) /\ slots' = slots BY <1>0, <1>21, RetireUndoneDoes, SlotDirs
    <2>2. cmd'.slot = cmd.slot \/ cmd'.slot = 0 BY <1>0, <1>21, RetireUndoneDoes, EndsLow DEF MovesTo, Carries, Starts
    <2> QED BY <2>1, <2>2, <1>0, HoldsLess
<1>22. ASSUME ChooseBackup PROVE Slotted'
    <2>1. Chosen \in Backups => Chosen <= Len(slots) BY <1>0, SlotDirs DEF Backups
    <2>2. UNCHANGED slots /\ (cmd'.slot = cmd.slot \/ (cmd'.slot = Chosen /\ Chosen \in Backups))
        BY <1>0, <1>22, ChooseBackupDoes DEF MovesTo, Carries
    <2> QED BY <2>1, <2>2, <1>0 DEF Slotted
<1>23. ASSUME MoveAside PROVE Slotted'
    <2>1. Len(slots) \in Nat /\ Len(slots) <= Len(slots) /\ Len(slots) + 1 \in Nat /\ Len(slots) <= Len(slots) + 1
        BY <1>0, SlotDirs
    <2>2. CASE slots' = slots
        <3>1. Ends BY <2>1, <2>2, <1>0, <1>23, MoveAsideDoes, Pushed
        <3> QED BY <2>1, <2>2, <3>1, <1>0, EndsLow, HoldsLess
    <2>3. CASE slots' # slots
        <3>1. /\ ssh # NoDir /\ ssh' = NoDir /\ slots' = Append(slots, [kind |-> "aside", dir |-> ssh])
              /\ cmd'.slot = cmd.slot /\ UNCHANGED <<born, theirs>>
            BY <2>3, <1>0, <1>23, MoveAsideDoes
        <3>2. Len(slots') = Len(slots) + 1 BY <3>1, <1>0, Pushed
        <3> QED BY <2>1, <3>1, <3>2, <1>0, HoldsLess
    <2> QED BY <2>2, <2>3
<1>24. ASSUME ReturnBackup PROVE Slotted'
    <2>1. cmd.slot \in DOMAIN slots BY <1>0, <1>24, ReturnBackupDoes, SomeBackup DEF Away, Taking, Backups
    <2>2. Len(slots') = Len(slots) BY <2>1, <1>0, <1>24, ReturnBackupDoes, Popped
    <2>3. Len(slots) \in Nat /\ Len(slots) <= Len(slots) BY <1>0, SlotDirs
    <2>4. cmd'.slot = cmd.slot \/ cmd'.slot = 0 BY <1>0, <1>24, ReturnBackupDoes, EndsLow DEF MovesTo, Carries
    <2> QED BY <2>2, <2>3, <2>4, <1>0, HoldsLess
<1>25. ASSUME UndoAside PROVE Slotted'
    <2>1. cmd.mine # 0 => cmd.mine \in DOMAIN slots BY <1>0, <1>25, UndoAsideDoes, SlotDirs DEF Control
    <2>2. Len(slots') = Len(slots) BY <2>1, <1>0, <1>25, UndoAsideDoes, Popped
    <2>3. Len(slots) \in Nat /\ Len(slots) <= Len(slots) BY <1>0, SlotDirs
    <2>4. cmd'.slot = cmd.slot \/ cmd'.slot = 0 BY <1>0, <1>25, UndoAsideDoes, EndsLow DEF MovesTo, Carries
    <2> QED BY <2>2, <2>3, <2>4, <1>0, HoldsLess
<1>26. ASSUME Deactivate PROVE Slotted'
    <2>1. Len(slots) \in Nat /\ Len(slots) <= Len(slots) /\ slots' = slots BY <1>0, <1>26, DeactivateDoes, SlotDirs
    <2>2. cmd'.slot = cmd.slot \/ cmd'.slot = 0 BY <1>0, <1>26, DeactivateDoes, EndsLow DEF MovesTo, Carries, Starts
    <2> QED BY <2>1, <2>2, <1>0, HoldsLess
<1>27. ASSUME FinishRestore PROVE Slotted'
    <2>1. Len(slots) \in Nat /\ Len(slots) <= Len(slots) /\ slots' = slots BY <1>0, <1>27, FinishRestoreDoes, SlotDirs
    <2>2. cmd'.slot = cmd.slot \/ cmd'.slot = 0 BY <1>0, <1>27, FinishRestoreDoes, EndsLow DEF MovesTo, Carries, Starts
    <2> QED BY <2>1, <2>2, <1>0, HoldsLess
<1>28. ASSUME UserWrites PROVE Slotted'
    <2>1. Len(slots) \in Nat /\ Len(slots) <= Len(slots) /\ slots' = slots BY <1>0, <1>28, UserWritesDoes, SlotDirs
    <2>2. cmd'.slot = cmd.slot \/ cmd'.slot = 0 BY <1>0, <1>28, UserWritesDoes, EndsLow DEF MovesTo, Carries, Starts
    <2> QED BY <2>1, <2>2, <1>0, HoldsLess
<1>29. ASSUME UserCreates PROVE Slotted'
    <2>1. Len(slots) \in Nat /\ Len(slots) <= Len(slots) /\ slots' = slots BY <1>0, <1>29, UserCreatesDoes, SlotDirs
    <2>2. cmd'.slot = cmd.slot \/ cmd'.slot = 0 BY <1>0, <1>29, UserCreatesDoes, EndsLow DEF MovesTo, Carries, Starts
    <2> QED BY <2>1, <2>2, <1>0, HoldsLess
<1>30. ASSUME UserWritesCopy PROVE Slotted'
    <2>1. Len(slots) \in Nat /\ Len(slots) <= Len(slots) /\ slots' = slots BY <1>0, <1>30, UserWritesCopyDoes, SlotDirs
    <2>2. cmd'.slot = cmd.slot \/ cmd'.slot = 0 BY <1>0, <1>30, UserWritesCopyDoes, EndsLow DEF MovesTo, Carries, Starts
    <2> QED BY <2>1, <2>2, <1>0, HoldsLess
<1>31. ASSUME UserChangesItem PROVE Slotted'
    <2>1. Len(slots) \in Nat /\ Len(slots) <= Len(slots) /\ slots' = slots BY <1>0, <1>31, UserChangesItemDoes, SlotDirs
    <2>2. cmd'.slot = cmd.slot \/ cmd'.slot = 0 BY <1>0, <1>31, UserChangesItemDoes, EndsLow DEF MovesTo, Carries, Starts
    <2> QED BY <2>1, <2>2, <1>0, HoldsLess
<1>32. ASSUME Crash PROVE Slotted'
    <2>1. Len(slots) \in Nat /\ Len(slots) <= Len(slots) /\ slots' = slots BY <1>0, <1>32, CrashDoes, SlotDirs
    <2>2. cmd'.slot = cmd.slot \/ cmd'.slot = 0 BY <1>0, <1>32, CrashDoes, EndsLow DEF MovesTo, Carries, Starts
    <2> QED BY <2>1, <2>2, <1>0, HoldsLess
<1> QED BY <1>1, <1>2, <1>3, <1>4, <1>5, <1>6, <1>7, <1>8, <1>9, <1>10, <1>11, <1>12, <1>13, <1>14,
           <1>15, <1>16, <1>17, <1>18, <1>19, <1>20, <1>21, <1>22, <1>23, <1>24, <1>25, <1>26, <1>27,
           <1>28, <1>29, <1>30, <1>31, <1>32
        DEF Next, Command, Phase1, Phase2, Restore, InstallWrappers, InstallRcBlock, SetGitSshCommand,
            RemoveWrappers, RemoveRcBlocks, RestoreGitSshCommand, Items

LEMMA CalmKept ==
    ASSUME SSHCanaryAssumption, SSHInv, Next
    PROVE  Calm'
<1>1. Calm BY DEF SSHInv
<1> SUFFICES ASSUME Orderly' PROVE (AsPlanted' => NoFakes') /\ Situation' BY DEF Calm
<1>2. Orderly /\ (AsPlanted' => AsPlanted) BY LapsesStay, WasOrderly DEF AsPlanted
<1> QED BY <1>1, <1>2, FakesKeptOut, SituationKept DEF Calm

LEMMA InvInit == ASSUME SSHCanaryAssumption, Init PROVE SSHInv
<1> DEFINE one == [f \in Names |-> 1]
<1>0. 1 \in Nat /\ 1 \in Content /\ 1 # Canary /\ 1 # Absent BY DEF Content, Canary, Absent
<1>1. /\ ssh = [id |-> 1, owner |-> "user", files |-> one] /\ one \in [Names -> Content]
      /\ \A f \in Names : one[f] = 1 BY <1>0 DEF Init
<1> HIDE DEF one
<1>2. ssh \in Dir /\ ssh.id = 1 /\ ssh.owner = "user" /\ ssh.files = one BY <1>0, <1>1 DEF Dir
<1>3. slots = <<>> /\ slots \in Seq(Slot) /\ DOMAIN slots = {} /\ Len(slots) = 0 /\ Backups = {} BY DEF Init, Backups
<1>4. used \in Uses /\ used.trouble = 0 BY DEF Init, Unused, Uses
<1>5. db \in Row /\ db.phase = "none" /\ db.backup = 0 /\ ~db.rows BY Nothing DEF Init, NoRow, Row, Phases
<1>6. cmd \in Commands /\ cmd.op = "idle" /\ cmd.at = "" /\ cmd.wrote = "none" /\ cmd.inv = Empty /\ cmd.slot = 0
    BY IdleKnown DEF Init
<1>7. born = 1 /\ theirs = {1} /\ lapse = {} /\ copy = NoCopy /\ config = NoFile BY DEF Init
<1>8. disk \in [Items -> Held] /\ records \in [Items -> Seq({"absent", "user", "edited"})]
      /\ \A i \in Items : records[i] = <<>> /\ disk[i] # "ours"
    <2>1. PICK foreign \in {"absent", "user"} : disk = [wrapper |-> foreign, rc |-> "absent", git |-> foreign] BY DEF Init
    <2>2. records = [i \in Items |-> <<>>] BY DEF Init
    <2> QED BY <2>1, <2>2 DEF Items, Held
<1>9. Shapes
    <2>1. theirs \subseteq 1 .. born /\ born \in Nat BY <1>7
    <2>2. copy \in [Keys -> Content] /\ config \in {NoFile} \cup Content BY <1>7, Nothing
    <2>3. slots \in Seq(Slot) BY <1>3
    <2>4. lapse \subseteq {"crash", "fatal", "git", "user", "edited"} BY <1>7
    <2>5. ssh \in Dir /\ db \in Row /\ cmd \in Commands /\ used \in Uses BY <1>2, <1>4, <1>5, <1>6
    <2> QED BY <2>1, <2>2, <2>3, <2>4, <2>5, <1>8 DEF Shapes
<1>10. Control BY <1>6 DEF Control, InPlace, Away, Taking, Items
<1>11. Slotted /\ Recorded
    <2>1. cmd.slot = 0 /\ Len(slots) = 0 BY <1>3, <1>6
    <2> QED BY <2>1, <1>5 DEF Slotted, Recorded
<1>12. Owned BY <1>0, <1>1, <1>2, <1>3, <1>7 DEF Owned, Known
<1>13. Bottom BY <1>2, <1>3 DEF Bottom
<1>14. Calm
    <2>1. Untouched BY <1>2, <1>3, <1>5, <1>6 DEF Untouched, Away
    <2>2. NoFakes BY <1>6, <1>7, Nothing DEF NoFakes, NoCopy
    <2> QED BY <2>1, <2>2 DEF Calm, Situation
<1>15. Dated
    <2>1. Old(one) BY <1>1, <1>4 DEF Old
    <2>2. Old(Empty) BY <1>4, Nothing DEF Old, Absent
    <2> QED BY <2>1, <2>2, <1>2, <1>3, <1>6 DEF Dated
<1>16. Faithful BY <1>6 DEF Faithful
<1>17. Rowed
    <2>1. \A i \in Items : Len(records[i]) <= 1 BY <1>8
    <2> QED BY <2>1, <1>6, <1>8 DEF Rowed, Between
<1> QED BY <1>9, <1>10, <1>11, <1>12, <1>13, <1>14, <1>15, <1>16, <1>17 DEF SSHInv

\* Every step, and a step that changes nothing, keeps the invariant.
LEMMA InvStep == ASSUME SSHCanaryAssumption, SSHInv, [Next]_vars PROVE SSHInv'
<1>1. CASE Next
    <2>1. Shapes' /\ Control' /\ Slotted' /\ Recorded' BY <1>1, ShapesKept, ControlKept, SlottedKept, RecordedKept
    <2>2. Owned' /\ Bottom' /\ Calm' BY <1>1, OwnedKept, BottomKept, CalmKept
    <2>3. Dated' /\ Faithful' /\ Rowed' BY <1>1, DatedKept, FaithfulKept, RowedKept
    <2> QED BY <2>1, <2>2, <2>3 DEF SSHInv
<1>2. CASE UNCHANGED vars
    <2>0. UNCHANGED <<ssh, slots, copy, config, db, cmd, used, born, theirs, lapse, disk, records>> BY <1>2 DEF vars
    <2>1. Shapes' BY <2>0 DEF SSHInv, Shapes
    <2>2. Backups' = Backups BY <2>0 DEF Backups
    <2>3. Control' /\ Slotted' BY <2>0, <2>2 DEF SSHInv, Control, InPlace, Slotted
    <2>4. Recorded' /\ Owned' BY <2>0 DEF SSHInv, Recorded, Owned, Known
    <2>5. Bottom' BY <2>0, <2>2 DEF SSHInv, Bottom
    <2>6. NoFakes => NoFakes' BY <2>0 DEF NoFakes
    <2>7. Situation => Situation' BY <2>0, SituationSame
    <2>8. Calm' BY <2>0, <2>6, <2>7 DEF SSHInv, Calm, Orderly, AsPlanted
    <2>9. Dated' /\ Faithful' BY <2>0 DEF SSHInv, Dated, Old, Faithful
    <2>10. Rowed' BY <2>0 DEF SSHInv, Rowed, Between, Undisturbed
    <2> QED BY <2>1, <2>3, <2>4, <2>5, <2>8, <2>9, <2>10 DEF SSHInv
<1> QED BY <1>1, <1>2

-----------------------------------------------------------------------------
(* The theorems. *)

\* The invariant the theorems below rest on holds of every reachable state.
THEOREM Invariant == SSHCanaryAssumption /\ Spec => []SSHInv
<1> SUFFICES ASSUME SSHCanaryAssumption PROVE Spec => []SSHInv OBVIOUS
<1>1. Init => SSHInv BY InvInit
<1>2. SSHInv /\ [Next]_vars => SSHInv' BY InvStep
<1> QED BY <1>1, <1>2, PTL DEF Spec

LEMMA TypeFact == ASSUME SSHInv PROVE TypeOK
<1>0. Shapes /\ Recorded /\ Slotted BY DEF SSHInv
<1>1. \A i \in DOMAIN slots : slots[i] \in [kind: {"backup", "aside"}, dir: Dir] BY <1>0, SlotDirs DEF Slot
<1>2. db.phase \in Phases /\ db.rows \in BOOLEAN BY <1>0 DEF Shapes, Row
<1>3. db.backup \in 0 .. Len(slots)
    <2>1. CASE db.backup = 0 BY <2>1, <1>0, SlotDirs
    <2>2. CASE db.backup # 0 BY <2>2, <1>0, SlotDirs DEF Recorded
    <2> QED BY <2>1, <2>2
<1>4. cmd.slot \in 0 .. Len(slots) BY <1>0, SlotDirs DEF Slotted
<1>5. cmd.op \in {"idle", "setup", "activate", "restore"} BY <1>0 DEF Shapes, Commands
<1> QED BY <1>0, <1>1, <1>2, <1>3, <1>4, <1>5 DEF TypeOK, Shapes

\* Every variable keeps its shape, whatever the commands, the user and the
\* crashes do.
THEOREM TypeCorrect == SSHCanaryAssumption /\ Spec => []TypeOK
<1>1. SSHInv => TypeOK BY TypeFact
<1> QED BY <1>1, Invariant, PTL

LEMMA RealFact == ASSUME SSHInv PROVE RealKept
<1>0. Shapes /\ Owned BY DEF SSHInv
<1> SUFFICES ASSUME NEW i \in theirs
             PROVE  IF ssh.id = i THEN \A p \in DOMAIN slots : slots[p].dir.id # i
                    ELSE \E p \in DOMAIN slots : /\ slots[p].dir.id = i
                                                 /\ \A q \in DOMAIN slots \ {p} : slots[q].dir.id # i
    BY DEF RealKept
<1>1. i # 0 BY <1>0, SlotDirs
<1>2. CASE ssh.id = i BY <1>0, <1>1, <1>2 DEF Owned
<1>3. CASE ssh.id # i
    <2>1. PICK p \in DOMAIN slots : slots[p].dir.id = i BY <1>0, <1>3 DEF Owned
    <2>2. \A q \in DOMAIN slots \ {p} : slots[q].dir.id # i BY <1>0, <1>1, <2>1 DEF Owned
    <2> QED BY <1>3, <2>1, <2>2
<1> QED BY <1>2, <1>3

\* Setting up, activating and restoring never delete or duplicate a directory
\* the user's programs made, whatever step fails or crashes.
THEOREM DirectoriesKept == SSHCanaryAssumption /\ Spec => []RealKept
<1>1. SSHInv => RealKept BY RealFact
<1> QED BY <1>1, Invariant, PTL

LEMMA ChosenIsReal == ASSUME SSHInv PROVE RestoreFindsReal
<1>0. Shapes /\ Recorded /\ Owned /\ Bottom BY DEF SSHInv
<1> SUFFICES ASSUME ssh.owner # "user",
                    \A i \in DOMAIN slots : slots[i].kind = "backup" => slots[i].dir.owner # "honeypath"
             PROVE  Chosen # 0 /\ slots[Chosen].dir.owner = "user"
    BY DEF RestoreFindsReal
<1>1. Backups # {} BY <1>0 DEF Bottom
<1>2. Chosen # 0 /\ Chosen \in Backups BY <1>0, <1>1, ChosenFacts
<1>3. Chosen \in DOMAIN slots /\ slots[Chosen].kind = "backup" /\ slots[Chosen].dir # NoDir BY <1>2 DEF Backups
<1>4. slots[Chosen].dir.owner \in {"none", "user", "honeypath"} BY <1>0, <1>3, SlotDirs DEF Dir
<1>5. slots[Chosen].dir.owner # "none" BY <1>0, <1>3 DEF Owned, Known
<1>6. slots[Chosen].dir.owner # "honeypath" BY <1>3
<1> QED BY <1>2, <1>4, <1>5, <1>6

\* When ~/.ssh is not the user's and no canary directory was backed up as if
\* it were, the backup that restore-ssh-canary picks is the user's.
THEOREM RestoreFinds == SSHCanaryAssumption /\ Spec => []RestoreFindsReal
<1>1. SSHInv => RestoreFindsReal BY ChosenIsReal
<1> QED BY <1>1, Invariant, PTL

LEMMA WholeFact == ASSUME SSHCanaryAssumption, SSHInv PROVE ActivationWhole
<1>0. Shapes /\ Control /\ Recorded /\ Owned /\ Calm BY DEF SSHInv
<1>1. AllOrNothing
    <2> SUFFICES ASSUME Quiet, Orderly
                 PROVE  /\ db.backup = 0 => ssh.id \in theirs /\ Backups = {}
                        /\ db.phase = "activated" => /\ slots[db.backup].dir.id \in theirs
                                                     /\ AsPlanted => \A i \in DOMAIN Planted : ssh.files[Planted[i]] = Canary
        BY DEF AllOrNothing
    <2>1. Installed \/ (ssh.owner = "user" /\ Backups = {} /\ db.phase # "activated")
        BY <1>0, InSituation DEF Quiet, Calm
    <2>2. CASE Installed
        <3>1. db.backup # 0 /\ db.backup \in DOMAIN slots /\ slots[db.backup].dir.owner = "user" /\ (AsPlanted => Whole(ssh))
            BY <2>2 DEF Installed, Backups
        <3>2. slots[db.backup].dir.id \in theirs BY <3>1, <1>0 DEF Owned, Known
        <3> QED BY <3>1, <3>2 DEF Whole
    <2>3. CASE ssh.owner = "user" /\ Backups = {} /\ db.phase # "activated" BY <2>3, <1>0 DEF Owned, Known
    <2> QED BY <2>1, <2>2, <2>3
<1>2. RowsMatchDirectory
    <2> SUFFICES ASSUME Quiet, Orderly, db.rows PROVE ssh.owner = "honeypath" /\ (AsPlanted => IsCanaryDir(ssh))
        BY DEF RowsMatchDirectory
    <2>1. Installed BY <1>0, InSituation DEF Quiet, Calm
    <2>2. ssh.owner \in {"none", "user", "honeypath"} BY <1>0 DEF Shapes, Dir
    <2>3. ssh.owner = "honeypath" BY <2>1, <2>2, <1>0 DEF Installed, Owned, Known
    <2> QED BY <2>1, <2>3, WholeIsCanary DEF Installed
<1>3. FakesStayOut BY <1>0 DEF FakesStayOut, Calm, NoFakes
<1> QED BY <1>1, <1>2, <1>3 DEF ActivationWhole

\* Unless a crash or a failed rollback interfered, an activation that has ended
\* moved nothing or is complete and canary rows are active only over Honeypath's
\* directory; while nobody edited the canaries, they are all there, and no fake key
\* is ever relocated.
THEOREM ActivationIsWhole == SSHCanaryAssumption /\ Spec => []ActivationWhole
<1> SUFFICES ASSUME SSHCanaryAssumption PROVE Spec => []ActivationWhole OBVIOUS
<1>1. SSHInv => ActivationWhole BY WholeFact
<1> QED BY <1>1, Invariant, PTL

LEMMA UndoableFact == ASSUME SSHInv PROVE ChangesUndoable
<1>0. Shapes /\ Control /\ Rowed BY DEF SSHInv
<1>1. NothingOrphaned
    <2> SUFFICES ASSUME Quiet, Undisturbed, NEW i \in Items, disk[i] = "ours" PROVE records[i] # <<>>
        BY DEF NothingOrphaned
    <2>1. cmd.wrote = "none" BY <1>0 DEF Quiet, Control, InPlace, Items
    <2> QED BY <2>1, <1>0 DEF Rowed, Between
<1>2. FirstValueRecorded
    <2> SUFFICES ASSUME Undisturbed
                 PROVE  /\ Len(records["git"]) <= 1
                        /\ "ours" \notin {records["git"][i] : i \in DOMAIN records["git"]}
        BY DEF FirstValueRecorded
    <2>1. Len(records["git"]) <= 1 BY <1>0 DEF Rowed, Items
    <2>2. records["git"] \in Seq({"absent", "user", "edited"}) BY <1>0 DEF Shapes, Items
    <2>3. \A i \in DOMAIN records["git"] : records["git"][i] \in {"absent", "user", "edited"} BY <2>2
    <2> QED BY <2>1, <2>3
<1> QED BY <1>1, <1>2 DEF ChangesUndoable

\* Unless something interfered outside ~/.ssh, what Honeypath put in place between commands
\* has a row to undo it by, and the row of core.sshCommand is the only one and
\* holds what the user had.
THEOREM NothingForgotten == SSHCanaryAssumption /\ Spec => []ChangesUndoable
<1>1. SSHInv => ChangesUndoable BY UndoableFact
<1> QED BY <1>1, Invariant, PTL

\* Only finalize_ssh_activation turns a prepared row into an activated one.
LEMMA OnlyCommit ==
    ASSUME SSHCanaryAssumption, SSHInv, Next
    PROVE  (Commits => Commit)
<1>0. Shapes /\ Control /\ Slotted /\ Recorded /\ Owned /\ Bottom /\ Calm /\ Dated /\ Faithful /\ Rowed BY DEF SSHInv
<1>1. ASSUME NEW force \in BOOLEAN, StartSetup(force) PROVE (Commits => Commit) BY <1>0, <1>1, StartSetupDoes DEF Commits, Shapes, Row
<1>2. ASSUME NEW force \in BOOLEAN, StartActivate(force) PROVE (Commits => Commit) BY <1>0, <1>2, StartActivateDoes DEF Commits, Shapes, Row
<1>3. ASSUME NEW force \in BOOLEAN, StartRestore(force) PROVE (Commits => Commit) BY <1>0, <1>3, StartRestoreDoes DEF Commits, Shapes, Row
<1>4. ASSUME NEW f \in Keys, CopyFile(f) PROVE (Commits => Commit) BY <1>0, <1>4, CopyFileDoes DEF Commits, Shapes, Row
<1>5. ASSUME CopyDone PROVE (Commits => Commit) BY <1>0, <1>5, CopyDoneDoes DEF Commits, Shapes, Row
<1>6. ASSUME WriteConfig PROVE (Commits => Commit) BY <1>0, <1>6, WriteConfigDoes DEF Commits, Shapes, Row
<1>7. ASSUME RecordConfig PROVE (Commits => Commit) BY <1>0, <1>7, RecordConfigDoes DEF Commits, Shapes, Row
<1>8. ASSUME NEW item \in Items, Install(item) PROVE (Commits => Commit) BY <1>0, <1>8, InstallDoes DEF Commits, Shapes, Row
<1>9. ASSUME NEW item \in Items, RecordInstall(item) PROVE (Commits => Commit) BY <1>0, <1>9, RecordInstallDoes DEF Commits, Shapes, Row
<1>10. ASSUME FinishSetup PROVE (Commits => Commit) BY <1>0, <1>10, FinishSetupDoes DEF Commits, Shapes, Row
<1>11. ASSUME CheckAll PROVE (Commits => Commit) BY <1>0, <1>11, CheckAllDoes DEF Commits, Shapes, Row
<1>12. ASSUME RenameAway PROVE (Commits => Commit) BY <1>0, <1>12, RenameAwayDoes DEF Commits, Shapes, Row
<1>13. ASSUME VerifyBackup PROVE (Commits => Commit) BY <1>0, <1>13, VerifyBackupDoes DEF Commits, Shapes, Row
<1>14. ASSUME MakeDirectory PROVE (Commits => Commit) BY <1>0, <1>14, MakeDirectoryDoes DEF Commits, Shapes, Row
<1>15. ASSUME PlantCanary PROVE (Commits => Commit) BY <1>0, <1>15, PlantCanaryDoes DEF Commits, Shapes, Row
<1>16. ASSUME CopyAuthorizedKeys PROVE (Commits => Commit) BY <1>0, <1>16, CopyAuthorizedKeysDoes DEF Commits, Shapes, Row
<1>17. ASSUME Commit PROVE (Commits => Commit) BY <1>17
<1>18. ASSUME Unplant PROVE (Commits => Commit) BY <1>0, <1>18, UnplantDoes DEF Commits, Shapes, Row
<1>19. ASSUME RenameBack PROVE (Commits => Commit) BY <1>0, <1>19, RenameBackDoes DEF Commits, Shapes, Row
<1>20. ASSUME NEW item \in Items, Undo(item) PROVE (Commits => Commit) BY <1>0, <1>20, UndoDoes DEF Commits, Shapes, Row
<1>21. ASSUME NEW item \in Items, RetireUndone(item) PROVE (Commits => Commit) BY <1>0, <1>21, RetireUndoneDoes DEF Commits, Shapes, Row
<1>22. ASSUME ChooseBackup PROVE (Commits => Commit) BY <1>0, <1>22, ChooseBackupDoes DEF Commits, Shapes, Row
<1>23. ASSUME MoveAside PROVE (Commits => Commit) BY <1>0, <1>23, MoveAsideDoes DEF Commits, Shapes, Row
<1>24. ASSUME ReturnBackup PROVE (Commits => Commit) BY <1>0, <1>24, ReturnBackupDoes DEF Commits, Shapes, Row
<1>25. ASSUME UndoAside PROVE (Commits => Commit) BY <1>0, <1>25, UndoAsideDoes DEF Commits, Shapes, Row
<1>26. ASSUME Deactivate PROVE (Commits => Commit) BY <1>0, <1>26, DeactivateDoes DEF Commits, Shapes, Row
<1>27. ASSUME FinishRestore PROVE (Commits => Commit) BY <1>0, <1>27, FinishRestoreDoes DEF Commits, Shapes, Row
<1>28. ASSUME UserWrites PROVE (Commits => Commit) BY <1>0, <1>28, UserWritesDoes DEF Commits, Shapes, Row
<1>29. ASSUME UserCreates PROVE (Commits => Commit) BY <1>0, <1>29, UserCreatesDoes DEF Commits, Shapes, Row
<1>30. ASSUME UserWritesCopy PROVE (Commits => Commit) BY <1>0, <1>30, UserWritesCopyDoes DEF Commits, Shapes, Row
<1>31. ASSUME UserChangesItem PROVE (Commits => Commit) BY <1>0, <1>31, UserChangesItemDoes DEF Commits, Shapes, Row
<1>32. ASSUME Crash PROVE (Commits => Commit) BY <1>0, <1>32, CrashDoes DEF Commits, Shapes, Row
<1> QED BY <1>1, <1>2, <1>3, <1>4, <1>5, <1>6, <1>7, <1>8, <1>9, <1>10, <1>11, <1>12, <1>13, <1>14,
           <1>15, <1>16, <1>17, <1>18, <1>19, <1>20, <1>21, <1>22, <1>23, <1>24, <1>25, <1>26, <1>27,
           <1>28, <1>29, <1>30, <1>31, <1>32
        DEF Next, Command, Phase1, Phase2, Restore, InstallWrappers, InstallRcBlock, SetGitSshCommand,
            RemoveWrappers, RemoveRcBlocks, RestoreGitSshCommand, Items

LEMMA StaleStep ==
    ASSUME SSHCanaryAssumption, SSHInv, [Next]_vars, Commits, NEW f \in Keys, slots[cmd.slot].dir.files[f] # Absent
    PROVE  copy[f] >= slots[cmd.slot].dir.files[f]
<1>0. Shapes /\ Control /\ Faithful BY DEF SSHInv
<1>1. Next BY DEF Commits, vars
<1>2. Commit BY <1>1, OnlyCommit
<1>3. cmd.at = "commit" BY <1>2, <1>0, CommitDoes
<1> QED BY <1>0, <1>3 DEF Faithful

\* No activation commits while a relocated key is older than the one it moved
\* away, however the user's programs write between its steps.
THEOREM NotStale == SSHCanaryAssumption /\ Spec => NeverStale
<1> SUFFICES ASSUME SSHCanaryAssumption PROVE Spec => NeverStale OBVIOUS
<1> DEFINE Fresher == Commits => \A f \in Keys : LET theirFile == slots[cmd.slot].dir.files[f] IN
                                     theirFile # Absent => copy[f] >= theirFile
<1>1. SSHInv /\ [Next]_vars => Fresher BY StaleStep
<1>2. SSHInv /\ [Next]_vars => [Fresher]_vars BY <1>1
<1>3. Spec => [][Fresher]_vars
    <2>1. Spec => []SSHInv BY Invariant
    <2> HIDE DEF Fresher
    <2> QED BY <2>1, <1>2, PTL DEF Spec
<1> QED BY <1>3 DEF NeverStale

=============================================================================
