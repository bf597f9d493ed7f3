----------------------------- MODULE SafeWrite -----------------------------
(***************************************************************************)
(* `honeypath create-canaries` on one canary path: the checks of cli.py,   *)
(* safe_write.atomic_write with its staged exchange, the hook that         *)
(* verifies and registers the file while the write can still be undone,    *)
(* and the rollback.  Several commands may run at once, the user edits,    *)
(* replaces and removes the file between any two system calls, and a       *)
(* command may be killed.                                                  *)
(*                                                                         *)
(* A step is one system call, or one read of a file through a descriptor,  *)
(* or one database transaction.  The parent directory is held open; what   *)
(* is below it is a function from names to inodes.                         *)
(***************************************************************************)
EXTENDS Integers, FiniteSets, Sequences

CONSTANTS
    Writers,     \* commands, each of which handles the path once
    Refreshers,  \* those that were given --refresh-managed
    StaticTexts, \* whether the entry is a static one, or the AWS one, into which
                 \* each command splices the Canarytoken it was given
    Tmpfiles,    \* whether O_TMPFILE may work here; where it does not (DrvFS,
                 \* macOS) the exclusive-create fallback is allowed
    MaxUser,     \* bound: things the user does to the file
    MaxFaults,   \* bound: database writes and file writes that fail
    MaxKills     \* bound: commands that are killed

ASSUME SafeWriteAssumption ==
    /\ Refreshers \subseteq Writers
    /\ StaticTexts \subseteq BOOLEAN /\ StaticTexts # {}
    /\ Tmpfiles \subseteq BOOLEAN /\ Tmpfiles # {}
    /\ MaxUser \in Nat /\ MaxFaults \in Nat /\ MaxKills \in Nat
    /\ Writers \cap {"dest", "catalog", "user", "partial", "none"} = {}

VARIABLES
    name,     \* the directory: "dest" and each command's staging name; 0 is no entry
    inode,    \* contents of the inodes so far: [text, by]
    row,      \* the canaries row: [ino, text], ino 0 when there is none
    pc,       \* where each command is
    op,       \* its local variables
    tmpfile,  \* whether the file system supports O_TMPFILE
    static,   \* whether all commands write the text that is recorded already
    dropped,  \* history: inodes the user took off the path
    recorded, \* history: inodes that the row has described
    mistaken, \* history: equal texts made a command take a file for another one
    acts, faults, kills

fileVars == <<name, inode>>
hostVars == <<tmpfile, static, dropped, acts>>
vars == <<fileVars, row, recorded, mistaken, pc, op, hostVars, faults, kills>>

Names == {"dest"} \cup Writers
Dest == name["dest"]
TextAt == IF Dest = 0 THEN "none" ELSE inode[Dest].text
Text(w) == IF static THEN "catalog" ELSE w

\* expected: expected_sha256; tmp, chk, inst, exch: temp_info, check_fd, installed
\* and exchanged; seen: what the hook verified; why: what a rollback is for.
NoOp == [mode |-> "none", expected |-> "none", tmp |-> 0, chk |-> 0, inst |-> 0, exch |-> 0,
         seen |-> 0, why |-> "none", outcome |-> "none"]

\* A host without the canary, or with one that was created and registered.
Init == \E there \in BOOLEAN :
    /\ tmpfile \in Tmpfiles /\ static \in StaticTexts
    /\ name = [n \in Names |-> IF there /\ n = "dest" THEN 1 ELSE 0]
    /\ inode = IF there THEN <<[text |-> "catalog", by |-> "honeypath"]>> ELSE <<>>
    /\ row = IF there THEN [ino |-> 1, text |-> "catalog"] ELSE [ino |-> 0, text |-> "none"]
    /\ recorded = IF there THEN {1} ELSE {}
    /\ pc = [w \in Writers |-> "plan"] /\ op = [w \in Writers |-> NoOp]
    /\ dropped = {} /\ mistaken = FALSE /\ faults = 0 /\ kills = 0 /\ acts = 0
-----------------------------------------------------------------------------
(* The user, or a program that owns the path *)

Act == acts < MaxUser /\ acts' = acts + 1
       /\ UNCHANGED <<row, recorded, mistaken, pc, op, tmpfile, static, faults, kills>>

\* Changes the file in place.
Edit ==
    /\ Act /\ Dest # 0
    /\ inode' = [inode EXCEPT ![Dest].text = "user"]
    /\ UNCHANGED <<name, dropped>>

\* Creates the file, or renames another one over it.
Place ==
    /\ Act
    /\ inode' = Append(inode, [text |-> "user", by |-> "user"])
    /\ name' = [name EXCEPT !["dest"] = Len(inode) + 1]
    /\ dropped' = dropped \cup ({Dest} \ {0})

Remove ==
    /\ Act /\ Dest # 0
    /\ name' = [name EXCEPT !["dest"] = 0] /\ dropped' = dropped \cup {Dest}
    /\ UNCHANGED inode

User == Edit \/ Place \/ Remove
-----------------------------------------------------------------------------
(* How a command's step ends *)

RowStays == UNCHANGED <<row, recorded>>
Rest == RowStays /\ UNCHANGED <<mistaken, hostVars, faults, kills>>
At(w, here, next) == pc[w] = here /\ pc' = [pc EXCEPT ![w] = next]
Set(w, field, value) == op' = [op EXCEPT ![w][field] = value]

\* Mutant: the finally clause only closes descriptors.
CleanNothing(w) == name

\* The finally clause of atomic_write removes a staging entry that still is the
\* temporary inode, and no other.
CleanStage(w) ==
    IF name[w] # 0 /\ name[w] = op[w].tmp THEN [name EXCEPT ![w] = 0] ELSE name

\* The operation is over: refused and rollback are SafeWriteError and
\* RollbackError, failed is an OSError, rejected is the hook's own error.
Over(w, outcome) ==
    /\ pc' = [pc EXCEPT ![w] = "done"]
    /\ Set(w, "outcome", outcome)
    /\ name' = CleanStage(w)

Stop(w, here, outcome) == pc[w] = here /\ Over(w, outcome) /\ UNCHANGED inode /\ Rest
-----------------------------------------------------------------------------
(* cli.py: what is planned, and the second check right before the write *)

\* The path is recorded as Honeypath's and holds exactly what was recorded.
RefreshPermitted == row.ino # 0 /\ TextAt = row.text

Plan(w, mode) ==
    /\ At(w, "plan", IF mode = "create" THEN "inspect" ELSE "recheck")
    /\ Set(w, "mode", mode)
    /\ UNCHANGED fileVars /\ Rest

\* A missing file is created; one that is there is refreshed if that was asked for.
PlanCreate(w) == Dest = 0 /\ Plan(w, "create")
PlanRefresh(w) == Dest # 0 /\ w \in Refreshers /\ RefreshPermitted /\ Plan(w, "refresh")
Skip(w) == Dest # 0 /\ ~(w \in Refreshers /\ RefreshPermitted) /\ Stop(w, "plan", "skipped")

Recheck(w) == RefreshPermitted /\ At(w, "recheck", "expect") /\ UNCHANGED <<fileVars, op>> /\ Rest
RecheckDeclines(w) == ~RefreshPermitted /\ Stop(w, "recheck", "skipped")

ReadExpected(w) ==
    /\ At(w, "expect", "inspect") /\ Set(w, "expected", row.text)
    /\ UNCHANGED fileVars /\ Rest
-----------------------------------------------------------------------------
(* atomic_write up to the installation *)

Creates(w) == op[w].mode = "create"

Inspect(w) ==
    /\ Creates(w) <=> Dest = 0
    /\ At(w, "inspect", IF tmpfile \/ ~Creates(w) THEN "temp" ELSE "excl")
    /\ UNCHANGED <<fileVars, op>> /\ Rest

InspectRefuses(w) == (Creates(w) <=> Dest # 0) /\ Stop(w, "inspect", "refused")

\* The unnamed temporary gets all of its bytes before it has a name.
MakeTemp(w) ==
    /\ tmpfile
    /\ At(w, "temp", IF Creates(w) THEN "link" ELSE "open")
    /\ inode' = Append(inode, [text |-> Text(w), by |-> "honeypath"])
    /\ Set(w, "tmp", Len(inode) + 1)
    /\ UNCHANGED name /\ Rest

\* Replacement has no fallback.
NoTemp(w) == ~tmpfile /\ Stop(w, "temp", "refused")

OpenCheck(w) ==
    /\ Dest # 0 /\ At(w, "open", "hash") /\ Set(w, "chk", Dest)
    /\ UNCHANGED fileVars /\ Rest

OpenFails(w) == Dest = 0 /\ Stop(w, "open", "failed")

AsExpected(w) == inode[op[w].chk].text = op[w].expected

\* Text is all that is compared: a file with the expected text need not be one that was
\* ever recorded.
Mistakes(wrong) ==
    /\ mistaken' = (mistaken \/ wrong) /\ RowStays /\ UNCHANGED <<hostVars, faults, kills>>

HashCheck(w) ==
    /\ At(w, "hash", "identity") /\ AsExpected(w) /\ Mistakes(op[w].chk \notin recorded)
    /\ UNCHANGED <<fileVars, op>>

HashRefuses(w) == Stop(w, "hash", "refused") /\ ~AsExpected(w)

IdentityCheck(w) ==
    Dest = op[w].chk /\ At(w, "identity", "stage") /\ UNCHANGED <<fileVars, op>> /\ Rest

IdentityRefuses(w) ==
    Dest # op[w].chk /\ Stop(w, "identity", IF Dest = 0 THEN "failed" ELSE "refused")
-----------------------------------------------------------------------------
(* First creation *)

Link(w) ==
    /\ Dest = 0 /\ At(w, "link", "verify")
    /\ name' = [name EXCEPT !["dest"] = op[w].tmp]
    /\ UNCHANGED <<inode, op>> /\ Rest

LinkRefuses(w) == Dest # 0 /\ Stop(w, "link", "refused")

\* Without O_TMPFILE the file is created empty and filled where it can be seen.
ExclusiveCreate(w) ==
    /\ Dest = 0 /\ At(w, "excl", "fill")
    /\ inode' = Append(inode, [text |-> "partial", by |-> "honeypath"])
    /\ name' = [name EXCEPT !["dest"] = Len(inode) + 1]
    /\ Set(w, "tmp", Len(inode) + 1) /\ Rest

ExclusiveRefuses(w) == Dest # 0 /\ Stop(w, "excl", "refused")

Fill(w) ==
    /\ At(w, "fill", "verify") /\ inode' = [inode EXCEPT ![op[w].tmp].text = Text(w)]
    /\ UNCHANGED <<name, op>> /\ Rest

\* A file that could not be filled is removed in the two calls of `UnlinkCheck` and `Unlink`.
FillFails(w) ==
    /\ faults < MaxFaults /\ faults' = faults + 1
    /\ At(w, "fill", "unlinkcheck") /\ Set(w, "why", "fill")
    /\ RowStays /\ UNCHANGED <<fileVars, mistaken, hostVars, kills>>

VerifyLink(w) ==
    Dest = op[w].tmp /\ At(w, "verify", "hook") /\ UNCHANGED <<fileVars, op>> /\ Rest

VerifyRefuses(w) ==
    Dest # op[w].tmp /\ Stop(w, "verify", IF Dest = 0 THEN "failed" ELSE "refused")
-----------------------------------------------------------------------------
(* Replacement *)

Stage(w) ==
    /\ At(w, "stage", "exchange") /\ name' = [name EXCEPT ![w] = op[w].tmp]
    /\ UNCHANGED <<inode, op>> /\ Rest

Swapped(w) == [name EXCEPT !["dest"] = name[w], ![w] = Dest]

\* Mutant: the new file is renamed over the old one.
ExchangeByRename(w) ==
    /\ Dest # 0 /\ At(w, "exchange", "compare")
    /\ name' = [name EXCEPT !["dest"] = name[w], ![w] = 0]
    /\ UNCHANGED <<inode, op>> /\ Rest

Exchange(w) ==
    /\ Dest # 0 /\ At(w, "exchange", "compare") /\ name' = Swapped(w)
    /\ UNCHANGED <<inode, op>> /\ Rest

ExchangeFails(w) == Dest = 0 /\ Stop(w, "exchange", "failed")

\* Mutant: what came out of the exchange is not compared.
CompareInstalled(w) ==
    LET good == Dest = op[w].tmp IN
    /\ Dest # 0 /\ At(w, "compare", IF good THEN "hook" ELSE "undo")
    /\ op' = [op EXCEPT ![w].inst = Dest, ![w].exch = name[w],
                        ![w].why = IF good THEN "none" ELSE "mismatch"]
    /\ UNCHANGED fileVars /\ Rest

\* Is the new file installed, and is what came out the inode that was checked?
Compare(w) ==
    LET good == Dest = op[w].tmp /\ name[w] = op[w].chk IN
    /\ Dest # 0 /\ At(w, "compare", IF good THEN "hook" ELSE "undo")
    /\ op' = [op EXCEPT ![w].inst = Dest, ![w].exch = name[w],
                        ![w].why = IF good THEN "none" ELSE "mismatch"]
    /\ UNCHANGED fileVars /\ Rest

CompareFails(w) == Dest = 0 /\ Stop(w, "compare", "failed")

Discard(w) ==
    /\ At(w, "discard", "done") /\ name[w] = op[w].exch
    /\ name' = [name EXCEPT ![w] = 0] /\ Set(w, "outcome", "written")
    /\ UNCHANGED inode /\ Rest
-----------------------------------------------------------------------------
(* The hook: register_installed_canary, with the write still undoable *)

\* The file that is at the path now, whoever put it there, has the text that was to be
\* written.
HookRead(w) ==
    /\ TextAt = Text(w)
    /\ At(w, "hook", "commit") /\ Set(w, "seen", Dest) /\ Mistakes(Dest # op[w].tmp)
    /\ UNCHANGED fileVars

Reject(w, here) ==
    /\ At(w, here, IF Creates(w) THEN "unlinkcheck" ELSE "undo")
    /\ Set(w, "why", "reject")
    /\ RowStays /\ UNCHANGED <<fileVars, mistaken, hostVars, kills>>

HookRejects(w) ==
    TextAt # Text(w) /\ Reject(w, "hook") /\ UNCHANGED faults

RecordCanary(w) ==
    /\ At(w, "commit", IF Creates(w) THEN "done" ELSE "discard")
    /\ row' = [ino |-> op[w].seen, text |-> Text(w)] /\ recorded' = recorded \cup {op[w].seen}
    /\ Set(w, "outcome", IF Creates(w) THEN "written" ELSE "none")
    /\ UNCHANGED <<fileVars, mistaken, hostVars, faults, kills>>

\* Mutant: the hook swallows the database error.
RecordFailsQuietly(w) ==
    /\ faults < MaxFaults /\ faults' = faults + 1
    /\ At(w, "commit", IF Creates(w) THEN "done" ELSE "discard")
    /\ Set(w, "outcome", IF Creates(w) THEN "written" ELSE "none")
    /\ RowStays /\ UNCHANGED <<fileVars, mistaken, hostVars, kills>>

RecordFails(w) == faults < MaxFaults /\ faults' = faults + 1 /\ Reject(w, "commit")
-----------------------------------------------------------------------------
(* Rollback *)

\* A rejected creation, or a file that could not be filled, is unlinked if it still is
\* what the name refers to; the look and the unlink are two calls.  Only the rejection
\* reports an unlink that failed.
UnlinkCheck(w) ==
    Dest = op[w].tmp /\ At(w, "unlinkcheck", "unlink") /\ UNCHANGED <<fileVars, op>> /\ Rest

Unfilled(w) == op[w].why = "fill"
UnlinkRefuses(w) ==
    Dest # op[w].tmp /\ Stop(w, "unlinkcheck", IF Unfilled(w) THEN "failed" ELSE "rollback")

Unlink(w) ==
    /\ At(w, "unlink", "done")
    /\ name' = [name EXCEPT !["dest"] = 0]
    /\ Set(w, "outcome", CASE Unfilled(w) -> "failed"
                           [] ~Unfilled(w) /\ Dest = 0 -> "rollback"
                           [] OTHER -> "rejected")
    /\ UNCHANGED inode /\ Rest

\* What an undo that could not be completed is reported as.
NotUndone(w) ==
    IF Dest = 0 /\ op[w].why = "mismatch" THEN "failed" ELSE "rollback"

UndoKnows(w) == Dest = op[w].inst /\ name[w] = op[w].exch

UndoCheck(w) == UndoKnows(w) /\ At(w, "undo", "swap") /\ UNCHANGED <<fileVars, op>> /\ Rest
UndoRefuses(w) == ~UndoKnows(w) /\ Stop(w, "undo", NotUndone(w))

UndoExchange(w) ==
    /\ Dest # 0 /\ At(w, "swap", "undone") /\ name' = Swapped(w)
    /\ UNCHANGED <<inode, op>> /\ Rest

UndoExchangeFails(w) == Dest = 0 /\ Stop(w, "swap", NotUndone(w))

UndoVerify(w) ==
    LET restored == Dest = op[w].exch /\ name[w] = op[w].inst IN
    Stop(w, "undone", CASE ~restored -> NotUndone(w)
                       [] restored /\ op[w].why = "reject" -> "rejected"
                       [] OTHER -> "refused")
-----------------------------------------------------------------------------
\* The command is killed; its descriptors close.
Kill(w) ==
    /\ kills < MaxKills /\ kills' = kills + 1
    /\ pc[w] \notin {"plan", "done", "killed"} /\ pc' = [pc EXCEPT ![w] = "killed"]
    /\ RowStays /\ UNCHANGED <<fileVars, mistaken, op, hostVars, faults>>

Planning(w) == PlanCreate(w) \/ PlanRefresh(w) \/ Skip(w) \/ Recheck(w) \/ RecheckDeclines(w) \/ ReadExpected(w)

Checking(w) ==
    \/ Inspect(w) \/ InspectRefuses(w) \/ MakeTemp(w) \/ NoTemp(w) \/ OpenCheck(w) \/ OpenFails(w)
    \/ HashCheck(w) \/ HashRefuses(w) \/ IdentityCheck(w) \/ IdentityRefuses(w)

Creating(w) ==
    \/ Link(w) \/ LinkRefuses(w) \/ ExclusiveCreate(w) \/ ExclusiveRefuses(w)
    \/ Fill(w) \/ FillFails(w) \/ VerifyLink(w) \/ VerifyRefuses(w)

Replacing(w) ==
    \/ Stage(w) \/ Exchange(w) \/ ExchangeFails(w) \/ Compare(w) \/ CompareFails(w) \/ Discard(w)

Registering(w) == HookRead(w) \/ HookRejects(w) \/ RecordCanary(w) \/ RecordFails(w)

Undoing(w) ==
    \/ UnlinkCheck(w) \/ UnlinkRefuses(w) \/ Unlink(w) \/ UndoCheck(w) \/ UndoRefuses(w)
    \/ UndoExchange(w) \/ UndoExchangeFails(w) \/ UndoVerify(w)

Step(w) ==
    Planning(w) \/ Checking(w) \/ Creating(w) \/ Replacing(w) \/ Registering(w) \/ Undoing(w)

Next == User \/ \E w \in Writers : Step(w) \/ Kill(w)

Spec == Init /\ [][Next]_vars
-----------------------------------------------------------------------------
(* Properties *)

AnyText == Writers \cup {"catalog", "user", "partial", "none"}
Ino == 0 .. Len(inode)

\* Every variable stays in its type; in particular nothing names, and no command
\* holds, an inode that was never made, and an undo knows both inodes.
TypeOK ==
    /\ name \in [Names -> Ino]
    /\ inode \in Seq([text : AnyText, by : {"honeypath", "user"}])
    /\ row \in [ino : Ino, text : AnyText]
    /\ op \in [Writers -> [mode : {"none", "create", "refresh"}, expected : AnyText, tmp : Ino,
                          chk : Ino, inst : Ino, exch : Ino, seen : Ino,
                          why : {"none", "mismatch", "reject", "fill"},
                          outcome : {"none", "skipped", "refused", "failed", "rejected",
                                     "rollback", "written"}]]
    /\ \A w \in Writers : pc[w] \in {"undo", "swap", "undone"} => op[w].inst # 0 /\ op[w].exch # 0
    /\ tmpfile \in Tmpfiles /\ static \in StaticTexts
    /\ dropped \subseteq Ino /\ recorded \subseteq Ino /\ mistaken \in BOOLEAN
    /\ faults \in 0 .. MaxFaults /\ kills \in 0 .. MaxKills /\ acts \in 0 .. MaxUser

Linked(i) == \E n \in Names : name[n] = i
Ended(w) == pc[w] = "done" /\ op[w].outcome # "rollback"

\* "A write and its manifest row commit together" (README): once every command
\* has ended, none of them reporting a failed rollback, and nobody else touched
\* the file, the row describes the inode and the text at the path.
CommitTogether ==
    acts = 0 /\ (\A w \in Writers : Ended(w)) => row.ino = Dest /\ row.text = TextAt

\* Two commands each found the other's exchange and undid it.
CrossUndo == \E v, w \in Writers : v # w /\ op[v].why = "mismatch" /\ op[w].why = "mismatch"

\* A write and its row commit together also when commands overlap, when the
\* database fails and when a write is rolled back, unless two commands undo each
\* other's exchange, or equal texts made one of them take a file for another one.
InStep == ~CrossUndo /\ ~mistaken => CommitTogether

\* A creation that the hook rejected, or that could not be filled, may have been
\* unlinked by its name.
Unlinked == \E w \in Writers : Creates(w) /\ op[w].why \in {"reject", "fill"}

\* "without destroying the independently appeared file" (README): a file the user
\* put at the path keeps a name, the path's or a staging one, until the user
\* takes it away.  The one exception is the removal of a rejected or partial creation.
UserFileKept ==
    \A i \in DOMAIN inode :
        inode[i].by = "user" => Linked(i) \/ i \in dropped \/ Unlinked

\* The hook runs before the replaced file is discarded (atomic_write): the file
\* the row describes still exists, whatever was killed or failed, unless the user
\* removed it.  The removal of a rejected or partial creation is again an exception,
\* and so are equal texts that made a command take a file for another one.
RecordedFileKept ==
    row.ino # 0 /\ ~mistaken => Linked(row.ino) \/ row.ino \in dropped \/ Unlinked

\* An operation that reports anything but success or a failed rollback leaves no
\* name for its own file, unless a second command, busy replacing what is at the
\* path, may have exchanged its own file with that one.
Replaced(w) == \E v \in Writers \ {w} : ~Creates(v) /\ op[v].tmp # 0
NoTraceOfRefused ==
    \A w \in Writers : Ended(w) /\ op[w].tmp # 0 /\ Linked(op[w].tmp)
                          => op[w].outcome = "written" \/ Replaced(w)

\* "verifies that the exchanged-out inode is the exact object inspected"
\* (atomic_write): a refresh is recorded over the very file that it checked and
\* replaced, so the recorded write of another command is never lost.  It can be if
\* the user took the refreshed file away before its row was committed (with three
\* commands also if the user took away the file of another one), or if equal texts made
\* a command take a file for another one.
ReplacesChecked ==
    [][\A w \in Writers :
         RecordCanary(w) /\ ~Creates(w) =>
            row.ino = op[w].chk \/ op[w].tmp \in dropped \/ mistaken]_vars
=============================================================================
