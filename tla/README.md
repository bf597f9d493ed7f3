# Honeypath in TLA+

Honeypath plants fake credential files ("canaries"), watches them, records every
access in SQLite and a log file and sends alerts through Pushover. It is a Python
program of threads, files, a database and, on WSL, Windows PowerShell. This
directory specifies the parts whose correctness depends on the *order* of things:
which thread acts when, what is durable when a process dies, who renamed what
between two system calls. Line references are to `src/honeypath/` unless they name
another file.

Contents: [the system](#the-system) · [the modules](#the-modules) ·
[runs](#runs-what-is-checked) · [fairness](#fairness) · [proofs](#proofs) ·
[where code and documentation part](#where-code-and-documentation-part) ·
[what is not modelled](#what-is-not-modelled) · [plan](#plan)

## The system

| component | state | operations | interacts with | correct when |
|---|---|---|---|---|
| Windows audit watcher (`windows_audit.py` 1052-1281) | in memory: checkpoint `last_record_id`, log generation, `_emitted_inbox_ids` | `poll_once`: replay the inbox, fetch a page, detect a gap or a reset, stage each record | reads the Security log, writes checkpoint and `windows_event_inbox`, puts hits on `Monitor.hits` | no retained canary read is stepped over; a gap is reported; a row is queued once per process |
| Durable inbox and events (`database.py` 427-507, 962-1085) | checkpoint, generation, inbox rows, events | stage, rotate, page through pending rows, turn rows into an event | several processes and threads share it | one event per row, whoever retries |
| Delivery (`monitor.py` 494-668, 927-1049) | hit queue, coalescer, cooldown slots, sweep buffer, alert queue | `pump`, `_dispatch`, `offer`, `_release_sweep`, `_alert_loop` | takes hits from all watchers, waits for the writer, feeds the alert thread | every hit in one event; no alert lost, doubled or overtaken; suppression only for the documented reasons |
| Shutdown (`Monitor.stop`, 832-907; `cmd_watch`) | stop event, the life of each thread | join, drain, flush, release, sentinel, bounded join, stop the writer | all threads | accepted hits are committed before alerts are drained; `stop` comes back |
| Writer queue (`database.py` 988-1124) | FIFO of jobs, a thread | `submit`, `submit_sync` with a timeout, `drain`, `stop` | main and alert threads | a job is committed in order and once |
| Safe writes and canary creation (`safe_write.py`, `cli.py` 296-347, 900-1166, `catalog.py` 1380-1477) | directory entries, inodes, the `canaries` row | plan, check, install by link or exchange, verify, register, undo | the user and other commands touch the same path at any time | file and row agree; nobody's file is lost; a refused write leaves nothing |
| atime watcher (`monitor.py` 309-540) | baselines in memory and in SQLite, identities of the files | scan, compare, persist the new baseline, re-arm the file | delivery, database, the kernel's relatime rule, `create-canaries` | a read is reported, also across a restart; Honeypath's own reads are not |
| inotify watcher (`monitor.py` 138-305) | a subprocess and its output | parse lines into hits, restart the subprocess | delivery | what the atime watcher has an excuse to miss is seen here |
| SSH canary (`ssh_canary.py`, `cli.py` 2203-2493, `database.py` 768-942) | phase of the installation, `~/.ssh`, its backup | prepare, activate, restore | file system, database, wrappers, the user's own ssh | the real directory is never lost and can always be found and put back; nothing stale is activated |
| Managed changes (`ssh_canary.py`, `database.py`) | recorded old values of rc files, wrappers and git configuration | apply, restore | SSH canary | exactly what was changed is restored |
| Windows audit configuration (`windows_audit.py` 523-1050) | audit policy, SACLs, recorded SDDL, watcher script and task | apply path by path, roll back, restore | Windows | a failed setup leaves the machine as it was |
| Windows-resident watcher (PowerShell text, `windows_audit.py` 717-811) | a state file and a queue file | poll, send, rewrite the queue | Windows, Pushover | nothing lost or sent twice |
| Event log file (`eventlog.py`) | file, size, rotated copies | append, rotate | several processes | no line is lost in a rotation |
| Schema (`database.py`), alerts (`alerts.py`), commands (`cli.py`), catalog, platform probes, service unit | none of their own, or what the rows above list | | | |

What is hard here, and hard to test: watchers, the main thread, the alert thread
and the writer run concurrently and hand work over through queues; two watch
processes, or two `create-canaries` commands, share one database with no lock
beyond SQLite's own; a process can die between any two commits; `submit_sync`
gives up waiting while its job is still queued; Windows rolls its log over, or an
administrator clears it, between two polls and even between two pages of one poll;
and the user can touch a canary between any two system calls of a command that is
replacing it; a command that moves `~/.ssh` away can die at any step while the user's
ssh writes there; and a Windows call can fail *after* it took effect. `PROJECT.json` lists these hazards with their lines and the
properties aimed at them.

## The modules

    ReadLedger              what the durable inbox promises (abstract)
      ^ implemented by
    WinPipeline             monitor and writer threads, crashes
      | extends
    WinAudit                Security log, SQLite tables, watcher thread

    WatcherScript           the PowerShell watcher over the same kind of log
    WinSetup                setup-windows-audit, its watcher, --restore

    CanaryWatch             atime and inotify watchers of one Linux canary
    Delivery                one process, one main thread, with time
    Shutdown                Monitor.stop and all threads, without time

    SafeWrite               create-canaries, the user, several commands
    SSHCanary               setup-ssh-canary, --activate, restore-ssh-canary
      | extends
    ManagedChanges          wrappers, rc files, git, and their rows

The theorems about a module M are in `M_proofs`; there is one for each of WinPipeline,
WinSetup, WatcherScript, CanaryWatch, Delivery, Shutdown, SafeWrite and SSHCanary.

`MC*.tla` add the symmetry sets the configurations use. The modules meet at the
queue of hits: `WinPipeline` abstracts from what `_dispatch` decides (an item is
alertable or not), `Delivery` abstracts from where a hit comes from (with or without
inbox rows, `durable`), `CanaryWatch` produces such hits and abstracts what follows into
`Record`, and `Shutdown` abstracts from all of them and keeps the threads.

**ReadLedger.** A set of accepted reads that wait, and a set of events each of which
took some reads of one path. Reads are accepted once and taken once.

**WinAudit.** The log is `oldest..newest` with the object of each record; ids restart
at 1 when it is cleared. `inbox` is a sequence whose positions are the SQLite ids.
The watcher thread has a program counter: `idle`, `emit` (`_emit_pending_inbox`, one
query per step), `fetch` (one PowerShell call), `rewind` / `rotate` (the transaction
after a gap), `stage` (one transaction per record). `pageEpoch`, `noted` and `occ` are
history. A fetch is three queries, each of which may fail in silence and then gives no
records, no oldest id or no newest one (`Answers`); `blind` counts such fetches, and
`FetchNothing` is one that gave no records. One action is one transaction or one fetch,
because other processes and the main thread run in between. A record is a number and an object; names, SIDs
and process images are left out, and so is the XML they are parsed from.

**WinPipeline.** `coal` holds the rows the coalescer merged per path (only inbox
rows: other hits play no part here), `wq` is the writer's FIFO, `main` says whether the
main thread sits in `submit_sync`. `Dispatch`, `WriterCommit`, `WriterFails` and
`SubmitTimesOut` are the four ways that handshake goes. `Crash` empties everything in
memory and leaves the tables.

**Delivery.** Time is kept as ages that stop growing at the bound they are compared
with, so the model needs no clock and no bound on time. The main thread follows
`pump`: take hits, take what is due, and for each item `Decide` (mute, advisory,
cooldown, in this order), the insert (`Stored`, `NotStored`, `AlreadyConsumed`), then
`Release`. `NotStored` covers an insert that raises as well as one that times out and
commits later. The alert thread sends a job and settles its events (`Deliver`), or the send
raises something `Pushover.send` does not catch: `_alert_loop` has no handler, so the thread
is gone (`SendRaises`, `alive`). `since` is history: the age of the last alert that was
really handed on.

**Shutdown.** Every wait in `stop` is a step of its own, and so are a watcher's calls
(`busy`: it may never return), the alert thread's send and the writer's commits. A
dispatch may raise outside its `try` block (`is_muted`), which ends `stop` early. The
alert thread is in its loop (`run`), writing down what became of a send (`settle`), at its
end (`exited`), or killed by a send that raises (`AlertDies`, `dead`), in which case `stop` joins
it all the same. A writer job may raise and be rolled back (`JobFails`, remembered in `failed`).
The writer thread may die (`WriterDies`, an SQLite error outside a job), and `submit`, which
tests `_stopped` without the lock, may put a job behind the sentinel (`HandIn`).

**SafeWrite.** One canary path, its directory entries and inodes, and the database
row. A step is one system call or one transaction of a command; the user's `Edit`,
`Place` and `Remove` and the other commands' steps fall in between. `Refreshers` are
the commands that got `--refresh-managed`. `tmpfile` says whether the file system has
`O_TMPFILE`. A text is a token per command or, for a static catalog entry (`static`), the
text that was recorded, the same for every command; then there is `"user"` for what the user
wrote and `"partial"` for a half-written file. `mistaken` is history: a command with an
equal text took another file for its own or for the recorded one. A rejected or partial
creation is taken away in two calls (`UnlinkCheck`, `Unlink`).

**CanaryWatch.** One canary. A file is its inode, its atime and whether the kernel will
record the next read (`armed`, the relatime rule; `strict` stands for strictatime).
`PollGone`, `PollBack`, `PollRead` are the three branches of `poll_once`, `RearmOpen` and
`RearmSet` the two halves of `rearm_path`; `CommitBaseline` is the job in the writer queue,
which names only the path. `ino` is the subprocess, `lines` its unread output. History:
`pending` are the reads by others that no event stands for, `lapse` and `deaf` say which
watcher has an excuse.

**SSHCanary.** A directory has the identity of its inode, which a rename keeps, an owner
and a content per file: `Absent`, `Canary`, or the user's version. `slots` are the names
that renames made (`backup`, `aside`). `cmd` is the running command and where it is; one
action is one rename, one file or one transaction, so a failing step, a crash or the user
can come in between. What a rollback does is spelt out (`Unplant`, `RenameBack`,
`UndoAside`). The user may write to `~/.ssh` at any time, and to a canary directory too:
`lapse` then remembers that a canary was edited. `Phase1`, `Phase2` and `Restore` group the actions by command.

**ManagedChanges.** Three items, each `absent`, the user's, exactly what Honeypath
writes, or that with an edit (a wrapper that still has the marker is replaced without
`--force` and left alone by an undo), and the rows that hold what was replaced. It gives operators, not actions:
SSHCanary decides when they are called.

**WinSetup.** Audit policy, one SACL per canary, the last-access setting, task and script;
beside each the active rows of `managed_changes`, newest first. Every call into Windows
is a step that may fail before or after it took effect (`ApplyFails`, `RestoreSaclFails`,
`RegisterFails` and the like). The scripts that set a SACL are taken apart into their calls:
`GetAcl`, `SetAcl` and `GetAclAfter` when the rule is added, then `RollBack` or `RestoreSacl` (read
and compare), `SetExactSacl`, and `RollBackVerified` or `RestoredSacl`; an administrator may come in
between any two, which `raced` remembers. `disturbed` is history: the canaries to which that, a death or an
administrator happened.

**WatcherScript.** One round of the script's loop is `ReadFiles`, `ReadOldest`, `CheckGap`,
`FetchPage`, then per record `Enqueue` and `Advance`, then `Send` per line and
`RewriteQueue`. A cmdlet that fails under `SilentlyContinue` does nothing, or gives nothing, and the script
goes on: no lines of the queue (`ReadFiles`, `ReadQueue`), no oldest or newest record
(`ReadOldest`, `CheckGap`), no page, no line in a file. `lapse` names what that costs. `Test-Path`
is taken to tell the truth. Records carry an epoch, which stands for `TimeCreated`. A line is appended to the
queue in one step.

## Runs: what is checked

| run | system and bounds | checks |
|---|---|---|
| `win_main` | two processes on one database, two canaries, one log record, one fault, one crash, one `submit_sync` timeout, no query that fails in silence (STATES:win_main) | `ExactlyOnce`, `ImplementsLedger`, `EveryRowRecorded` |
| `win_log` | one process, a log that retains one of up to three records and is cleared once, one canary, pages of two, one query that fails in silence, a crash (STATES:win_log) | `TypeOK`, `RetainedCovered`, `StagedIsStored`, `EmittedOnce`, `GapAlwaysReported` |
| `del_main` | two paths, three hits, advisory and durable ones, one insert fault, two mute changes, a send that raises (STATES:del_main) | `OneEventPerHit`, `AdvisoryExact`, `CooldownMeansAlerted` |
| `del_sweep` | two paths, four removals, threshold three, maximum three ticks, no cooldown, a send that raises (STATES:del_sweep) | `BurstsReleased` (`AlertedOnce`, `AlertsInOrder`, `SummaryOnlyForSweeps`), `EveryHitRecorded`, `EveryAlertSettled` |
| `stop_main` | a watcher that may never return, two hits, a submit timeout, a dispatch that raises, a job that is rolled back, a writer and an alert thread that may die (STATES:stop_main) | `CommittedBeforeAlertDrain`, `AlertsDrained`, `CleanStopSettles`, `StopEnds` (`StopReturns`, `ThreadsEnd`), `AlertsGoOut` |
| `write_main` | two commands with `--refresh-managed`, static and rendered texts, with and without `O_TMPFILE`, three acts of the user, a fault, a kill (STATES:write_main) | `InStep`, `NoTraceOfRefused`, `UserFileKept`, `RecordedFileKept`, `ReplacesChecked` |
| `write_cross_undo` | two commands with `--refresh-managed`, nobody else | `CommitTogether` fails (finding) |
| `ssh_main` | the three SSH commands, five events of which two are failed steps, crashes or changes by the user, to canaries and managed items too; one key, `known_hosts`, `config` (STATES:ssh_main) | `RealKept`, `ActivationWhole` (`AllOrNothing`, `RowsMatchDirectory`, `FakesStayOut`), `RestoreFindsReal`, `ChangesUndoable` (`NothingOrphaned`, `FirstValueRecorded`), `NeverStale` |
| `ssh_stale` | the same | `ConfigNeverStale` fails (finding) |
| `watch_main` | two foreign reads, two of: removal, return, replacement, refresh, crash, death of inotifywait, failing re-arm; relatime and strictatime (STATES:watch_main) | `BaselineExact` (`NeverReportsItself`, `BaselineNeverAhead`), `WatchersReport` (`ReadsRecorded`, `GoneReported`), `BlindOnlyTogether` |
| `host_main` | two canaries, three commands, two of: failing call, death, change by an administrator, also between the calls of a script (STATES:host_main) | `ChangesRecorded` (`AceRecorded`, `ScriptRecorded`), `SetupAllOrNothing`, `StillRestorable`, `CleanRestore`, `AdminKept` |
| `script_main` | a log that retains two of three records and is cleared once, one cmdlet that fails in silence, lost answer or death (STATES:script_main) | `CheckpointCovered`, `SentOncePerTrouble`, `EveryReadSent` |

What the properties say is in a comment above each, with the exceptions each one makes.
Names in brackets are the named parts of a conjunction. Every module has a `TypeOK`
that says what its variables hold; `win_log` checks one of them, and each is a theorem.
The ones that carry most:

- `ImplementsLedger`: with pages, retries, lost answers, crashes and two processes, the audit
  pipeline still behaves as the two-action ledger: no read is forgotten,
  taken twice or put into another path's event.
- `RetainedCovered`: what is below the checkpoint is in the inbox. This makes a
  restart safe. The run has one process; for several, whose durable checkpoint really
  goes backwards, it is the theorem `NothingSteppedOver`.
- `EveryRowRecorded`: pages, the set of emitted ids, the timeout and the crash
  together never strand a row. It is stated for runs without faults: after a *failed*
  insert the row stays pending and the process, which remembers it as emitted, does
  not try again before it is restarted.
- `AlertedOnce`, `AlertsInOrder`, `EveryAlertSettled`: whichever of the four ways a
  burst ends, what it held goes out once, in order, and is settled, unless a send raises
  and takes the alert thread with it.
- `CommittedBeforeAlertDrain`: the order of `stop` really delivers its promise, through
  a watcher that comes back late and an insert whose `submit_sync` gave up; what it leaves
  out is the hit whose own insert raised and was rolled back.
- `AlertsGoOut`: an alert that was handed on is sent even when the writer thread is dead; only
  a dead alert thread keeps it.
- `RecordedFileKept`: at no instant, killed commands and failed undos included, is the
  file that the database describes without a name, unless the user removed it, it fell to
  the removal of a rejected or partial creation by name, or equal texts made a command
  mistake it for another file.
- `ReplacesChecked`: two refreshes cannot silently overwrite each other's recorded file, with
  the last of these exceptions.
- `RealKept`, `RestoreFindsReal`: a directory of the user's is at all times in exactly one
  place, and whenever it is not `~/.ssh`, restore would choose it. These two have no
  exception for crashes: a crash between the rename and the commit is covered because
  `restore-ssh-canary` looks at the backups on disk and not only at the row.
- `AdminKept`: no rollback and no restore touches an administrator's rule, except at a canary
  whose SACL was changed while a script was between its calls.
- `NeverStale`: between the copy, the check, the rename and the second look the user's ssh
  may write; whatever is activated is not older than what was moved away.
- `ReadsRecorded`, `BlindOnlyTogether`: a read is recorded unless the atime watcher has one of
  the excuses the property lists, and if it has, unless inotifywait was deaf as well.
- `AceRecorded`, `StillRestorable`: every ACE of Honeypath has a row, unless the canary was
  disturbed before its row was written (a call that failed after it took effect, a death, an
  administrator), and after any number of setups the rows still lead back to the SACL that
  was found.
- `CheckpointCovered`, `SentOncePerTrouble`: the script's queue and checkpoint are
  written in the order that loses nothing and repeats only what trouble made it repeat.

Bounds. A log that retains fewer records than it gets, with one clear, gives rollover,
several pages and a rewind; two processes are enough for every
pairwise race on the database; one silent failure can be that of any query in any fetch,
or of any cmdlet of the script; one crash, one fault and one timeout each can fall on
every step. A burst needs its first alert, three held ones for a summary and so four
hits. Three acts of the user allow a canary to be replaced, edited and removed within
one write. Five events in `ssh_main` are setup, activation, a restore and two things that go
wrong between or inside them, or a second round. Two troubles in `host_main` are a failing
call and a failing rollback; three commands are setup, setup again, restore. Two reads and
two troubles in `watch_main` give a read before and after a crash or a removal.
`MaxHits`, `MaxRecord`, `MaxClears`, `MaxFaults`, `MaxFailures`, `MaxBlind`, `MaxCrashes`,
`MaxTimeouts`, `MaxRaises`, `MaxMutes`, `MaxUser`, `MaxKills`, `MaxReads`, `MaxTrouble`, `MaxEvents` (of SSHCanary) and `MaxRuns` exist only to
bound the state space; `AlertMayDie` and `WriterMayDie` say whether a thread may die at all. Canaries, paths and commands are symmetric where the properties are safety; no
configuration with a liveness property uses symmetry. Deadlock is checked for
Delivery, which always may tick; it is off where the system does end: commands finish,
`stop` finishes, and with its bounds used up a log or a canary falls silent.

## Fairness

- `WinPipeline!Fairness`: the threads of a process keep being scheduled, and a dead
  process is started again: `systemd/honeypath.service` has `Restart=on-failure`,
  `RestartSec=10`. Faults, timeouts and crashes have no fairness.
- `CanaryWatch!LiveSpec`: the same for the two watchers, the writer and the main thread.
  inotifywait is started again by the loop of `InotifyWatcher.run`.
- `Delivery!LiveSpec`: time passes, `pump` is called in a loop (`cmd_watch`), and the
  alert thread takes jobs; a send has a 15 s timeout, so it ends: sent, failed, or with an
  exception that nobody catches. Nothing brings back the thread that died of one.
- `Shutdown!LiveSpec`: main, writer and alert threads keep running. A watcher is *not*
  assumed to return from a call. One that keeps returning gets to see the stop event,
  which is the strong fairness of `Die`: the loops test `stop_event` between calls. Nothing
  brings a dead writer or alert thread back.
- `WatcherScript!LiveSpec`: the user logs on again, the script runs, and Pushover, asked again
  every minute, does not refuse for ever (strong fairness of `Send`).

## Proofs

For each module below there is a theorem `Spec => []P` (or `Spec => P` for an action
property or a refinement) for every value of the constants: any number of processes,
commands, canaries, keys, records and hits, any window, capacity and page size, any number of
faults, crashes and changes by the user. What is assumed is the named assumption of the
module (bounds are naturals, a capacity is positive, tokens are distinct); what is assumed
beyond that is said below. In every case the property is too weak to be inductive, and the
proof is about an invariant that implies it; TLC checked that invariant first on the
bounds of the runs.

| module | proved | invariant |
|---|---|---|
| WinPipeline | `TypeOK`, `ExactlyOnce`, `ImplementsLedger`, `RetainedCovered`, `EmittedOnce`, `GapAlwaysReported`, `StagedIsStored` | `TableInv`, `CoverInv`, `Remembered`, `GapInv`, `NewIds` |
| WinSetup | `TypeOK`, `AdminKept`, `ChangesRecorded`, `SetupAllOrNothing`, `StillRestorable`, `CleanRestore` | `Invariant` = `RowsHonest`, `Traced`, `Scripted`, `Undisturbed` |
| WatcherScript | `TypeOK`, `CheckpointCovered`, `SentOncePerTrouble` | `ScriptInv` |
| CanaryWatch | `TypeOK`, `BaselineExact` | `WatchInv` |
| Delivery | `TypeOK`, `OneEventPerHit`, `AdvisoryExact`, `BurstsReleased`, `CooldownMeansAlerted` | `DeliveryInv` |
| Shutdown | `TypeOK`, `CommittedBeforeAlertDrain`, `AlertsDrained`, `CleanStopSettles` | `StopInv` |
| SafeWrite | `TypeOK`, `UserFileKept`, `RecordedFileKept`, `NoTraceOfRefused`, `InStep`, `ReplacesChecked` | `Known`, `Marks`, `Safe`, `RowKept`, `OneName`, `Together`, `Distinct`, `Checked` |
| SSHCanary | `TypeOK`, `RealKept`, `RestoreFindsReal`, `ActivationWhole`, `ChangesUndoable`, `NeverStale` | `SSHInv` |

### WinPipeline

*Types.* One lemma for each group of actions. The interesting case is the rewind: that
`OldestRecordId - 1` is a natural needs the reason for which the gap was found.

*One event per row.* `ExactlyOnce` is not inductive: nothing in it says that what sits
in a queue names rows of the inbox under their own path. `Queued` says so for `hits`,
the coalescer and every job. `TableStep` then classifies all steps by what they do to the two
tables: nothing, one new waiting row, or one new event that takes waiting
rows of its path. `ExactlyOnceStep` and the refinement (`NewRowAccepted`,
`NewEventRecorded`) are about these three cases and never look at an action again.

*Nothing stepped over.* `RetainedCovered` does not survive the staging of a record by
itself: the checkpoint jumps from the last staged id to the record's. `CoverInv`
adds `PageComplete`: a page being staged holds every retained
canary read between the watcher's checkpoint and the page's last record. `PageHasNoHoles`
establishes it when a page is fetched, and rollover only shrinks what is retained.

*Queued once.* A scan of the inbox goes on while the main thread consumes rows behind it, and
it queues what the process does not remember. `Remembered` says that whatever is in `hits`, in the
coalescer or in a job and still pending is remembered, and that the scan
itself has seen what it is past. `QueryHasNoHoles` is the fact about the query that lets a
full page advance `after` to its greatest id.

*Gaps reported.* Take the canary reads that have left the log and that no report covers
(`Gone`). Below every checkpoint, the durable one and the one a watcher has in memory, these
are in the inbox; above a watcher's there are none once its poll has compared the
range (`Aware`), but for those that the property excuses, because they left after the comparison
(`Unchecked`). `NoneBetween` carries this through the staging of a page.

*Staged is stored.* `NewIds`: the rows of the running generation have ids up to the
checkpoint, and the page has ids above it, so `INSERT OR IGNORE` has nothing to ignore. This
needs one process (`Procs = {w}`) and polls and writes that do not fail (`MaxFaults = 0`); without either the
property is false, for the reasons in the next chapter.

### WinSetup

*No rule but Honeypath's.* That a rollback or a restore keeps the rules of an
administrator depends on rows written long before, by another command. `RowsHonest` says
that each of them, and each change a setup has applied and not yet recorded, differs
before and after in Honeypath's ACE at most; `ApplyKeeps` establishes it when the ACE is
set, and `RestoreKeeps` uses it. The rest is that the rows a command is
about to use exist.

*Every change has a row.* `Traced` is about the canaries that nothing disturbed: an ACE that is
there was put there by a change that found none (`Sound`), and that change is either staged in the
running setup or has a row that no rollback of this setup drops; `Tidy` says how the job, its
staged changes and its saved rows fit together. `Scripted` says the same of the watcher
script. `ChangesRecorded`, `SetupAllOrNothing` and `StillRestorable` follow, each from where
the command is.

*A clean restore.* As long as nothing failed and nobody interfered, every SACL row but the
oldest of a canary restores the ACE (`SaclsCalm`), every policy row but the oldest found the policy
enabled (`PolicyCalm`), and script and task are as found or those of the newest row
(`TaskCalm`). A restore undoes the newest first, so the last one undone is the one that holds what was
found. The proof looks at the steps that are left when nothing fails (`CalmSetup`,
`CalmWatcher`, `CalmRestore`).

### WatcherScript

*Nothing behind the checkpoint is lost.* A read is accounted for when it is queued, sent or
reported (`Noted`). `Ordered` relates the checkpoint in memory, the one in the file and the
log: only a rewind into a log that is gone moves it down. `Paged` says that a page is the part of
one log that is still to be handled. `Accounted` then follows a round: what the first look at
the log saw is still there at the second or was reported, the page has all that is left below
its records, and so everything behind a checkpoint is noted.

*Sent once per trouble.* A potential: what was sent of a read, plus one if a line of it waits
to be sent, plus one if it may be queued again, is at most one more than the trouble there
was (`Counted`).

### CanaryWatch

The baseline in the row, those in queued jobs and the one in memory were all atimes of the
file they are for (`Atimes`, `Baselines`), and the atime now is not behind any of them, although
re-arming sets it back (`Ahead`).

### Delivery

`Ledger` says where a hit is: in the hit queue, in an item of the coalescer, in one that
is due, or in an event, and in one of these only (`Apart`). `Honest` says that an item or event
is advisory exactly if all its hits are. `Burst` is about the alerts: what is held, queued and
recorded; `Flight` says that the entries on their way to an alert are those of events not yet settled,
each once and in order. Every step of the sweep buffer *embeds* the batches after it into those before it
(`Embeds`), which is how all four ways a burst can end are one argument. `Slots` says that a
path's cooldown is no younger than its last alert while inserts succeed. Which item is
dispatched next is found by induction over the finite set of those that are due.

### Shutdown

`HitsKept`: a hit that was emitted is queued, in the coalescer, being inserted or recorded.
`SentinelLast`: there is one sentinel and nothing is behind it. `Phases` says what each phase of
`stop` has left empty for good, and `Settling` that the delivery record of what was sent is
written, queued or about to be. The exceptions of the properties (a watcher that was
abandoned, a dispatch that raised, a dead writer) are the only places where these fail.

### SafeWrite

`Known` says for each program counter what the command knows: whether it has a
file, whether that has a staging name, what it has compared. On top of it: two commands
never share a file and a file stays whose it is (`Files`), which gives `UserFileKept`; nothing that the
row describes, or that is about to be recorded, can be discarded (`Safe`), because a text says which
command wrote it (`Marks`). So `RecordedFileKept` is proved for commands that write different
texts (`~SameText`, as `write_main` has it); with equal texts it is false, see the next chapter.
`OneName` says which of the two names a command's file can have as long as no second command
replaces files.

*The row and the path.* `InStep` is about the end of all commands, so the invariant has to
follow the path while they overlap. `Founding`: until something is recorded there are only
creations, and one of them has the path; from then on no creation can touch it. `Stacked`:
replacements in flight are stacked on the recorded file. Seen from the path there is the file of
at most one *bad* replacement (it took out another file than it had checked and has to undo that),
that of at most one good one, and the recorded file, each under the name of the one above.
An exchange puts a file on top, an undo takes it off, a commit makes the good one's
file the recorded one. A second bad one is what `CrossUndo` excuses. This too needs
different texts: TLC finds three commands that write the recorded text again and end out of step.

*Recorded over what was checked.* A replacement finds the file it is to replace by its text, and
then by identity, and another command may commit at any point in between. `Checked` says
that a file once recorded is still the recorded one or `Off`: not at the path, and nobody is left
who would bring it back. So what a replacement takes out and finds to be what it checked
is what is recorded, and as no file has two names (`Distinct`) no other command can commit
over it. `RecordedOverChecked` holds until somebody other than the commands touches the path;
`CommandsReplaceChecked` concludes `ReplacesChecked` from it for `MaxUser = 0`.

### SSHCanary

`Control` says where a command can be and what it holds there. `Owned`: the identities of
directories are distinct, so that none is in two places. `Bottom`: the oldest of the
directories that are there and not set aside is the user's. `Recorded`: the row names the newest backup.
These hold through crashes, and `RealKept` and `RestoreFindsReal` follow. `Calm` is the
invariant of an orderly history: no fake outside the canary directory, and one of five
situations (`Untouched`, `Moving`, `Installed`, `Returning`, `Returned`); `Rowed`
adds which row stands for which change outside `~/.ssh`. `Dated` and `Faithful` are about time: what
the user's programs write is newer than all there is, and what was verified after the rename stays
so. The assumption on `Planted`, that `config` is planted before `known_hosts`, is the
order of the canary list in the code.

### Only model-checked

- `ReplacesChecked` where the user takes part. For two commands `write_main` shows it with
  three acts of the user; for three commands it is false, because the user may take away the
  file of a third command that lies on top of the second one's.
- `EveryRowRecorded`, `EveryHitRecorded`, `EveryAlertSettled`, `StopEnds`, `AlertsGoOut`,
  `WatchersReport`, `BlindOnlyTogether`, `EveryReadSent`: liveness, or stated over specifications
  with fairness. TLAPS does not reason about liveness under fairness or about `ENABLED`.

## Where code and documentation part

Shown by a run:

1. `write_cross_undo`. Two refreshes can each undo the other's exchange. Both report a plain
   refusal and the path keeps a file that neither registered (README.md:1228 of the
   repository: "A write and its manifest row commit together.").
2. `ssh_stale`. The user section read back from the relocated config never hashes to the
   recorded one, because assembling the file put a line break around it
   (ssh_canary.py:1879). Once a path had to be rewritten, the section is therefore kept as a
   hand edit, and what the user changed in `~/.ssh/config` after Phase 1 is not activated
   (README.md:918: "re-runs the config rewrite and validation").

Visible in the models, kept out of the properties by a stated condition:

*Audit pipeline*

- After a cleared log `poll_once` rewinds `last_record_id`, *then* commits the new
  generation (1222-1228). If that commit raises, the next poll no longer sees a reset and
  stages the new log's ids under the old generation, where `INSERT OR IGNORE` drops those
  that were used before. `win_log` lets no write fail.
- A second watch process keeps the generation it read at its start. When the first one
  finds the log cleared and starts a new generation, the second goes on staging under the old
  one, with the same effect. `win_log` has one process.
- The range check runs on a poll's first page only (1202-1212). What rolls off the log
  between that check and a later fetch of the same poll, also right after the rewind
  of a gap, is never reported. `GapAlwaysReported` excuses exactly that (`Unchecked`, `noted`).
  It takes four records to show, so `win_log` with its three does not reach it; the
  theorem covers every bound.
- A cleared log is recognised only while its newest id is below the checkpoint. Once it was
  refilled the gap goes unreported; `GapAlwaysReported` ends when the log is cleared.

*Delivery and shutdown*

- A detection without inbox rows is offered for an alert also when its insert raised
  (`NotStored`), although README.md:432 says every event is written first. An item
  that is then withheld was already logged as ALERT.
- `offer` does not look at the quiet period (`Offer`): a detection dispatched after the
  quiet period but before the pump that closes the burst is held for another window.
- Watchers are non-daemon threads (monitor.py:129). `stop` abandons one that is wedged, as its
  comment at 865 promises, but the interpreter waits for it: `ThreadsEnd` leaves out a watcher
  inside a call. A writer thread that died with jobs queued keeps `stop` in `drain`.
- Hits that an abandoned watcher emits after the last drain stay in the queue, and the
  outcome of a send that outlives its bounded join is written nowhere. The conditions
  `left = {}` and `joined` say so. An exception from `is_muted` inside `stop` skips the rest
  of it, sentinel included (`aborted`).

*Safe writes*

- A command killed between the exchange and the commit leaves the new file under the
  old row and the old one under its staging name; nothing recovers from that later.
- The replaced inode is discarded by identity, so bytes written into it in place after
  the hash check are lost. `UserFileKept` is about files, not bytes.
- The removal of a rejected creation is a look and an unlink by name (`Unlinked`).
- Two refreshes that write the *same* text (`SameText = TRUE`) may commit in the opposite
  order of their exchanges, and the row keeps the inode of a file that is gone.
- An undo that finds the path empty reports an ordinary failure and leaves the original
  under its staging name (`NotUndone`).

*Watchers of a canary*

- The read that verifies a new canary may push its atime past its mtime. Nothing re-arms
  it before its first detection, so under relatime even the first foreign read within a day
  may go unrecorded (`lapse` "created"), where README.md:306 speaks of the reads after the
  first.
- The baseline is stored before the event: a crash in between, or before the file is
  re-armed, loses a read ("missed"). So do a read between poll and `utime`, which is
  written back, and reads while the canary is away.
- A baseline queued before a refresh is stored by path over the new row ("overtaken").

*SSH canary*

- A crash between writing a wrapper, block or git value and its row leaves nothing to undo
  it by; when git cannot restore `core.sshCommand`, its row is retired all the same.
- After a crash between the rename and the canary's own `config`, Phase 1 does not recognise the
  incomplete canary directory, takes it for the user's, and may copy its fakes over the
  relocated keys, against the comment at cli.py:2016. The user's keys stay in the backup.
- A crash between the move back and the deactivation leaves canary rows active on the user's
  files until restore is run again.

*Windows setup and script*

- A SACL whose verification failed is not rolled back; rows are dropped even if the rollback
  failed; a death before the rows are written leaves an ACE without one (`disturbed`).
- The last-access setting is recorded but `--restore` never looks at that row. A policy that was
  enabled but could not be verified is not recorded. A task that is already gone keeps its row
  and its script.
- The script looks at the ends of the log first and fetches later: what leaves the log in
  between is lost without a line in the gap log ("between"), and so is what a regrown log
  holds below the checkpoint ("regrown"). Before the first checkpoint nothing is reported
  ("unstarted").
- `Set-Content` truncates first. A death in between leaves an empty state file, which reads as
  `$null` and makes every later query invalid: the script is blind for good ("torn"). A failing
  `Add-Content` does not hold the checkpoint back ("full").

## What is not modelled

- Process attribution and the allowlist (whether a hit is advisory is an input), the
  interop calls' encodings, elevation.
- inotifywait's lines about creation and removal, the failures at startup that
  disable that watcher for good; the modes and the advisory of `windows_atime`; rows with
  no identity or a baseline of 0 from older versions or `--watch-existing-catalog-paths`;
  the two-second window that keeps Honeypath's own open out, which is clock time.
- SSH canary: a `~/.ssh` that is a symlink or no directory, refusals of the inventory (unsafe
  owners, special files), an unsafe recorded backup, the EXDEV fallback, the
  text of the rewritten config and its managed block, identity files outside `~/.ssh`,
  `--dry-run`. The three wrappers are one item, and the user changes wrappers, rc files and
  git only between commands.
- Database failures outside a commit; DrvFS, which decides only whether a write has
  `O_TMPFILE` and exchange.
- The event log file: its rotation can cost a copy when two processes rotate (eventlog.py:223),
  but what it says is in the database.
- The tables' schema and its migration, which runs once under SQLite's own lock.
- Formatting, configuration and argument parsing, reports, `doctor`, `events`, the interactive
  setup, catalog texts, platform and process probes, Pushover's HTTP, the launcher: no state
  of their own that the properties could be about, or compositions of the above.

## Plan

Done: ReadLedger, WinAudit, WinPipeline, Delivery, Shutdown, SafeWrite, CanaryWatch,
SSHCanary with ManagedChanges, WinSetup, WatcherScript, and the proof of every invariant and
every action property that a run checks.

Worth proving next:

1. `StagedIsStored` for several processes and with faults, once the second process takes over
   the new generation of the log (see "Where code and documentation part").
2. The safety halves of the liveness properties: that a row which waits is at all times
   within reach of the next query (`EveryRowRecorded`), that an alert which was accepted is in the
   queue, in flight or settled (`EveryAlertSettled`, `AlertsGoOut`).
3. `RecordedOverChecked` with acts of the user that take away nothing.
