---------------------------- MODULE CanaryWatch ----------------------------
(***************************************************************************)
(* The two watchers of one Linux canary: AtimeWatcher, which polls the     *)
(* file's access time and re-arms it, and InotifyWatcher, which reads the  *)
(* lines of an inotifywait process.  Both feed the same queue of hits.     *)
(*                                                                         *)
(* Time is a counter that every read advances.  A file is the identity of  *)
(* its inode, its atime, and whether the kernel will record the next read  *)
(* (under relatime: mtime or ctime is not older than atime).               *)
(*                                                                         *)
(* Only the lines inotifywait writes about reads by others are modelled;   *)
(* those about creation, removal and Honeypath's own opens become hits     *)
(* that stand for no read.                                                 *)
(*                                                                         *)
(* The watchers run beside programs that read, remove and replace the      *)
(* file, a refresh by another Honeypath command, and crashes.              *)
(***************************************************************************)
EXTENDS Integers, Sequences, FiniteSets

CONSTANTS
    Inotify,      \* whether inotifywait is installed and not switched off
    MaxReads,     \* bound: reads by others
    MaxTrouble    \* bound: everything else that happens to the file or the watchers

ASSUME CanaryWatchAssumption ==
    Inotify \in BOOLEAN /\ MaxReads \in Nat /\ MaxTrouble \in Nat

VARIABLES
    strict,   \* strictatime: the kernel records every read
    file,     \* what is at the canary's path
    away,     \* the canary, moved elsewhere by someone
    dir,      \* whether the directory of the canary exists
    row,      \* its row in the manifest: identity and persisted baseline
    clock,
    watch,    \* the AtimeWatcher
    ino,      \* the InotifyWatcher: the process, whether it watches the directory
    lines,    \* what inotifywait has written and nobody has read yet
    jobs,     \* baselines in the writer queue
    sink,     \* hits not yet recorded as events
    used,     \* how much of each bound is used
    foreign,  \* history: the times of reads by others
    pending,  \* history: those no event in the database stands for
    lapse,    \* history: what excuses the AtimeWatcher
    deaf      \* history: whether the InotifyWatcher has an excuse

outside == <<strict, file, away, dir>>
memory == <<watch, ino, lines, jobs, sink>>
history == <<foreign, pending, lapse, deaf>>
vars == <<outside, row, clock, memory, used, history>>

-----------------------------------------------------------------------------
(* The state. *)

NoFile == [id |-> 0, atime |-> 0, armed |-> FALSE]
Down == [at |-> "down", id |-> 0, base |-> 0, missing |-> FALSE, opened |-> 0]
Asleep == [up |-> FALSE, watched |-> FALSE]

\* A canary that has just been created.  Its verification read, at time 1, is
\* the baseline; whether the kernel records the next read depends on the
\* granularity of its clock.
Init ==
    /\ strict \in BOOLEAN
    /\ \E armed \in BOOLEAN :
          /\ strict => armed
          /\ file = [id |-> 1, atime |-> 1, armed |-> armed]
          /\ lapse = IF armed THEN {} ELSE {"created"}
    /\ away = NoFile
    /\ dir = TRUE
    /\ row = [id |-> 1, atime |-> 1]
    /\ clock = 1
    /\ watch = Down
    /\ ino = Asleep
    /\ lines = <<>> /\ jobs = <<>> /\ sink = {}
    /\ used = [reads |-> 0, trouble |-> 0]
    /\ foreign = {} /\ pending = {}
    /\ deaf = ~Inotify

Trouble ==
    /\ used.trouble < MaxTrouble
    /\ used' = [used EXCEPT !.trouble = @ + 1]

Running == watch.at # "down"
Rearming == watch.at \in {"rearm", "utime"}

\* inotifywait writes a line about what happens in a directory it watches.
Heard(time) ==
    /\ lines' = IF ino.up /\ ino.watched THEN Append(lines, time) ELSE lines
    /\ deaf' = (deaf \/ ~ino.up \/ ~ino.watched)

-----------------------------------------------------------------------------
(* What others do to the file. *)

\* Somebody reads the canary.  The kernel records it in the atime when the file
\* is armed, or when the atime is more than a day old.
Read ==
    /\ file.id # 0 /\ used.reads < MaxReads
    /\ used' = [used EXCEPT !.reads = @ + 1]
    /\ clock' = clock + 1
    /\ foreign' = foreign \cup {clock'}
    /\ pending' = pending \cup {clock'}
    /\ \E visible \in BOOLEAN :
          /\ file.armed => visible
          /\ file' = IF visible THEN [file EXCEPT !.atime = clock', !.armed = strict] ELSE file
          /\ lapse' = IF ~visible /\ Rearming THEN lapse \cup {"missed"} ELSE lapse
    /\ Heard(clock')
    /\ UNCHANGED <<strict, away, dir, row, watch, ino, jobs, sink>>

\* Somebody takes the canary away, with or without its directory, and a watch
\* dies with its directory.
Remove ==
    /\ Trouble
    /\ file.id # 0
    /\ file' = NoFile
    /\ away' = file
    /\ dir' \in BOOLEAN
    /\ ino' = [ino EXCEPT !.watched = @ /\ dir']
    /\ lapse' = lapse \cup {"missed"}
    /\ UNCHANGED <<strict, row, clock, watch, lines, jobs, sink, foreign, pending, deaf>>

\* The same inode comes back, or another file takes its place.
Put ==
    /\ Trouble
    /\ file.id = 0
    /\ \/ away.id # 0 /\ file' = away
       \/ file' = [id |-> clock + 1, atime |-> clock + 1, armed |-> TRUE]
    /\ clock' = clock + 1
    /\ away' = NoFile
    /\ dir' = TRUE
    /\ UNCHANGED <<strict, row, watch, ino, lines, jobs, sink, history>>

\* Mutant: the baseline is taken before the verification read.
Refresh_BaselineBeforeRead ==
    /\ Trouble
    /\ file.id # 0 /\ file.id = row.id
    /\ clock' = clock + 1
    /\ \E armed \in BOOLEAN :
          /\ strict => armed
          /\ file' = [id |-> clock', atime |-> clock', armed |-> armed]
          /\ lapse' = lapse \cup (IF armed THEN {} ELSE {"created"})
                            \cup (IF Running THEN {"missed"} ELSE {})
    /\ row' = [id |-> file'.id, atime |-> clock]
    /\ UNCHANGED <<strict, away, dir, watch, ino, lines, jobs, sink, foreign, pending, deaf>>

\* create-canaries --refresh-managed: a new inode, read back to verify it, and
\* a row with the atime after that read.
Refresh ==
    /\ Trouble
    /\ file.id # 0 /\ file.id = row.id
    /\ clock' = clock + 1
    /\ \E armed \in BOOLEAN :
          /\ strict => armed
          /\ file' = [id |-> clock', atime |-> clock', armed |-> armed]
          /\ lapse' = lapse \cup (IF armed THEN {} ELSE {"created"})
                            \cup (IF Running \/ pending # {} THEN {"missed"} ELSE {})
    /\ row' = [id |-> file'.id, atime |-> clock']
    /\ UNCHANGED <<strict, away, dir, watch, ino, lines, jobs, sink, foreign, pending, deaf>>

-----------------------------------------------------------------------------
(* AtimeWatcher. *)

\* The constructor reads the rows once.
StartWatch ==
    /\ ~Running
    /\ watch' = [Down EXCEPT !.at = "poll", !.id = row.id, !.base = row.atime]
    /\ UNCHANGED <<outside, row, clock, ino, lines, jobs, sink, used, history>>

Hit(type, reads) == sink' = sink \cup {[type |-> type, at |-> file.atime, reads |-> reads]}

\* _persist: the job carries the path; whose baseline it is, only the model knows.
Persist(atime) == jobs' = Append(jobs, [atime |-> atime, id |-> watch.id])

IdentityMatches == file.id # 0 /\ file.id = watch.id

\* One path of poll_once.  Gone or replaced is reported once.
PollGone ==
    /\ watch.at = "poll" /\ ~IdentityMatches
    /\ ~watch.missing
    /\ watch' = [watch EXCEPT !.missing = TRUE]
    /\ Hit("gone", {})
    /\ UNCHANGED <<outside, row, clock, ino, lines, jobs, used, history>>

\* Only the original inode clears that state; reads meanwhile are written off.
PollBack ==
    /\ watch.at = "poll" /\ IdentityMatches
    /\ watch.missing
    /\ watch' = [watch EXCEPT !.missing = FALSE, !.base = file.atime]
    /\ Persist(file.atime)
    /\ Hit("recreated", {})
    /\ UNCHANGED <<outside, row, clock, ino, lines, used, history>>

\* The atime advanced: one hit for the reads since the last poll.
PollRead ==
    /\ watch.at = "poll" /\ IdentityMatches /\ ~watch.missing
    /\ file.atime > watch.base
    /\ watch' = [watch EXCEPT !.at = "rearm", !.base = file.atime]
    /\ Persist(file.atime)
    /\ Hit("read", pending)
    /\ UNCHANGED <<outside, row, clock, ino, lines, used, history>>

\* rearm_path: open the file ...
RearmOpen ==
    /\ watch.at = "rearm"
    /\ IF IdentityMatches
       THEN watch' = [watch EXCEPT !.at = "utime", !.opened = file.atime]
       ELSE watch' = [watch EXCEPT !.at = "poll"]
    /\ UNCHANGED <<outside, row, clock, ino, lines, jobs, sink, used, history>>

\* Mutant: the mtime is not moved past the atime.
RearmSet_SameMtime ==
    /\ watch.at = "utime"
    /\ watch' = [watch EXCEPT !.at = "poll", !.opened = 0]
    /\ UNCHANGED <<outside, row, clock, ino, lines, jobs, sink, used, history>>

\* ... and set its mtime past its atime, the atime as it was when opened.  The
\* descriptor follows the inode, wherever its name is now.
RearmSet ==
    /\ watch.at = "utime"
    /\ LET Armed(f) == [f EXCEPT !.atime = watch.opened, !.armed = TRUE] IN
          /\ file' = IF IdentityMatches THEN Armed(file) ELSE file
          /\ away' = IF away.id = watch.id THEN Armed(away) ELSE away
          /\ lapse' = IF IdentityMatches /\ file.atime # watch.opened
                      THEN lapse \cup {"missed"} ELSE lapse
    /\ watch' = [watch EXCEPT !.at = "poll", !.opened = 0]
    /\ UNCHANGED <<strict, dir, row, clock, ino, lines, jobs, sink, used, foreign, pending, deaf>>

\* Another user's file, a read-only mount: a warning in the log.
RearmFails ==
    /\ Rearming /\ Trouble
    /\ watch' = [watch EXCEPT !.at = "poll", !.opened = 0]
    /\ lapse' = IF strict THEN lapse ELSE lapse \cup {"missed"}
    /\ UNCHANGED <<outside, row, clock, ino, lines, jobs, sink, foreign, pending, deaf>>

\* The writer thread: UPDATE canaries SET last_baseline_atime=? WHERE path=?
CommitBaseline ==
    /\ jobs # <<>>
    /\ row' = [row EXCEPT !.atime = Head(jobs).atime]
    /\ jobs' = Tail(jobs)
    /\ lapse' = IF Head(jobs).id # row.id THEN lapse \cup {"overtaken"} ELSE lapse
    /\ UNCHANGED <<outside, clock, watch, ino, lines, sink, used, foreign, pending, deaf>>

-----------------------------------------------------------------------------
(* InotifyWatcher. *)

\* run(): the directories that exist now are watched, until the process ends.
\* With no directory at all the watcher waits; other canaries may have one.
StartInotify ==
    /\ Inotify /\ Running
    /\ ~ino.up /\ lines = <<>>
    /\ ino' = [up |-> TRUE, watched |-> dir]
    /\ UNCHANGED <<outside, row, clock, watch, lines, jobs, sink, used, history>>

\* inotifywait dies; what it wrote can still be read.
InotifyExits ==
    /\ ino.up /\ Trouble
    /\ ino' = Asleep
    /\ UNCHANGED <<outside, row, clock, watch, lines, jobs, sink, history>>

Emit(line) == sink' = sink \cup {[type |-> "inotify", at |-> 0, reads |-> {line}]}

\* Mutant: an event that is not attributed is not emitted.
HandleLine_Throttled ==
    /\ Running /\ lines # <<>>
    /\ lines' = Tail(lines)
    /\ Emit(Head(lines)) \/ sink' = sink
    /\ UNCHANGED <<outside, row, clock, watch, ino, jobs, used, history>>

\* _handle_line
HandleLine ==
    /\ Running /\ lines # <<>>
    /\ lines' = Tail(lines)
    /\ Emit(Head(lines))
    /\ UNCHANGED <<outside, row, clock, watch, ino, jobs, used, history>>

-----------------------------------------------------------------------------
(* The rest of the monitor, and its end. *)

\* A burst of hits becomes an event in the database.
Record ==
    /\ sink # {}
    /\ sink' = {}
    /\ pending' = pending \ UNION {hit.reads : hit \in sink}
    /\ UNCHANGED <<outside, row, clock, watch, ino, lines, jobs, used, foreign, lapse, deaf>>

\* The process dies: hits, lines and jobs are gone.  A read whose baseline was
\* already persisted will not be seen again by the next AtimeWatcher, and a
\* canary that was not re-armed yet stays unarmed.
Crash ==
    /\ Running /\ Trouble
    /\ watch' = Down /\ ino' = Asleep
    /\ lines' = <<>> /\ jobs' = <<>> /\ sink' = {}
    /\ lapse' = IF file.atime <= row.atime /\ (pending # {} \/ Rearming)
                THEN lapse \cup {"missed"} ELSE lapse
    /\ deaf' = TRUE
    /\ UNCHANGED <<outside, row, clock, foreign, pending>>

Poll == PollGone \/ PollBack \/ PollRead \/ RearmOpen \/ RearmSet
Next ==
    \/ Read \/ Remove \/ Put \/ Refresh
    \/ StartWatch \/ Poll \/ RearmFails \/ CommitBaseline
    \/ StartInotify \/ InotifyExits \/ HandleLine
    \/ Record \/ Crash

Spec == Init /\ [][Next]_vars

\* The service is restarted, and its threads keep running.
LiveSpec ==
    /\ Spec
    /\ WF_vars(StartWatch) /\ WF_vars(Poll) /\ WF_vars(CommitBaseline)
    /\ WF_vars(StartInotify) /\ WF_vars(HandleLine) /\ WF_vars(Record)

-----------------------------------------------------------------------------
(* Properties. *)

Times == 1 .. (1 + MaxReads + MaxTrouble)
File == [id: {0} \cup Times, atime: {0} \cup Times, armed: BOOLEAN]

\* Every variable keeps its shape, and nothing of a dead process is left.
TypeOK ==
    /\ strict \in BOOLEAN /\ dir \in BOOLEAN
    /\ file \in File /\ away \in File
    /\ row \in [id: Times, atime: Times]
    /\ clock \in Times
    /\ watch.at \in {"down", "poll", "rearm", "utime"}
    /\ foreign \subseteq Times /\ pending \subseteq foreign
    /\ lapse \subseteq {"created", "missed", "overtaken"}
    /\ deaf \in BOOLEAN
    /\ ~Running => ~ino.up /\ lines = <<>> /\ jobs = <<>> /\ sink = {}

\* Honeypath's own reads of the canary, the verification after it is written
\* and the open that re-arms it, are never reported as an access by the
\* AtimeWatcher, unless the writer thread stored an old baseline over that of
\* a refreshed canary.
NeverReportsItself ==
    "overtaken" \notin lapse => \A hit \in sink : hit.type = "read" => hit.at \in foreign

\* The persisted baseline is never ahead of the canary's atime: the next
\* session would overlook reads.
BaselineNeverAhead == row.id = file.id => row.atime <= file.atime

\* The baseline neither makes Honeypath report itself nor overlook others.
BaselineExact == NeverReportsItself /\ BaselineNeverAhead

\* Reads end up in events, across restarts, unless the canary was away or
\* replaced, could not be re-armed or was created unarmed, a read fell between
\* the poll and its re-arming, or the process died after it had persisted the
\* baseline and before it had recorded the event and re-armed the canary.
ReadsRecorded == pending # {} ~> (pending = {} \/ lapse # {})

\* And reads the AtimeWatcher has an excuse for are recorded all the same if
\* inotifywait was watching the directory when they happened.
BlindOnlyTogether == pending # {} ~> (pending = {} \/ (lapse # {} /\ deaf))

\* A canary that is gone or replaced is reported, unless it comes back first.
GoneReported ==
    (Running /\ ~IdentityMatches /\ ~watch.missing)
        ~> ((\E hit \in sink : hit.type = "gone") \/ IdentityMatches \/ ~Running)

\* What happens to a canary gets reported, reads as well as its disappearance.
WatchersReport == ReadsRecorded /\ GoneReported

=============================================================================
