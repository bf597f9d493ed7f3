---------------------------- MODULE WinPipeline -----------------------------
(***************************************************************************)
(* From the Security log to a recorded event: the watcher of WinAudit, and *)
(* the main and writer threads of Monitor (monitor.py, database.py) that   *)
(* coalesce its hits and consume the inbox in one transaction per event.   *)
(* A process may die at any step.  What happens to a recorded event, its   *)
(* alert, is in Delivery.                                                  *)
(***************************************************************************)
EXTENDS WinAudit

CONSTANTS
    MaxCrashes,  \* bound: deaths of a process
    MaxTimeouts  \* bound: submit_sync calls that give up waiting

ASSUME PipelineAssumption == MaxCrashes \in Nat /\ MaxTimeouts \in Nat

VARIABLES
    main,      \* the main thread: off, running, or inside submit_sync
    coal,      \* the coalescer's pending rows, by path
    wq,        \* the writer thread's FIFO queue of inserts
    crashes, timeouts

mainVars == <<main, coal, wq>>
vars == <<winVars, mainVars, crashes, timeouts>>

NoRows == [c \in Canaries |-> {}]

Init ==
    /\ LogInit /\ DbInit /\ WatchInit
    /\ main = [p \in Procs |-> "off"]
    /\ coal = [p \in Procs |-> NoRows]
    /\ wq = [p \in Procs |-> <<>>]
    /\ crashes = 0 /\ timeouts = 0
-----------------------------------------------------------------------------
\* Monitor.start: the writer, the alert thread and the watchers begin.
StartMain(p) ==
    /\ main[p] = "off" /\ pc[p] \notin {"down", "boot"}
    /\ main' = [main EXCEPT ![p] = "run"]
    /\ UNCHANGED <<winVars, coal, wq, crashes, timeouts>>

\* pump takes one hit and the coalescer merges it with its path's burst.
TakeHit(p) == \E i \in hits[p] :
    /\ main[p] = "run"
    /\ hits' = [hits EXCEPT ![p] = @ \ {i}]
    /\ coal' = [coal EXCEPT ![p][inbox[i].path] = @ \cup {i}]
    /\ UNCHANGED <<logVars, dbVars, pc, last, wgen, first, ret, pageVars, scan, emitted,
                   noted, faults, blind, main, wq, crashes, timeouts>>

\* The dedup window of a path has passed: _dispatch submits its event and waits.
Dispatch(p, c) ==
    /\ main[p] = "run" /\ coal[p][c] # {}
    /\ coal' = [coal EXCEPT ![p][c] = {}]
    /\ wq' = [wq EXCEPT ![p] = Append(@, [path |-> c, ids |-> coal[p][c]])]
    /\ main' = [main EXCEPT ![p] = "wait"]
    /\ UNCHANGED <<winVars, crashes, timeouts>>

\* _dispatch goes on when the job it waits for, the newest one, is answered.
Waits(p) == main[p] = "wait" /\ Len(wq[p]) = 1
Resume(p) == main' = [main EXCEPT ![p] = IF Waits(p) THEN "run" ELSE @]

\* Mutant: the transaction does not ask which rows are still undelivered.
InsertEventAgain(job) ==
    /\ events' = Append(events, job.path)
    /\ inbox' = [i \in RowIds |->
          IF i \in job.ids THEN [inbox[i] EXCEPT !.event = Len(events) + 1] ELSE inbox[i]]
    /\ UNCHANGED <<ckpt, gen>>

\* Mutant: the rows are left for a transaction of their own.
InsertEventUnmarked(job) ==
    /\ events' = Append(events, job.path)
    /\ UNCHANGED <<ckpt, gen, inbox>>

\* record_windows_event_sync's transaction: the rows still undelivered go to a
\* new event; with none left there is no event.
InsertEvent(job) ==
    LET live == job.ids \cap Pending
        n == Len(events) + 1
    IN  IF live = {} THEN UNCHANGED dbVars
        ELSE /\ events' = Append(events, job.path)
             /\ inbox' = [i \in RowIds |->
                            IF i \in live THEN [inbox[i] EXCEPT !.event = n] ELSE inbox[i]]
             /\ UNCHANGED <<ckpt, gen>>

\* The writer thread commits the head of its queue.
WriterCommit(p) ==
    /\ wq[p] # <<>> /\ InsertEvent(Head(wq[p])) /\ Resume(p)
    /\ wq' = [wq EXCEPT ![p] = Tail(@)]
    /\ UNCHANGED <<logVars, watchVars, coal, crashes, timeouts>>

\* SQLite raises: the writer rolls back and _dispatch logs the error.
WriterFails(p) ==
    /\ wq[p] # <<>> /\ faults < MaxFaults
    /\ faults' = faults + 1
    /\ Resume(p)
    /\ wq' = [wq EXCEPT ![p] = Tail(@)]
    /\ UNCHANGED <<logVars, dbVars, pc, last, wgen, first, ret, pageVars, emitVars, noted,
                   blind, coal, crashes, timeouts>>

\* submit_sync gives up; the job stays in the queue.
SubmitTimesOut(p) ==
    /\ main[p] = "wait" /\ timeouts < MaxTimeouts
    /\ timeouts' = timeouts + 1
    /\ main' = [main EXCEPT ![p] = "run"]
    /\ UNCHANGED <<winVars, coal, wq, crashes>>

\* The process dies; what it held in memory is gone.
Crash(p) ==
    /\ pc[p] # "down" /\ crashes < MaxCrashes
    /\ crashes' = crashes + 1
    /\ Goto(p, "down")
    /\ last' = [last EXCEPT ![p] = 0] /\ wgen' = [wgen EXCEPT ![p] = 0]
    /\ first' = [first EXCEPT ![p] = TRUE] /\ ret' = [ret EXCEPT ![p] = "fetch"]
    /\ page' = [page EXCEPT ![p] = {}] /\ staged' = [staged EXCEPT ![p] = FALSE]
    /\ pageEpoch' = [pageEpoch EXCEPT ![p] = 0]
    /\ scan' = [scan EXCEPT ![p] = StartScan]
    /\ hits' = [hits EXCEPT ![p] = {}] /\ emitted' = [emitted EXCEPT ![p] = {}]
    /\ main' = [main EXCEPT ![p] = "off"]
    /\ coal' = [coal EXCEPT ![p] = NoRows]
    /\ wq' = [wq EXCEPT ![p] = <<>>]
    /\ UNCHANGED <<logVars, dbVars, noted, faults, blind, timeouts>>

MonitorStep(p) == StartMain(p) \/ TakeHit(p) \/ WriterCommit(p) \/ \E c \in Canaries : Dispatch(p, c)

Next ==
    \/ (WindowsStep /\ UNCHANGED <<mainVars, crashes, timeouts>>)
    \/ \E p \in Procs :
          \/ (WatcherStep(p) \/ PollFails(p)) /\ UNCHANGED <<mainVars, crashes, timeouts>>
          \/ MonitorStep(p) \/ WriterFails(p) \/ SubmitTimesOut(p) \/ Crash(p)

Spec == Init /\ [][Next]_vars

\* The threads keep being scheduled and systemd restarts a dead watch process.
Fairness == \A p \in Procs :
    /\ WF_vars(WatcherStep(p) /\ UNCHANGED <<mainVars, crashes, timeouts>>)
    /\ WF_vars(StartMain(p)) /\ WF_vars(TakeHit(p)) /\ WF_vars(WriterCommit(p))
    /\ \A c \in Canaries : WF_vars(Dispatch(p, c))

LiveSpec == Spec /\ Fairness
-----------------------------------------------------------------------------
(* Properties *)

Row == [gen : Nat, rid : Nat \ {0}, path : Canaries, epoch : Nat, event : Nat]
Job == [path : Canaries, ids : SUBSET (Nat \ {0})]

LogTyped ==
    /\ oldest \in Nat \ {0} /\ newest \in 0 .. MaxRecord /\ clears \in Nat
    /\ obj \in [RecordId -> Objects] /\ occ \subseteq Nat \X Nat
DbTyped == ckpt \in Nat /\ gen \in Nat /\ inbox \in Seq(Row) /\ events \in Seq(Canaries)
PollTyped ==
    /\ pc \in [Procs -> {"down", "boot", "idle", "emit", "fetch", "rotate", "rewind", "stage"}]
    /\ last \in [Procs -> Nat] /\ wgen \in [Procs -> Nat]
    /\ first \in [Procs -> BOOLEAN] /\ ret \in [Procs -> {"fetch", "idle"}]
    /\ page \in [Procs -> SUBSET [rid : Nat \ {0}, obj : Objects]]
    /\ staged \in [Procs -> BOOLEAN] /\ pageEpoch \in [Procs -> Nat]
    /\ noted \subseteq Nat \X Nat /\ faults \in Nat /\ blind \in Nat
EmitTyped ==
    /\ scan \in [Procs -> [after : Nat, seen : SUBSET (Nat \ {0})]]
    /\ emitted \in [Procs -> SUBSET (Nat \ {0})] /\ hits \in [Procs -> SUBSET (Nat \ {0})]
MainTyped ==
    /\ main \in [Procs -> {"off", "run", "wait"}]
    /\ coal \in [Procs -> [Canaries -> SUBSET (Nat \ {0})]]
    /\ wq \in [Procs -> Seq(Job)]
    /\ crashes \in Nat /\ timeouts \in Nat

\* Every variable stays in its type; in particular the checkpoint, which gap
\* recovery computes from the oldest retained id, never becomes negative.
TypeOK == LogTyped /\ DbTyped /\ PollTyped /\ EmitTyped /\ MainTyped

\* While the log is not cleared, moving the checkpoint never steps over a
\* canary read that the log still holds: all of them up to the durable
\* checkpoint, and up to a watcher's own, are in the inbox.  This is what lets
\* a restart resume from the checkpoint (stage_windows_record, poll_once).
Covered(upTo) == \A i \in Retained :
    i <= upTo /\ obj[i] \in Canaries => <<0, i>> \in StoredReads
RetainedCovered ==
    clears = 0 => /\ Covered(ckpt)
                  /\ \A p \in Procs : pc[p] # "down" => Covered(last[p])

\* An inbox row that has been consumed points at an event of its own path, and
\* every event of the audit pipeline was made from some row: the transaction of
\* record_windows_event_sync never makes an event out of rows that an earlier
\* attempt, or another process, has already turned into one.
ExactlyOnce ==
    /\ \A i \in RowIds : inbox[i].event # 0 =>
          inbox[i].event \in DOMAIN events /\ events[inbox[i].event] = inbox[i].path
    /\ \A e \in DOMAIN events : \E i \in RowIds : inbox[i].event = e

\* A commit of stage_windows_record for a canary read leaves a row for that very
\* read: INSERT OR IGNORE never swallows one because its record id was already
\* used before the log was cleared, as long as one process, whose rotation of the
\* generation does not fail, works on the database.
StagedIsStored == [][\A p \in Procs : \A r \in page[p] :
    StageRecord(p, r) /\ r.obj \in Canaries
        => \E i \in DOMAIN inbox' : inbox'[i].epoch = pageEpoch[p] /\ inbox'[i].rid = r.rid]_vars

\* Within one process a row is put on the queue once, however often the inbox is
\* rescanned while its event is still being recorded (_emitted_inbox_ids).
EmittedOnce == [][\A p \in Procs : \A i \in hits'[p] \ hits[p] :
    /\ \A c \in Canaries : i \notin coal[p][c]
    /\ \A k \in DOMAIN wq[p] : i \notin wq[p][k].ids]_vars

\* "Both watchers report a coverage gap if the Security log has rolled over past
\* the stored checkpoint" (README): a fetch that goes on without a report has
\* missed nothing that was not reported before, but for what left the log between
\* the first fetch of a poll, the one that compares, and its last, and for what a
\* fetch stepped over that got records and no answer to its query for the oldest one.
\* A fetch that got no records and no such answer leaves the comparison to the next
\* poll.  This holds until the log is cleared.
GapAlwaysReported == [][\A p \in Procs : \A a \in Answers(p) :
    /\ FetchRecords(p, a) \/ FetchNothing(p, a)
    /\ clears = 0 /\ last[p] > 0 /\ a.oldest = OldestRecordId
    => Missed \subseteq noted]_vars

\* While polls and writes succeed, every staged read ends up in an event, through
\* any number of deaths of the process that staged it and of timed-out submits.
EveryRowRecorded == \A i \in 1 .. MaxRecord * (MaxClears + 1) :
    (i \in Pending) ~> ((i \in RowIds /\ inbox[i].event # 0) \/ faults > 0)

\* The pipeline implements the ledger of accepted reads: the inbox's rows are
\* the reads, an event's rows are what it took.
Ledger == INSTANCE ReadLedger WITH
    waiting <- {[read |-> i, path |-> inbox[i].path] : i \in Pending},
    taken <- {[reads |-> {i \in RowIds : inbox[i].event = e}, path |-> events[e]] : e \in DOMAIN events}
ImplementsLedger == Ledger!LedgerSpec
=============================================================================
