------------------------------ MODULE WinAudit ------------------------------
(***************************************************************************)
(* WinAuditWatcher (windows_audit.py): the thread that pages through the   *)
(* Windows Security log and stages canary reads in the SQLite inbox        *)
(* (database.py), together with the log it polls and the tables it writes. *)
(* The consumer of the inbox is in WinPipeline.                            *)
(***************************************************************************)
EXTENDS Integers, FiniteSets, Sequences

CONSTANTS
    Procs,       \* `honeypath watch` processes that share one database
    Canaries,    \* object names in path_map
    Other,       \* the object of a 4663 that is no canary
    System,      \* stands for a record that is not a 4663 at all
    MaxEvents,   \* page size of fetch_records and of pending_windows_records
    Capacity,    \* how many records the Security log retains
    MaxRecord,   \* bound: records appended between two clears of the log
    MaxReads,    \* bound: canary reads logged
    MaxClears,   \* bound: times the Security log is cleared
    MaxFaults,   \* bound: polls and writes that raise
    MaxBlind     \* bound: fetches with a query that fails in silence

ASSUME WinAssumption ==
    /\ MaxEvents \in Nat \ {0} /\ Capacity \in Nat \ {0}
    /\ MaxRecord \in Nat /\ MaxClears \in Nat /\ MaxFaults \in Nat
    /\ MaxReads \in Nat /\ MaxBlind \in Nat
    /\ Other \notin Canaries /\ System \notin Canaries /\ Other # System

Objects == Canaries \cup {Other, System}
RecordId == 1 .. MaxRecord

VARIABLES
    \* Security log (Windows): ids oldest..newest are retained
    oldest, newest, obj, clears,
    \* SQLite: checkpoint, log generation, windows_event_inbox, events
    ckpt, gen, inbox, events,
    \* the watcher thread of each process
    pc, last, wgen, first, ret, page, staged, scan, emitted, hits,
    \* history: canary reads that Windows logged; those a gap report owned up
    \* to, or that left the log while a fetch was due that compares nothing, or
    \* before one that could not; the clear-count at which a page was fetched;
    \* faults and fetches with a failing query so far
    occ, noted, pageEpoch, faults, blind

logVars   == <<oldest, newest, obj, clears, occ>>
dbVars    == <<ckpt, gen, inbox, events>>
pageVars  == <<page, staged, pageEpoch>>
emitVars  == <<scan, emitted, hits>>
threadVars == <<pc, last, wgen, first, ret, pageVars, emitVars>>
watchVars == <<threadVars, noted, faults, blind>>
winVars   == <<logVars, dbVars, watchVars>>

Retained == oldest .. newest
OldestRecordId == IF Retained = {} THEN 0 ELSE oldest
NewestRecordId == IF Retained = {} THEN 0 ELSE newest

\* A row is addressed by its position, which is its SQLite id; event = 0 is
\* delivered = 0.
RowIds == DOMAIN inbox
Pending == {i \in RowIds : inbox[i].event = 0}
StoredReads == {<<inbox[i].epoch, inbox[i].rid>> : i \in RowIds}

\* Canary reads that left the log before they were staged.
Missed == {o \in occ : o \notin StoredReads /\ ~(o[1] = clears /\ o[2] \in Retained)}

StartScan == [after |-> 0, seen |-> {}]
-----------------------------------------------------------------------------
LogInit ==
    /\ oldest = 1 /\ newest = 0 /\ clears = 0 /\ occ = {}
    /\ obj = [i \in RecordId |-> System]

DbInit == ckpt = 0 /\ gen = 0 /\ inbox = <<>> /\ events = <<>>

WatchInit ==
    /\ pc = [p \in Procs |-> "down"]
    /\ last = [p \in Procs |-> 0] /\ wgen = [p \in Procs |-> 0]
    /\ first = [p \in Procs |-> TRUE] /\ ret = [p \in Procs |-> "fetch"]
    /\ page = [p \in Procs |-> {}] /\ staged = [p \in Procs |-> FALSE]
    /\ scan = [p \in Procs |-> StartScan]
    /\ emitted = [p \in Procs |-> {}] /\ hits = [p \in Procs |-> {}]
    /\ pageEpoch = [p \in Procs |-> 0] /\ noted = {}
    /\ faults = 0 /\ blind = 0

-----------------------------------------------------------------------------
(* Windows *)

\* The next fetch of p compares no range: p has no checkpoint, or this poll has
\* had its first page and comes back for more.
Unchecked(p) ==
    \/ pc[p] # "down" /\ last[p] = 0
    \/ ~first[p] /\ pc[p] \in {"rewind", "rotate", "fetch"}
    \/ ~first[p] /\ pc[p] \in {"stage", "emit"} /\ ret[p] = "fetch"

\* Reads that leave the log then, or before the first checkpoint.
Forgive(reads) ==
    noted' = IF ckpt = 0 \/ \E p \in Procs : Unchecked(p) THEN noted \cup (reads \cap occ) ELSE noted

\* Windows appends a record and drops the oldest one when the log is full.
LogAppend(o) ==
    /\ newest < MaxRecord /\ (o \in Canaries => Cardinality(occ) < MaxReads)
    /\ newest' = newest + 1
    /\ obj' = [obj EXCEPT ![newest + 1] = o]
    /\ oldest' = IF newest + 1 - oldest >= Capacity THEN oldest + 1 ELSE oldest
    /\ occ' = IF o \in Canaries THEN occ \cup {<<clears, newest + 1>>} ELSE occ
    /\ Forgive({clears} \X (oldest .. oldest' - 1))
    /\ UNCHANGED <<clears, dbVars, threadVars, faults, blind>>

\* An administrator clears the log; ids start again at the record that says so.
LogClear ==
    /\ clears < MaxClears /\ newest > 0 /\ MaxRecord > 0
    /\ clears' = clears + 1
    /\ oldest' = 1 /\ newest' = 1
    /\ obj' = [i \in RecordId |-> System]
    /\ Forgive({clears} \X Retained)
    /\ UNCHANGED <<occ, dbVars, threadVars, faults, blind>>
-----------------------------------------------------------------------------
(* Transactions *)

\* INSERT OR IGNORE under UNIQUE(log_generation, record_id).
InsertRow(g, r, path, epoch) ==
    IF \E i \in RowIds : inbox[i].gen = g /\ inbox[i].rid = r
    THEN UNCHANGED inbox
    ELSE inbox' = Append(inbox, [gen |-> g, rid |-> r, path |-> path,
                                 epoch |-> epoch, event |-> 0])

\* Stage a match, if it is one, and advance the checkpoint: one commit.
StageWindowsRecord(g, r, o, epoch) ==
    /\ IF o \in Canaries THEN InsertRow(g, r, o, epoch) ELSE UNCHANGED inbox
    /\ ckpt' = r
    /\ UNCHANGED <<gen, events>>

\* A new id namespace and a rewound checkpoint: one commit.
RotateWindowsLog(c) == gen' = gen + 1 /\ ckpt' = c /\ UNCHANGED <<inbox, events>>

SetCheckpoint(c) == ckpt' = c /\ UNCHANGED <<gen, inbox, events>>

\* Undelivered rows above an id, oldest first, at most MaxEvents.
PendingWindowsRecords(after) ==
    LET above == {i \in Pending : i > after}
    IN  {i \in above : Cardinality({j \in above : j < i}) < MaxEvents}
-----------------------------------------------------------------------------
(* The watcher thread of process p *)

Goto(p, label) == pc' = [pc EXCEPT ![p] = label]

\* Mutant: a first run starts at the end of the log.
ReadCheckpointAtEnd(p) ==
    /\ pc[p] = "down" /\ Goto(p, "boot")
    /\ last' = [last EXCEPT ![p] = IF ckpt = 0 THEN NewestRecordId ELSE ckpt]
    /\ UNCHANGED <<logVars, dbVars, wgen, first, ret, pageVars, emitVars, noted, faults, blind>>

\* The constructor reads the checkpoint, then the generation.
ReadCheckpoint(p) ==
    /\ pc[p] = "down" /\ Goto(p, "boot")
    /\ last' = [last EXCEPT ![p] = ckpt]
    /\ UNCHANGED <<logVars, dbVars, wgen, first, ret, pageVars, emitVars, noted, faults, blind>>

ReadGeneration(p) ==
    /\ pc[p] = "boot" /\ Goto(p, "idle")
    /\ wgen' = [wgen EXCEPT ![p] = gen]
    /\ UNCHANGED <<logVars, dbVars, last, first, ret, pageVars, emitVars, noted, faults, blind>>

\* Mutant: a poll does not replay the inbox.
BeginPollUnreplayed(p) ==
    /\ pc[p] = "idle" /\ Goto(p, "fetch")
    /\ first' = [first EXCEPT ![p] = TRUE]
    /\ ret' = [ret EXCEPT ![p] = "fetch"]
    /\ UNCHANGED <<logVars, dbVars, last, wgen, pageVars, emitVars, noted, faults, blind>>

\* poll_once starts by replaying the inbox.
BeginPoll(p) ==
    /\ pc[p] = "idle" /\ Goto(p, "emit")
    /\ first' = [first EXCEPT ![p] = TRUE]
    /\ ret' = [ret EXCEPT ![p] = "fetch"]
    /\ UNCHANGED <<logVars, dbVars, last, wgen, pageVars, emitVars, noted, faults, blind>>

\* One query of _emit_pending_inbox.  A full page is followed by another query.
PendingPage(p) == PendingWindowsRecords(scan[p].after)
FullPage(p) == Cardinality(PendingPage(p)) = MaxEvents
QueueFresh(p) == hits' = [hits EXCEPT ![p] = @ \cup (PendingPage(p) \ emitted[p])]

\* Mutant: only the last query's rows count as still pending.
EmitForgettingPages(p) == \E m \in PendingPage(p) :
    /\ pc[p] = "emit" /\ FullPage(p) /\ QueueFresh(p)
    /\ \A i \in PendingPage(p) : i <= m
    /\ emitted' = [emitted EXCEPT ![p] = @ \cup PendingPage(p)]
    /\ scan' = [scan EXCEPT ![p] = [after |-> m, seen |-> {}]]
    /\ UNCHANGED <<logVars, dbVars, pc, last, wgen, first, ret, pageVars, noted, faults, blind>>

EmitPage(p) == \E m \in PendingPage(p) :
    /\ pc[p] = "emit" /\ FullPage(p) /\ QueueFresh(p)
    /\ \A i \in PendingPage(p) : i <= m
    /\ emitted' = [emitted EXCEPT ![p] = @ \cup PendingPage(p)]
    /\ scan' = [scan EXCEPT ![p] = [after |-> m, seen |-> @.seen \cup PendingPage(p)]]
    /\ UNCHANGED <<logVars, dbVars, pc, last, wgen, first, ret, pageVars, noted, faults, blind>>

\* The last query; ids that were not seen pending are forgotten.
EmitLastPage(p) ==
    /\ pc[p] = "emit" /\ ~FullPage(p) /\ QueueFresh(p)
    /\ emitted' = [emitted EXCEPT ![p] = (@ \cup PendingPage(p))
                                          \cap (scan[p].seen \cup PendingPage(p))]
    /\ scan' = [scan EXCEPT ![p] = StartScan]
    /\ Goto(p, ret[p])
    /\ UNCHANGED <<logVars, dbVars, last, wgen, first, ret, pageVars, noted, faults, blind>>

\* What there is to fetch: 4663 records above the checkpoint, oldest first.
Unseen(p) == {i \in Retained : i > last[p] /\ obj[i] # System}
FirstPage(p) == {i \in Unseen(p) : Cardinality({j \in Unseen(p) : j < i}) < MaxEvents}

\* What a fetch answers: its three queries each fail in silence, with no record.
Complete(p) == [ids |-> FirstPage(p), oldest |-> OldestRecordId, newest |-> NewestRecordId]
Answers(p) ==
    {a \in [ids : {FirstPage(p), {}}, oldest : {OldestRecordId, 0}, newest : {NewestRecordId, 0}] :
        a = Complete(p) \/ blind < MaxBlind}
Count(p, a) == blind' = IF a = Complete(p) THEN blind ELSE blind + 1

\* The retained range is compared with the checkpoint on a poll's first page only.
LogReset(p, a) == first[p] /\ last[p] > 0 /\ a.newest > 0 /\ last[p] > a.newest
\* Mutant: a gap of one record is taken for none.
CoverageGapOffByOne(p, a) ==
    \/ first[p] /\ last[p] > 0 /\ a.oldest > last[p] + 2
    \/ LogReset(p, a)
CoverageGap(p, a) ==
    \/ first[p] /\ last[p] > 0 /\ a.oldest > last[p] + 1
    \/ LogReset(p, a)

\* Mutant: the checkpoint may become negative.
FetchGapTooFar(p, a) ==
    /\ pc[p] = "fetch" /\ CoverageGap(p, a) /\ Count(p, a)
    /\ noted' = noted \cup Missed
    /\ last' = [last EXCEPT ![p] = a.oldest - 1]
    /\ first' = [first EXCEPT ![p] = FALSE]
    /\ Goto(p, IF LogReset(p, a) THEN "rotate" ELSE "rewind")
    /\ UNCHANGED <<logVars, dbVars, wgen, ret, pageVars, emitVars, faults>>

\* Report the gap and rewind the in-memory checkpoint; the database follows in
\* a transaction of its own.
FetchGap(p, a) ==
    /\ pc[p] = "fetch" /\ CoverageGap(p, a) /\ Count(p, a)
    /\ noted' = noted \cup Missed
    /\ last' = [last EXCEPT ![p] = IF a.oldest = 0 THEN 0 ELSE a.oldest - 1]
    /\ first' = [first EXCEPT ![p] = FALSE]
    /\ Goto(p, IF LogReset(p, a) THEN "rotate" ELSE "rewind")
    /\ UNCHANGED <<logVars, dbVars, wgen, ret, pageVars, emitVars, faults>>

\* Mutant: rewinds after a reset without a new id namespace.
RotateInPlace(p) ==
    /\ pc[p] = "rotate" /\ Goto(p, "fetch")
    /\ SetCheckpoint(last[p])
    /\ UNCHANGED <<logVars, last, wgen, first, ret, pageVars, emitVars, noted, faults, blind>>

Rotate(p) ==
    /\ pc[p] = "rotate" /\ Goto(p, "fetch")
    /\ RotateWindowsLog(last[p])
    /\ wgen' = [wgen EXCEPT ![p] = gen + 1]
    /\ UNCHANGED <<logVars, last, first, ret, pageVars, emitVars, noted, faults, blind>>

Rewind(p) ==
    /\ pc[p] = "rewind" /\ Goto(p, "fetch")
    /\ SetCheckpoint(last[p])
    /\ UNCHANGED <<logVars, last, wgen, first, ret, pageVars, emitVars, noted, faults, blind>>

\* A page came back; a full one means there may be another.  When the query for the
\* oldest record failed nothing was compared, and what had rolled off is stepped over.
FetchRecords(p, a) ==
    /\ pc[p] = "fetch" /\ ~CoverageGap(p, a) /\ a.ids # {} /\ Count(p, a)
    /\ Goto(p, "stage")
    /\ page' = [page EXCEPT ![p] = {[rid |-> i, obj |-> obj[i]] : i \in a.ids}]
    /\ staged' = [staged EXCEPT ![p] = FALSE]
    /\ pageEpoch' = [pageEpoch EXCEPT ![p] = clears]
    /\ ret' = [ret EXCEPT ![p] = IF Cardinality(a.ids) = MaxEvents THEN "fetch" ELSE "idle"]
    /\ first' = [first EXCEPT ![p] = FALSE]
    /\ noted' = IF a.oldest = OldestRecordId THEN noted ELSE noted \cup Missed
    /\ UNCHANGED <<logVars, dbVars, last, wgen, emitVars, faults>>

FetchNothing(p, a) ==
    /\ pc[p] = "fetch" /\ ~CoverageGap(p, a) /\ a.ids = {} /\ Count(p, a)
    /\ Goto(p, "idle")
    /\ UNCHANGED <<logVars, dbVars, last, wgen, first, ret, pageVars, emitVars, noted, faults>>

\* The record the loop is at: pages are walked in id order.
IsNext(p, r) == r \in page[p] /\ \A s \in page[p] : r.rid <= s.rid

\* Stage it; after the last one, drain the inbox if the page had a match.
StageRecord(p, r) ==
    LET lastOne == page[p] = {r}
        match   == staged[p] \/ r.obj \in Canaries
    IN  /\ pc[p] = "stage" /\ IsNext(p, r)
        /\ StageWindowsRecord(wgen[p], r.rid, r.obj, pageEpoch[p])
        /\ last' = [last EXCEPT ![p] = r.rid]
        /\ page' = [page EXCEPT ![p] = @ \ {r}]
        /\ staged' = [staged EXCEPT ![p] = match /\ ~lastOne]
        /\ pageEpoch' = [pageEpoch EXCEPT ![p] = IF lastOne THEN 0 ELSE @]
        /\ Goto(p, IF ~lastOne THEN "stage" ELSE IF match THEN "emit" ELSE ret[p])
        /\ UNCHANGED <<logVars, wgen, first, ret, emitVars, noted, faults, blind>>

\* PowerShell or SQLite raises: run() logs it and tries again after the interval.
PollFails(p) ==
    /\ pc[p] \in {"emit", "fetch", "rotate", "rewind", "stage"} /\ faults < MaxFaults
    /\ faults' = faults + 1
    /\ Goto(p, "idle")
    /\ page' = [page EXCEPT ![p] = {}]
    /\ staged' = [staged EXCEPT ![p] = FALSE] /\ pageEpoch' = [pageEpoch EXCEPT ![p] = 0]
    /\ scan' = [scan EXCEPT ![p] = StartScan]
    /\ UNCHANGED <<logVars, dbVars, last, wgen, first, ret, emitted, hits, noted, blind>>

WindowsStep == LogClear \/ \E o \in Objects : LogAppend(o)

WatcherStep(p) ==
    \/ ReadCheckpoint(p) \/ ReadGeneration(p) \/ BeginPoll(p) \/ EmitPage(p) \/ EmitLastPage(p)
    \/ \E a \in Answers(p) : FetchGap(p, a) \/ FetchRecords(p, a) \/ FetchNothing(p, a)
    \/ Rotate(p) \/ Rewind(p) \/ \E r \in page[p] : StageRecord(p, r)
=============================================================================
