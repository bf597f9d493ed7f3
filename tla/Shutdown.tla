------------------------------ MODULE Shutdown ------------------------------
(***************************************************************************)
(* Monitor.stop (monitor.py) against the threads it has to stop: watchers  *)
(* that may sit in a call that does not return, the alert thread in the    *)
(* middle of a send, and the writer thread with jobs in its queue.         *)
(* Coalescing and delivery policy are in Delivery: here an item is one     *)
(* hit, and what is alerted on, held or suppressed is left open.           *)
(***************************************************************************)
EXTENDS Integers, FiniteSets, Sequences

CONSTANTS
    Watchers,     \* inotify, atime and win-audit threads
    MaxHits,      \* bound: hits the watchers emit
    MaxTimeouts,  \* bound: submit_sync calls that give up waiting
    MaxRaises,    \* bound: dispatches that raise before their insert
    MaxFailures,  \* bound: writer jobs that raise and are rolled back
    WriterMayDie, \* whether the writer thread may end before it is told to
    AlertMayDie   \* whether a send may raise out of the alert thread

ASSUME ShutdownAssumption ==
    /\ MaxHits \in Nat /\ MaxTimeouts \in Nat /\ MaxRaises \in Nat /\ MaxFailures \in Nat
    /\ WriterMayDie \in BOOLEAN /\ AlertMayDie \in BOOLEAN

VARIABLES
    stopping,   \* stop_event
    ws,         \* each watcher: run, busy (inside a call), dead
    hits,       \* Monitor.hits
    main,       \* where the main thread is
    coal,       \* items the coalescer holds
    cur,        \* the hit whose insert submit_sync waits for, 0 for none
    held,       \* the sweep aggregator's buffer
    alertq, sending, alert,  \* alert queue, its thread's current job and state
    handing,    \* the hit whose update submit() has let past its test, 0 for none
    wq, writer,              \* writer queue and thread
    events, delivered,       \* SQLite: recorded hits, those with a delivery record
    logOpen, logged,         \* the event log, and the outcomes written to it
    emitted, sent, left,     \* history: hits, entries sent, watchers left behind
    joined,                  \* history: the alert thread was joined in time
    failed,                  \* history: jobs that raised in the writer thread
    timeouts, raises

mainVars == <<main, coal, cur, held>>
alertVars == <<alertq, sending, handing, alert, logOpen, logged, sent>>
writerVars == <<wq, writer, events, delivered>>
histVars == <<emitted, left, joined, failed, timeouts, raises>>
vars == <<stopping, ws, hits, mainVars, alertVars, writerVars, histVars>>

Stop == [op |-> "stop", hit |-> 0]
NoJob == {}
Sentinel == {}   \* None on the alert queue; a job has at least one entry

Init ==
    /\ stopping = FALSE /\ ws = [w \in Watchers |-> "run"] /\ hits = <<>>
    /\ main = "run" /\ coal = {} /\ cur = 0 /\ held = {}
    /\ alertq = <<>> /\ sending = NoJob /\ handing = 0 /\ alert = "run" /\ logOpen = TRUE /\ logged = {}
    /\ wq = <<>> /\ writer = "run" /\ events = {} /\ delivered = {}
    /\ emitted = 0 /\ sent = {} /\ left = {} /\ joined = FALSE /\ failed = {}
    /\ timeouts = 0 /\ raises = 0
-----------------------------------------------------------------------------
(* Watchers *)

Emit(w) ==
    /\ ws[w] = "run" /\ emitted < MaxHits
    /\ emitted' = emitted + 1
    /\ hits' = Append(hits, emitted + 1)
    /\ UNCHANGED <<stopping, ws, mainVars, alertVars, writerVars, left, joined, failed, timeouts, raises>>

\* The watcher enters or leaves a call it cannot be interrupted in.
Call(w) ==
    /\ ws[w] # "dead"
    /\ ws' = [ws EXCEPT ![w] = IF @ = "run" THEN "busy" ELSE "run"]
    /\ UNCHANGED <<stopping, hits, mainVars, alertVars, writerVars, histVars>>

\* run() sees the stop event.
Die(w) ==
    /\ stopping /\ ws[w] = "run"
    /\ ws' = [ws EXCEPT ![w] = "dead"]
    /\ UNCHANGED <<stopping, hits, mainVars, alertVars, writerVars, histVars>>

Alive == {w \in Watchers : ws[w] # "dead"}
-----------------------------------------------------------------------------
(* Main thread: pump, and the body of stop() *)

Signal ==
    /\ ~stopping /\ stopping' = TRUE
    /\ UNCHANGED <<ws, hits, mainVars, alertVars, writerVars, histVars>>

\* pump, the drain loop and the final drain all feed the coalescer.
TakeHit ==
    /\ main \in {"run", "drain", "empty"} /\ cur = 0 /\ hits # <<>>
    /\ coal' = coal \cup {Head(hits)} /\ hits' = Tail(hits)
    /\ UNCHANGED <<stopping, ws, main, cur, held, alertVars, writerVars, histVars>>

\* _dispatch hands the insert to the writer and waits for it.
Dispatch(h) ==
    /\ main \in {"run", "flush"} /\ cur = 0
    /\ coal' = coal \ {h} /\ cur' = h
    /\ wq' = Append(wq, [op |-> "insert", hit |-> h])
    /\ UNCHANGED <<stopping, ws, hits, main, held, alertVars, writer, events, delivered, histVars>>

\* What _dispatch does with an item once its insert is settled.
Handle(h, row) ==
    /\ cur' = 0
    /\ \/ UNCHANGED <<held, alertq>>
       \/ held' = held \cup {[hit |-> h, row |-> row]} /\ UNCHANGED alertq
       \/ alertq' = Append(alertq, {[hit |-> h, row |-> row]}) /\ UNCHANGED held

\* submit_sync gives up; the insert stays queued.  With no writer it always does.
SubmitTimesOut ==
    /\ cur # 0
    /\ IF writer = "dead" THEN UNCHANGED timeouts
       ELSE timeouts < MaxTimeouts /\ timeouts' = timeouts + 1
    /\ Handle(cur, FALSE)
    /\ UNCHANGED <<stopping, ws, hits, main, coal, sending, handing, alert, logOpen, logged, sent,
                   writerVars, emitted, left, joined, failed, raises>>

\* A burst ends.
Release ==
    /\ held # {} /\ cur = 0 /\ main = "run"
    /\ alertq' = Append(alertq, held) /\ held' = {}
    /\ UNCHANGED <<stopping, ws, hits, main, coal, cur, sending, handing, alert, logOpen, logged, sent,
                   writerVars, histVars>>

\* is_muted() raises: the items that were taken for dispatch are gone.  From the
\* watch loop that leads to stop(); in stop() itself it ends the main thread.
Raise == \E taken \in SUBSET coal :
    /\ main \in {"run", "flush"} /\ cur = 0 /\ raises < MaxRaises /\ raises' = raises + 1
    /\ taken # {} /\ (main = "flush" => taken = coal)
    /\ coal' = coal \ taken
    /\ main' = IF main = "run" THEN "join" ELSE "aborted"
    /\ stopping' = TRUE
    /\ UNCHANGED <<ws, hits, cur, held, alertVars, writerVars, emitted, left, joined, failed, timeouts>>

At(here, next) == main = here /\ cur = 0 /\ main' = next
OnlyMain == UNCHANGED <<stopping, ws, hits, coal, cur, held, alertVars, writerVars, histVars>>

LeaveLoop == stopping /\ At("run", "join") /\ OnlyMain

\* Each join either succeeds or times out.
JoinWatchers == At("join", "drain") /\ OnlyMain

\* Mutant: hits are taken only while producers are alive.
DrainIsEnough == Alive = {} /\ At("drain", "flush") /\ OnlyMain

AllJoined == Alive = {} /\ At("drain", "empty") /\ OnlyMain

\* Mutant: no deadline for a watcher that does not end.
NeverAbandon == FALSE /\ UNCHANGED vars

\* The drain deadline passes with watchers alive.
Abandon ==
    /\ Alive # {} /\ At("drain", "empty")
    /\ left' = Alive
    /\ UNCHANGED <<stopping, ws, hits, coal, cur, held, alertVars, writerVars, emitted, joined,
                   failed, timeouts, raises>>

Emptied == hits = <<>> /\ At("empty", "flush") /\ OnlyMain

Flushed == coal = {} /\ At("flush", "release") /\ OnlyMain

\* Mutant: the burst that is still held is not flushed.
DropHeld == At("release", "wdrain") /\ OnlyMain

FinalRelease ==
    /\ At("release", "wdrain")
    /\ alertq' = IF held = {} THEN alertq ELSE Append(alertq, held)
    /\ held' = {}
    /\ UNCHANGED <<stopping, ws, hits, coal, cur, sending, handing, alert, logOpen, logged, sent,
                   writerVars, histVars>>

WriterDrained == wq = <<>> /\ At("wdrain", "sentinel") /\ OnlyMain

PutSentinel ==
    /\ At("sentinel", "ajoin")
    /\ alertq' = Append(alertq, Sentinel)
    /\ UNCHANGED <<stopping, ws, hits, coal, cur, held, sending, handing, alert, logOpen, logged, sent,
                   writerVars, histVars>>

\* join() comes back whether the thread ended at the sentinel or died before it.
AlertJoined ==
    /\ alert \in {"exited", "dead"} /\ At("ajoin", "wdrain2")
    /\ joined' = TRUE
    /\ UNCHANGED <<stopping, ws, hits, coal, cur, held, alertVars, writerVars, emitted, left,
                   failed, timeouts, raises>>

AlertJoinTimesOut == alert \notin {"exited", "dead"} /\ At("ajoin", "wstop") /\ OnlyMain

\* Mutant: what the alert thread submitted last is not waited for.
SkipSecondDrain == At("wdrain2", "wstop") /\ OnlyMain

SettledDrained == wq = <<>> /\ At("wdrain2", "wstop") /\ OnlyMain

\* WriterQueue.stop: submit() is refused from here on.
StopWriter ==
    /\ At("wstop", "wjoin")
    /\ wq' = Append(wq, Stop)
    /\ UNCHANGED <<stopping, ws, hits, coal, cur, held, alertVars, writer, events, delivered,
                   histVars>>

\* The writer is joined or the join times out; cmd_watch closes the event log.
Finish ==
    /\ At("wjoin", "done")
    /\ logOpen' = FALSE
    /\ UNCHANGED <<stopping, ws, hits, coal, cur, held, alertq, sending, handing, alert, logged, sent,
                   writerVars, histVars>>

WriterStopped == main \in {"wjoin", "done"}
-----------------------------------------------------------------------------
(* Writer thread *)

Commit ==
    LET job == Head(wq) IN
    /\ writer = "run" /\ wq # <<>> /\ wq' = Tail(wq)
    /\ events' = IF job.op = "insert" THEN events \cup {job.hit} ELSE events
    /\ delivered' = IF job.op = "update" THEN delivered \cup {job.hit} ELSE delivered
    /\ writer' = IF job = Stop THEN "exited" ELSE "run"
    /\ IF job.op = "insert" /\ job.hit = cur
       THEN Handle(cur, TRUE) ELSE UNCHANGED <<cur, held, alertq>>
    /\ UNCHANGED <<stopping, ws, hits, main, coal, sending, handing, alert, logOpen, logged, sent,
                   histVars>>

\* A job raises: it is rolled back, submit_sync gets the error, the thread lives on.
JobFails ==
    LET job == Head(wq) IN
    /\ writer = "run" /\ wq # <<>> /\ job # Stop /\ wq' = Tail(wq)
    /\ Cardinality(failed) < MaxFailures /\ failed' = failed \cup {job}
    /\ IF job.op = "insert" /\ job.hit = cur
       THEN Handle(cur, FALSE) ELSE UNCHANGED <<cur, held, alertq>>
    /\ UNCHANGED <<stopping, ws, hits, main, coal, sending, handing, alert, logOpen, logged, sent,
                   writer, events, delivered, emitted, left, joined, timeouts, raises>>

\* The thread ends early: its connection cannot be opened, or the rollback after
\* a failed job raises.  The job of such a rollback is over, but has no result, and
\* submit_sync raises.
WriterDies ==
    /\ WriterMayDie /\ writer = "run" /\ writer' = "dead"
    /\ \/ events = {} /\ delivered = {} /\ UNCHANGED <<wq, cur, held, alertq>>
       \/ /\ wq # <<>> /\ Head(wq) # Stop /\ wq' = Tail(wq)
          /\ IF Head(wq).op = "insert" /\ Head(wq).hit = cur
             THEN Handle(cur, FALSE) ELSE UNCHANGED <<cur, held, alertq>>
    /\ UNCHANGED <<stopping, ws, hits, main, coal, sending, handing, alert, logOpen, logged, sent,
                   events, delivered, histVars>>
-----------------------------------------------------------------------------
(* Alert thread *)

GetJob ==
    /\ alert = "run" /\ sending = NoJob /\ handing = 0 /\ alertq # <<>>
    /\ alertq' = Tail(alertq)
    /\ IF Head(alertq) = Sentinel
       THEN alert' = "exited" /\ UNCHANGED sending
       ELSE sending' = Head(alertq) /\ UNCHANGED alert
    /\ UNCHANGED <<stopping, ws, hits, mainVars, handing, logOpen, logged, sent, writerVars,
                   histVars>>

\* The send is over, delivered or not.
SendReturns ==
    /\ alert = "run" /\ sending # NoJob /\ handing = 0
    /\ alert' = "settle"
    /\ UNCHANGED <<stopping, ws, hits, mainVars, alertq, sending, handing, logOpen, logged, sent,
                   writerVars, histVars>>

\* The send raises what it does not catch.  The loop has no handler: the thread
\* ends, its job with it, and the queue stays as it is.
AlertDies ==
    /\ AlertMayDie /\ alert = "run" /\ sending # NoJob /\ handing = 0
    /\ alert' = "dead" /\ sending' = NoJob
    /\ UNCHANGED <<stopping, ws, hits, mainVars, alertq, handing, logOpen, logged, sent,
                   writerVars, histVars>>

\* Mutant: the delivery record is written by submit_sync.
SettleAndWait(x) ==
    /\ alert = "settle" /\ handing = 0 /\ (x.row => writer = "run")
    /\ sending' = sending \ {x} /\ alert' = IF sending' = NoJob THEN "run" ELSE alert
    /\ sent' = sent \cup {x}
    /\ logged' = IF logOpen THEN logged \cup {x.hit} ELSE logged
    /\ handing' = IF x.row /\ ~WriterStopped THEN x.hit ELSE 0
    /\ UNCHANGED <<stopping, ws, hits, mainVars, alertq, logOpen, writerVars, histVars>>

\* Log the outcome for one of the job's events and submit its delivery record.
\* submit() asks whether the writer was stopped.
Settle(x) ==
    /\ alert = "settle" /\ handing = 0
    /\ sending' = sending \ {x} /\ alert' = IF sending' = NoJob THEN "run" ELSE alert
    /\ sent' = sent \cup {x}
    /\ logged' = IF logOpen THEN logged \cup {x.hit} ELSE logged
    /\ handing' = IF x.row /\ ~WriterStopped THEN x.hit ELSE 0
    /\ UNCHANGED <<stopping, ws, hits, mainVars, alertq, logOpen, writerVars, histVars>>

\* submit() goes on without the lock: WriterQueue.stop may have been in between.
HandIn ==
    /\ handing # 0 /\ handing' = 0
    /\ wq' = Append(wq, [op |-> "update", hit |-> handing])
    /\ UNCHANGED <<stopping, ws, hits, mainVars, alertq, sending, alert, logOpen, logged, sent,
                   writer, events, delivered, histVars>>

MainStep ==
    \/ TakeHit \/ LeaveLoop \/ JoinWatchers \/ AllJoined \/ Abandon \/ Emptied \/ Flushed
    \/ FinalRelease \/ WriterDrained \/ PutSentinel \/ AlertJoined \/ AlertJoinTimesOut
    \/ SettledDrained \/ StopWriter \/ Finish
    \/ \E h \in coal : Dispatch(h)

AlertStep == GetJob \/ SendReturns \/ HandIn \/ \E x \in sending : Settle(x)

Next ==
    \/ MainStep \/ Signal \/ Release \/ SubmitTimesOut \/ Raise
    \/ Commit \/ JobFails \/ WriterDies \/ AlertStep \/ AlertDies
    \/ \E w \in Watchers : Emit(w) \/ Call(w) \/ Die(w)

Spec == Init /\ [][Next]_vars

\* Threads keep being scheduled, a send has a timeout (it returns, unless it raises)
\* and SQLite answers.  A watcher's call need never return; one that keeps returning
\* sees the stop event.
LiveSpec ==
    /\ Spec /\ WF_vars(MainStep) /\ WF_vars(Commit \/ JobFails) /\ WF_vars(AlertStep)
    /\ \A w \in Watchers : SF_vars(Die(w))
-----------------------------------------------------------------------------
(* Properties *)

HitNo == 1 .. MaxHits
Entry == [hit : HitNo, row : BOOLEAN]
Job == [op : {"insert", "update"}, hit : HitNo]

\* Every variable stays in its type.
TypeOK ==
    /\ stopping \in BOOLEAN /\ ws \in [Watchers -> {"run", "busy", "dead"}]
    /\ hits \in Seq(HitNo) /\ coal \subseteq HitNo /\ cur \in 0 .. MaxHits
    /\ cur # 0 => main \in {"run", "flush"}
    /\ main \in {"run", "join", "drain", "empty", "flush", "release", "wdrain", "sentinel",
                 "ajoin", "wdrain2", "wstop", "wjoin", "done", "aborted"}
    /\ held \subseteq Entry /\ sending \subseteq Entry
    /\ alertq \in Seq(SUBSET Entry) /\ handing \in 0 .. MaxHits /\ alert \in {"run", "settle", "exited", "dead"}
    /\ wq \in Seq(Job \cup {Stop}) /\ failed \subseteq Job
    /\ writer \in {"run", "exited", "dead"}
    /\ events \subseteq HitNo /\ delivered \subseteq events
    /\ logOpen \in BOOLEAN /\ logged \subseteq HitNo /\ sent \subseteq Entry
    /\ emitted \in 0 .. MaxHits /\ left \subseteq Watchers /\ joined \in BOOLEAN
    /\ timeouts \in 0 .. MaxTimeouts /\ raises \in 0 .. MaxRaises

\* "On shutdown, watcher producers stop first, queued hits and coalesced events
\* are committed, and only then does alert delivery receive a bounded drain
\* period" (README): unless a watcher had to be left behind, a dispatch raised or
\* the writer thread died, every hit is in the database before the alert thread is
\* told to end, submit timeouts included, but for a hit whose own insert raised and
\* was rolled back.
CommittedBeforeAlertDrain ==
    main \in {"ajoin", "wdrain2", "wstop", "wjoin", "done"} /\ left = {} /\ raises = 0 /\ writer # "dead"
        => \A h \in 1 .. emitted : h \in events \/ [op |-> "insert", hit |-> h] \in failed

\* "A burst still being held at shutdown is flushed, not dropped" (README), and
\* nothing that was accepted for an alert is queued behind the sentinel: what
\* the alert thread leaves behind when it ends there is nothing.  One that died in a
\* send leaves its queue, but the stop still takes no burst with it: from the
\* writer's first drain on none is held.
AlertsDrained ==
    /\ alert = "exited" => held = {} /\ alertq = <<>> /\ sending = NoJob /\ handing = 0
    /\ main \in {"wdrain", "sentinel", "ajoin", "wdrain2", "wstop", "wjoin", "done"} => held = {}

\* A stop that joined the alert thread in time, ended or dead, returns with a delivery
\* record for every event it settled whose id it knew, unless that update raised: no
\* submit() that raced with the stop put its record behind the writer's sentinel.
CleanStopSettles ==
    main = "done" /\ joined /\ writer # "dead" =>
        \A x \in sent : x.row =>
            x.hit \in delivered \/ [op |-> "update", hit |-> x.hit] \in failed

\* stop() returns, or raises what a dispatch raised, whatever the watchers do; only
\* a writer thread that died may keep it in drain().
StopReturns == stopping ~> main \in {"done", "aborted"} \/ writer = "dead"

\* The alert thread waits for nobody: what it was given is sent, or fails, even
\* when the writer thread is gone and while the process is being stopped.  Only a
\* send that raises ends that, for every alert still to come.
Given(h) == \E x \in sending \cup UNION {alertq[i] : i \in DOMAIN alertq} : x.hit = h
AlertsGoOut == \A h \in HitNo : Given(h) ~> alert = "dead" \/ \E x \in sent : x.hit = h

\* Once stop() has returned, the writer and alert threads end, and so does every
\* watcher that is not inside a call: nothing else keeps the process alive.
ThreadsEnd ==
    main = "done" ~> /\ alert \in {"exited", "dead"} /\ writer # "run"
                     /\ \A w \in Watchers : ws[w] # "run"

\* A stop comes to its end, and the process with it.
StopEnds == StopReturns /\ ThreadsEnd
=============================================================================
