------------------------- MODULE WinPipeline_proofs -------------------------
(***************************************************************************)
(* The durable Windows inbox, for any number of processes, canaries,       *)
(* records, faults and crashes.                                            *)
(***************************************************************************)
EXTENDS WinPipeline, FiniteSetTheorems, WellFoundedInduction, TLAPS

\* Each of a fetch's three queries gives what there is, or nothing.
LEMMA Answered ==
    ASSUME NEW p \in Procs, NEW a \in Answers(p)
    PROVE  /\ a.ids \in {FirstPage(p), {}}
           /\ a.oldest \in {OldestRecordId, 0} /\ a.newest \in {NewestRecordId, 0}
  BY DEF Answers

\* A type-correct pipeline stays type-correct: the watcher's half.
LEMMA WatcherTyped ==
    ASSUME WinAssumption, TypeOK, NEW p \in Procs, WatcherStep(p) \/ PollFails(p),
           UNCHANGED <<mainVars, crashes, timeouts>>
    PROVE  TypeOK'
<1>0. UNCHANGED <<mainVars, crashes, timeouts>> => MainTyped' BY DEF TypeOK, MainTyped, mainVars
<1> USE WinAssumption, <1>0 DEF TypeOK, logVars, dbVars, pageVars, emitVars, Goto
<1> USE DEF LogTyped, DbTyped, PollTyped, EmitTyped
<1>1. CASE ReadCheckpoint(p) BY <1>1 DEF ReadCheckpoint
<1>2. CASE ReadGeneration(p) BY <1>2 DEF ReadGeneration
<1>3. CASE BeginPoll(p) BY <1>3 DEF BeginPoll
<1>4. PendingPage(p) \subseteq Nat \ {0}
  BY DEF PendingPage, PendingWindowsRecords, Pending, RowIds
<1>5. CASE EmitPage(p)
  <2>1. PICK m \in PendingPage(p) :
          /\ emitted' = [emitted EXCEPT ![p] = @ \cup PendingPage(p)]
          /\ scan' = [scan EXCEPT ![p] = [after |-> m, seen |-> @.seen \cup PendingPage(p)]]
    BY <1>5 DEF EmitPage
  <2>2. scan[p].seen \cup PendingPage(p) \in SUBSET (Nat \ {0}) BY <1>4
  <2>3. scan' \in [Procs -> [after : Nat, seen : SUBSET (Nat \ {0})]] BY <1>4, <2>1, <2>2
  <2>4. emitted' \in [Procs -> SUBSET (Nat \ {0})] BY <1>4, <2>1
  <2>5. hits' \in [Procs -> SUBSET (Nat \ {0})] BY <1>4, <1>5 DEF EmitPage, QueueFresh
  <2>6. EmitTyped' BY <2>3, <2>4, <2>5
  <2> QED BY <1>5, <2>6 DEF EmitPage
<1>6. CASE EmitLastPage(p) BY <1>4, <1>6 DEF EmitLastPage, QueueFresh, StartScan
<1>7. ASSUME NEW a \in Answers(p), FetchGap(p, a) PROVE TypeOK'
  <2>0. a.oldest \in {OldestRecordId, 0} BY Answered
  <2>1. a.oldest \in Nat
    <3>1. OldestRecordId \in Nat BY DEF OldestRecordId
    <3> QED BY <2>0, <3>1
  <2>2. (IF a.oldest = 0 THEN 0 ELSE a.oldest - 1) \in Nat BY <2>1
  <2>3. last' \in [Procs -> Nat] BY <1>7, <2>2 DEF FetchGap
  <2>4. noted' \subseteq Nat \X Nat BY <1>7 DEF FetchGap, Missed
  <2> QED BY <1>7, <2>3, <2>4 DEF FetchGap, Count
<1>8. CASE Rotate(p)
  <2>1. DbTyped' BY <1>8 DEF Rotate, RotateWindowsLog
  <2>2. PollTyped' BY <1>8 DEF Rotate
  <2> QED BY <1>8, <2>1, <2>2 DEF Rotate
<1>9. CASE Rewind(p) BY <1>9 DEF Rewind, SetCheckpoint
<1>10. ASSUME NEW a \in Answers(p), FetchRecords(p, a) PROVE TypeOK'
  <2>a. a.ids = FirstPage(p) BY <1>10, Answered DEF FetchRecords
  <2>1. \A i \in FirstPage(p) : i \in Nat \ {0} /\ i \in Retained
    BY DEF FirstPage, Unseen, Retained
  <2>2. \A i \in FirstPage(p) : obj[i] \in Objects
    BY <2>1 DEF Retained, RecordId, WinAssumption
  <2>3. {[rid |-> i, obj |-> obj[i]] : i \in FirstPage(p)} \subseteq [rid : Nat \ {0}, obj : Objects]
    BY <2>1, <2>2
  <2>4. page' \in [Procs -> SUBSET [rid : Nat \ {0}, obj : Objects]]
    BY <1>10, <2>3, <2>a DEF FetchRecords
  <2>b. noted' \subseteq Nat \X Nat BY <1>10 DEF FetchRecords, Missed
  <2>5. PollTyped' BY <1>10, <2>4, <2>b DEF FetchRecords, Count
  <2> QED BY <1>10, <2>5 DEF FetchRecords
<1>11. ASSUME NEW a \in Answers(p), FetchNothing(p, a) PROVE TypeOK' BY <1>11 DEF FetchNothing, Count
<1>12. CASE \E r \in page[p] : StageRecord(p, r)
  <2>1. PICK r \in page[p] : StageRecord(p, r) BY <1>12
  <2>2. r.rid \in Nat \ {0} /\ r.obj \in Objects OBVIOUS
  <2> DEFINE row == [gen |-> wgen[p], rid |-> r.rid, path |-> r.obj,
                     epoch |-> pageEpoch[p], event |-> 0]
  <2>a. r.obj \in Canaries => row \in Row BY <2>2 DEF Row
  <2>b. inbox' = inbox \/ (r.obj \in Canaries /\ inbox' = Append(inbox, row))
    BY <2>1 DEF StageRecord, StageWindowsRecord, InsertRow
  <2>3. inbox' \in Seq(Row)
    <3>1. inbox \in Seq(Row) OBVIOUS
    <3>2. CASE inbox' = inbox BY <3>1, <3>2
    <3>3. CASE r.obj \in Canaries /\ inbox' = Append(inbox, row)
      <4> HIDE DEF row
      <4>1. row \in Row BY <2>a, <3>3
      <4> QED BY <3>1, <3>3, <4>1
    <3> QED BY <2>b, <3>2, <3>3
  <2>4. ckpt' \in Nat /\ UNCHANGED <<gen, events>>
    BY <2>1, <2>2 DEF StageRecord, StageWindowsRecord
  <2>5. PollTyped' BY <2>1, <2>2 DEF StageRecord
  <2> QED BY <2>1, <2>3, <2>4, <2>5 DEF StageRecord
<1>13. CASE PollFails(p)
  <2>1. EmitTyped' BY <1>13 DEF PollFails, StartScan
  <2>2. PollTyped' BY <1>13 DEF PollFails
  <2> QED BY <1>13, <2>1, <2>2 DEF PollFails
<1> QED
  BY <1>1, <1>2, <1>3, <1>5, <1>6, <1>7, <1>8, <1>9, <1>10, <1>11, <1>12, <1>13 DEF WatcherStep

\* Appending to the Security log or clearing it keeps the types.
LEMMA WindowsTyped ==
    ASSUME WinAssumption, TypeOK, WindowsStep, UNCHANGED <<mainVars, crashes, timeouts>>
    PROVE  TypeOK'
<1>0. MainTyped' BY DEF TypeOK, MainTyped, mainVars
<1> USE WinAssumption, <1>0 DEF TypeOK, dbVars, pageVars, emitVars, threadVars, Forgive, RecordId
<1> USE DEF LogTyped, DbTyped, PollTyped, EmitTyped
<1>1. CASE LogClear BY <1>1 DEF LogClear, Objects
<1>2. CASE \E o \in Objects : LogAppend(o)
  <2>1. PICK o \in Objects : LogAppend(o) BY <1>2
  <2>2. oldest' \in Nat \ {0} BY <2>1 DEF LogAppend
  <2>3. newest' \in 0 .. MaxRecord BY <2>1 DEF LogAppend
  <2>4. obj' \in [RecordId -> Objects] BY <2>1 DEF LogAppend
  <2>5. occ' \subseteq Nat \X Nat BY <2>1 DEF LogAppend
  <2>6. noted' \subseteq Nat \X Nat BY <2>1 DEF LogAppend
  <2> QED BY <2>1, <2>2, <2>3, <2>4, <2>5, <2>6 DEF LogAppend
<1> QED BY <1>1, <1>2 DEF WindowsStep

\* The transaction that consumes rows keeps the tables typed.
LEMMA InsertEventTyped ==
    ASSUME TypeOK, NEW job \in Job, InsertEvent(job)
    PROVE  inbox' \in Seq(Row) /\ events' \in Seq(Canaries) /\ UNCHANGED <<ckpt, gen>>
<1> DEFINE live == job.ids \cap Pending
<1> USE DEF TypeOK, DbTyped
<1>1. CASE live = {} BY <1>1 DEF InsertEvent, dbVars
<1>2. CASE live # {}
  <2>1. inbox' = [i \in RowIds |->
           IF i \in live THEN [inbox[i] EXCEPT !.event = Len(events) + 1] ELSE inbox[i]]
    BY <1>2 DEF InsertEvent
  <2>2. ASSUME NEW i \in RowIds PROVE inbox'[i] \in Row
    <3>1. inbox[i] \in Row /\ Len(events) + 1 \in Nat BY DEF RowIds
    <3>2. [inbox[i] EXCEPT !.event = Len(events) + 1] \in Row BY <3>1 DEF Row
    <3> QED BY <2>1, <3>1, <3>2
  <2>3. Len(inbox) \in Nat /\ RowIds = 1 .. Len(inbox) BY DEF RowIds
  <2>4. inbox' \in [1 .. Len(inbox) -> Row] BY <2>1, <2>2, <2>3
  <2>5. inbox' \in Seq(Row) BY <2>3, <2>4
  <2>6. events' = Append(events, job.path) /\ UNCHANGED <<ckpt, gen>> /\ job.path \in Canaries
    BY <1>2 DEF InsertEvent, Job
  <2> QED BY <2>5, <2>6
<1> QED BY <1>1, <1>2

\* The main and writer threads, and a death, keep the types.
LEMMA MonitorTyped ==
    ASSUME PipelineAssumption, TypeOK, NEW p \in Procs,
           MonitorStep(p) \/ WriterFails(p) \/ SubmitTimesOut(p) \/ Crash(p)
    PROVE  TypeOK'
<1> USE DEF TypeOK, winVars, logVars, dbVars, pageVars, emitVars, threadVars, watchVars
<1> USE DEF LogTyped, DbTyped, PollTyped, EmitTyped, MainTyped
<1>1. CASE StartMain(p) BY <1>1 DEF StartMain
<1>2. CASE TakeHit(p)
  <2>1. PICK i \in hits[p] :
          /\ hits' = [hits EXCEPT ![p] = @ \ {i}]
          /\ coal' = [coal EXCEPT ![p][inbox[i].path] = @ \cup {i}]
    BY <1>2 DEF TakeHit
  <2>2. coal' \in [Procs -> [Canaries -> SUBSET (Nat \ {0})]]
    <3>1. coal[p] \in [Canaries -> SUBSET (Nat \ {0})] /\ i \in Nat \ {0} OBVIOUS
    <3>2. [coal[p] EXCEPT ![inbox[i].path] = @ \cup {i}] \in [Canaries -> SUBSET (Nat \ {0})]
      BY <3>1
    <3> QED BY <2>1, <3>2
  <2>3. hits' \in [Procs -> SUBSET (Nat \ {0})] BY <2>1
  <2> QED BY <1>2, <2>2, <2>3 DEF TakeHit
<1>3. CASE WriterCommit(p)
  <2>1. Head(wq[p]) \in Job BY <1>3 DEF WriterCommit
  <2>2. inbox' \in Seq(Row) /\ events' \in Seq(Canaries) /\ UNCHANGED <<ckpt, gen>>
    BY <1>3, <2>1, InsertEventTyped DEF WriterCommit
  <2>3. wq' \in [Procs -> Seq(Job)] BY <1>3 DEF WriterCommit
  <2>4. main' \in [Procs -> {"off", "run", "wait"}] BY <1>3 DEF WriterCommit, Resume
  <2> QED BY <1>3, <2>2, <2>3, <2>4 DEF WriterCommit
<1>4. CASE \E c \in Canaries : Dispatch(p, c)
  <2>1. PICK c \in Canaries :
          /\ coal' = [coal EXCEPT ![p][c] = {}]
          /\ wq' = [wq EXCEPT ![p] = Append(@, [path |-> c, ids |-> coal[p][c]])]
          /\ main' = [main EXCEPT ![p] = "wait"]
          /\ UNCHANGED <<winVars, crashes, timeouts>>
    BY <1>4 DEF Dispatch
  <2>2. [path |-> c, ids |-> coal[p][c]] \in Job BY DEF Job
  <2>3. wq' \in [Procs -> Seq(Job)] BY <2>1, <2>2
  <2> QED BY <2>1, <2>3
<1>5. CASE WriterFails(p)
  <2>1. wq' \in [Procs -> Seq(Job)] BY <1>5 DEF WriterFails
  <2>2. main' \in [Procs -> {"off", "run", "wait"}] BY <1>5 DEF WriterFails, Resume
  <2>3. MainTyped' BY <1>5, <2>1, <2>2 DEF WriterFails
  <2>4. PollTyped' BY <1>5 DEF WriterFails
  <2> QED BY <1>5, <2>3, <2>4 DEF WriterFails
<1>6. CASE SubmitTimesOut(p)
  <2>1. MainTyped' BY <1>6 DEF SubmitTimesOut
  <2> QED BY <1>6, <2>1 DEF SubmitTimesOut
<1>7. CASE Crash(p)
  <2>1. MainTyped'
    <3>1. coal' \in [Procs -> [Canaries -> SUBSET (Nat \ {0})]] BY <1>7 DEF Crash, NoRows
    <3>2. wq' \in [Procs -> Seq(Job)] BY <1>7 DEF Crash
    <3>3. main' \in [Procs -> {"off", "run", "wait"}] BY <1>7 DEF Crash
    <3> QED BY <1>7, <3>1, <3>2, <3>3 DEF Crash
  <2>2. PollTyped' BY <1>7 DEF Crash, Goto
  <2>3. EmitTyped' BY <1>7 DEF Crash, StartScan
  <2> QED BY <1>7, <2>1, <2>2, <2>3 DEF Crash
<1> QED BY <1>1, <1>2, <1>3, <1>4, <1>5, <1>6, <1>7 DEF MonitorStep

\* Every reachable state is type-correct, whatever the bounds.
THEOREM TypeCorrect == ASSUME WinAssumption, PipelineAssumption PROVE Spec => []TypeOK
<1>1. Init => TypeOK
  BY WinAssumption DEF Init, LogInit, DbInit, WatchInit, TypeOK, LogTyped, DbTyped, PollTyped, EmitTyped,
                       MainTyped, RecordId, Objects, StartScan, NoRows
<1>2. TypeOK /\ [Next]_vars => TypeOK'
  <2> SUFFICES ASSUME TypeOK, [Next]_vars PROVE TypeOK' OBVIOUS
  <2>1. CASE WindowsStep /\ UNCHANGED <<mainVars, crashes, timeouts>> BY <2>1, WindowsTyped
  <2>2. ASSUME NEW p \in Procs, WatcherStep(p) \/ PollFails(p),
               UNCHANGED <<mainVars, crashes, timeouts>>
        PROVE  TypeOK'
    BY <2>2, WatcherTyped
  <2>3. ASSUME NEW p \in Procs, MonitorStep(p) \/ WriterFails(p) \/ SubmitTimesOut(p) \/ Crash(p)
        PROVE  TypeOK'
    BY <2>3, MonitorTyped
  <2>4. CASE UNCHANGED vars
    BY <2>4 DEF vars, TypeOK, LogTyped, DbTyped, PollTyped, EmitTyped, MainTyped, winVars, logVars, dbVars, pageVars, emitVars, threadVars, watchVars, mainVars
  <2> QED BY <2>1, <2>2, <2>3, <2>4 DEF Next
<1> QED BY <1>1, <1>2, PTL DEF Spec

-----------------------------------------------------------------------------
(* What a step does to the two tables of the audit pipeline: nothing, one new *)
(* row, or one new event that takes waiting rows of its own path.            *)

\* What is queued in a process are rows of the inbox, filed under their path.
Queued ==
    \A p \in Procs :
      /\ hits[p] \subseteq RowIds
      /\ \A c \in Canaries : \A i \in coal[p][c] : i \in RowIds /\ inbox[i].path = c
      /\ \A k \in DOMAIN wq[p] : \A i \in wq[p][k].ids :
            i \in RowIds /\ inbox[i].path = wq[p][k].path

SameTables == UNCHANGED <<inbox, events>>
NewRow == /\ \E row \in Row : row.event = 0 /\ inbox' = Append(inbox, row)
          /\ UNCHANGED events
Consumes(live, path) ==
    /\ live # {} /\ live \subseteq Pending /\ path \in Canaries
    /\ \A i \in live : inbox[i].path = path
    /\ events' = Append(events, path)
    /\ inbox' = [i \in RowIds |-> IF i \in live THEN [inbox[i] EXCEPT !.event = Len(events) + 1]
                                                ELSE inbox[i]]
NewEvent == \E live \in SUBSET RowIds, path \in Canaries : Consumes(live, path)

\* Every step does one of these three things to the tables.
LEMMA TableStep ==
    ASSUME TypeOK, Queued, [Next]_vars
    PROVE  SameTables \/ NewRow \/ NewEvent
<1>1. CASE WindowsStep BY <1>1 DEF WindowsStep, LogClear, LogAppend, dbVars, SameTables
<1>2. ASSUME NEW p \in Procs, WatcherStep(p) \/ PollFails(p) PROVE SameTables \/ NewRow
  <2>1. CASE \E r \in page[p] : StageRecord(p, r)
    <3>1. PICK r \in page[p] : StageRecord(p, r) BY <2>1
    <3>2. r.rid \in Nat \ {0} /\ wgen[p] \in Nat /\ pageEpoch[p] \in Nat
      BY <1>2 DEF TypeOK, PollTyped
    <3> DEFINE row == [gen |-> wgen[p], rid |-> r.rid, path |-> r.obj,
                       epoch |-> pageEpoch[p], event |-> 0]
    <3>3. r.obj \in Canaries => row \in Row /\ row.event = 0 BY <3>2 DEF Row
    <3>4. UNCHANGED events /\ (inbox' = inbox \/ (r.obj \in Canaries /\ inbox' = Append(inbox, row)))
      BY <3>1 DEF StageRecord, StageWindowsRecord, InsertRow
    <3> HIDE DEF row
    <3> QED BY <3>3, <3>4 DEF SameTables, NewRow
  <2>2. CASE ~\E r \in page[p] : StageRecord(p, r)
    BY <1>2, <2>2 DEF WatcherStep, ReadCheckpoint, ReadGeneration, BeginPoll, EmitPage, EmitLastPage,
       FetchGap, Rotate, RotateWindowsLog, Rewind, SetCheckpoint, FetchRecords, FetchNothing,
       PollFails, dbVars, SameTables
  <2> QED BY <2>1, <2>2
<1>3. ASSUME NEW p \in Procs, MonitorStep(p) \/ WriterFails(p) \/ SubmitTimesOut(p) \/ Crash(p)
      PROVE  SameTables \/ NewEvent
  <2>1. CASE WriterCommit(p)
    <3> DEFINE job == Head(wq[p])
               live == job.ids \cap Pending
    <3>1. wq[p] \in Seq(Job) /\ wq[p] # <<>> /\ InsertEvent(job)
      BY <1>3, <2>1 DEF WriterCommit, TypeOK, MainTyped
    <3>2. job = wq[p][1] /\ 1 \in DOMAIN wq[p] /\ job \in Job BY <3>1
    <3>3. \A i \in job.ids : i \in RowIds /\ inbox[i].path = job.path
      BY <1>3, <3>2 DEF Queued
    <3>4. CASE live = {} BY <3>1, <3>4 DEF InsertEvent, dbVars, SameTables
    <3>5. CASE live # {}
      <4>1. job.path \in Canaries BY <3>2 DEF Job
      <4>2. live \subseteq Pending /\ live \in SUBSET RowIds BY DEF Pending
      <4>3. events' = Append(events, job.path)
        BY <3>1, <3>5 DEF InsertEvent
      <4>4. inbox' = [i \in RowIds |-> IF i \in live THEN [inbox[i] EXCEPT !.event = Len(events) + 1]
                                              ELSE inbox[i]]
        BY <3>1, <3>5 DEF InsertEvent
      <4>5. \A i \in live : inbox[i].path = job.path BY <3>3
      <4>6. Consumes(live, job.path) BY <3>5, <4>1, <4>2, <4>3, <4>4, <4>5 DEF Consumes
      <4> QED BY <4>1, <4>2, <4>6 DEF NewEvent
    <3> QED BY <3>4, <3>5
  <2>2. CASE ~WriterCommit(p)
    BY <1>3, <2>2 DEF MonitorStep, StartMain, TakeHit, Dispatch, WriterFails, SubmitTimesOut, Crash,
       winVars, dbVars, SameTables
  <2> QED BY <2>1, <2>2
<1>4. CASE UNCHANGED vars BY <1>4 DEF vars, winVars, dbVars, SameTables
<1> QED BY <1>1, <1>2, <1>3, <1>4 DEF Next

SameRead(row, old) ==
    row.path = old.path /\ row.rid = old.rid /\ row.epoch = old.epoch /\ row.gen = old.gen

\* Rows are never removed, renumbered or filed under another path or read.
LEMMA RowsStay ==
    ASSUME TypeOK, SameTables \/ NewRow \/ NewEvent
    PROVE  \A i \in RowIds : i \in RowIds' /\ SameRead(inbox'[i], inbox[i])
<1> USE DEF SameRead
<1>1. CASE SameTables BY <1>1 DEF SameTables, RowIds
<1>2. CASE NewRow
  <2>1. PICK row \in Row : inbox' = Append(inbox, row) BY <1>2 DEF NewRow
  <2>2. inbox \in Seq(Row) BY DEF TypeOK, DbTyped
  <2> QED BY <2>1, <2>2 DEF RowIds
<1>3. CASE NewEvent
  <2>1. PICK live \in SUBSET RowIds, path \in Canaries : Consumes(live, path) BY <1>3 DEF NewEvent
  <2>2. inbox \in Seq(Row) BY DEF TypeOK, DbTyped
  <2>3. ASSUME NEW i \in RowIds PROVE i \in RowIds' /\ SameRead(inbox'[i], inbox[i])
    <3>1. inbox[i] \in Row BY <2>2 DEF RowIds
    <3>2. SameRead([inbox[i] EXCEPT !.event = Len(events) + 1], inbox[i]) BY <3>1 DEF Row
    <3> QED BY <2>1, <3>2 DEF Consumes, RowIds
  <2> QED BY <2>3
<1> QED BY <1>1, <1>2, <1>3

\* Queues whose entries come from the old ones, or are pending rows, or move
\* from hits to the coalescer to a job, stay well filed.
LEMMA QueuedStep ==
    ASSUME TypeOK, Queued, [Next]_vars
    PROVE  Queued'
<1>1. SameTables \/ NewRow \/ NewEvent BY TableStep
<1>2. \A i \in RowIds : i \in RowIds' /\ inbox'[i].path = inbox[i].path BY <1>1, RowsStay DEF SameRead
<1>3. hits \in [Procs -> SUBSET (Nat \ {0})] /\ coal \in [Procs -> [Canaries -> SUBSET (Nat \ {0})]]
      /\ wq \in [Procs -> Seq(Job)]
  BY DEF TypeOK, EmitTyped, MainTyped
<1>4. CASE UNCHANGED <<hits, coal, wq>> BY <1>2, <1>4 DEF Queued
<1>5. ASSUME NEW p \in Procs, QueueFresh(p), UNCHANGED <<coal, wq>> PROVE Queued'
  <2>1. PendingPage(p) \subseteq RowIds BY DEF PendingPage, PendingWindowsRecords, Pending
  <2> QED BY <1>2, <1>3, <1>5, <2>1 DEF Queued, QueueFresh
<1>6. ASSUME NEW p \in Procs, TakeHit(p) PROVE Queued'
  <2>1. PICK i \in hits[p] :
          /\ hits' = [hits EXCEPT ![p] = @ \ {i}]
          /\ coal' = [coal EXCEPT ![p][inbox[i].path] = @ \cup {i}]
          /\ wq' = wq
    BY <1>6 DEF TakeHit
  <2>2. i \in RowIds BY DEF Queued
  <2>3. ASSUME NEW q \in Procs, NEW c \in Canaries, NEW j \in coal'[q][c]
        PROVE  j \in RowIds' /\ inbox'[j].path = c
    <3>1. CASE j \in coal[q][c] BY <1>2, <3>1 DEF Queued
    <3>2. CASE j \notin coal[q][c]
      <4>1. q = p /\ c = inbox[i].path /\ j = i BY <1>3, <2>1, <3>2
      <4> QED BY <1>2, <2>2, <4>1
    <3> QED BY <3>1, <3>2
  <2>4. \A q \in Procs : hits'[q] \subseteq hits[q] BY <1>3, <2>1
  <2> QED BY <1>2, <2>1, <2>3, <2>4 DEF Queued
<1>7. ASSUME NEW p \in Procs, NEW c \in Canaries, Dispatch(p, c) PROVE Queued'
  <2>1. /\ coal' = [coal EXCEPT ![p][c] = {}]
        /\ wq' = [wq EXCEPT ![p] = Append(@, [path |-> c, ids |-> coal[p][c]])]
        /\ hits' = hits
    BY <1>7 DEF Dispatch, winVars, watchVars, threadVars, emitVars
  <2>2. \A q \in Procs, d \in Canaries : coal'[q][d] \subseteq coal[q][d] BY <1>3, <2>1
  <2>3. ASSUME NEW q \in Procs, NEW k \in DOMAIN wq'[q], NEW i \in wq'[q][k].ids
        PROVE  i \in RowIds' /\ inbox'[i].path = wq'[q][k].path
    <3>1. CASE k \in DOMAIN wq[q] /\ wq'[q][k] = wq[q][k] BY <1>2, <3>1 DEF Queued
    <3>2. CASE q = p /\ wq'[q][k].ids = coal[p][c] /\ wq'[q][k].path = c
      BY <1>2, <3>2 DEF Queued
    <3>3. CASE q # p BY <1>3, <2>1, <3>1, <3>3
    <3>4. CASE q = p
      <4> DEFINE job == [path |-> c, ids |-> coal[p][c]]
      <4>1. job.ids = coal[p][c] /\ job.path = c OBVIOUS
      <4> HIDE DEF job
      <4>2. wq[p] \in Seq(Job) /\ wq'[p] = Append(wq[p], job) BY <1>3, <2>1 DEF job
      <4>3. (wq'[p][k] = wq[p][k] /\ k \in DOMAIN wq[p]) \/ wq'[p][k] = job
        BY <3>4, <4>2
      <4> QED BY <3>1, <3>2, <3>4, <4>1, <4>3
    <3> QED BY <3>3, <3>4
  <2> QED BY <1>2, <2>1, <2>2, <2>3 DEF Queued
<1>8. ASSUME NEW p \in Procs, wq[p] # <<>>, wq' = [wq EXCEPT ![p] = Tail(@)],
             UNCHANGED <<hits, coal>>
      PROVE  Queued'
  <2>1. ASSUME NEW q \in Procs, NEW k \in DOMAIN wq'[q]
        PROVE  \E m \in DOMAIN wq[q] : wq'[q][k] = wq[q][m]
    <3>1. wq[q] \in Seq(Job) BY <1>3
    <3>2. CASE q = p
      <4>1. k + 1 \in DOMAIN wq[q] /\ wq'[q][k] = wq[q][k + 1] BY <1>3, <1>8, <3>1, <3>2
      <4> QED BY <4>1
    <3>3. CASE q # p BY <1>3, <1>8, <3>3
    <3> QED BY <3>2, <3>3
  <2> QED BY <1>2, <1>8, <2>1 DEF Queued
<1>9. ASSUME NEW p \in Procs, Crash(p) PROVE Queued'
  <2>1. \A q \in Procs : hits'[q] \subseteq hits[q] /\ wq'[q] \in {wq[q], <<>>}
    BY <1>3, <1>9 DEF Crash
  <2>2. \A q \in Procs, d \in Canaries : coal'[q][d] \subseteq coal[q][d]
    BY <1>3, <1>9 DEF Crash, NoRows
  <2> QED BY <1>2, <2>1, <2>2 DEF Queued
<1>10. ASSUME NEW p \in Procs, WatcherStep(p) \/ PollFails(p), UNCHANGED mainVars PROVE Queued'
  <2>1. CASE EmitPage(p) \/ EmitLastPage(p)
    BY <1>5, <1>10, <2>1 DEF EmitPage, EmitLastPage, mainVars
  <2>2. CASE ~(EmitPage(p) \/ EmitLastPage(p))
    BY <1>4, <1>10, <2>2 DEF WatcherStep, ReadCheckpoint, ReadGeneration, BeginPoll, FetchGap, Rotate,
       Rewind, FetchRecords, FetchNothing, StageRecord, PollFails, emitVars, mainVars
  <2> QED BY <2>1, <2>2
<1>11. CASE WindowsStep /\ UNCHANGED mainVars
  BY <1>4, <1>11 DEF WindowsStep, LogClear, LogAppend, threadVars, emitVars, mainVars
<1>12. ASSUME NEW p \in Procs, StartMain(p) \/ SubmitTimesOut(p) PROVE Queued'
  BY <1>4, <1>12 DEF StartMain, SubmitTimesOut, winVars, watchVars, threadVars, emitVars
<1>13. ASSUME NEW p \in Procs, WriterCommit(p) \/ WriterFails(p) PROVE Queued'
  BY <1>8, <1>13 DEF WriterCommit, WriterFails, watchVars, threadVars, emitVars
<1>14. CASE UNCHANGED vars
  BY <1>4, <1>14 DEF vars, winVars, watchVars, threadVars, emitVars, mainVars
<1> QED
  BY <1>6, <1>7, <1>9, <1>10, <1>11, <1>12, <1>13, <1>14 DEF Next, MonitorStep

\* The invariant behind the two theorems on the tables.
TableInv == TypeOK /\ Queued /\ ExactlyOnce

LEMMA ExactlyOnceStep ==
    ASSUME TypeOK, ExactlyOnce, SameTables \/ NewRow \/ NewEvent
    PROVE  ExactlyOnce'
<1>1. inbox \in Seq(Row) /\ events \in Seq(Canaries) BY DEF TypeOK, DbTyped
<1>2. CASE SameTables BY <1>2 DEF SameTables, ExactlyOnce, RowIds
<1>3. CASE NewRow
  <2>1. PICK row \in Row : row.event = 0 /\ inbox' = Append(inbox, row) BY <1>3 DEF NewRow
  <2>2. events' = events BY <1>3 DEF NewRow
  <2>3. RowIds \subseteq RowIds' BY <1>1, <2>1 DEF RowIds
  <2>4. \A i \in RowIds : inbox'[i] = inbox[i] BY <1>1, <2>1 DEF RowIds
  <2>5. \A i \in RowIds' : i \in RowIds \/ inbox'[i].event = 0 BY <1>1, <2>1 DEF RowIds
  <2> QED BY <2>2, <2>3, <2>4, <2>5 DEF ExactlyOnce
<1>4. CASE NewEvent
  <2>1. PICK live \in SUBSET RowIds, path \in Canaries : Consumes(live, path) BY <1>4 DEF NewEvent
  <2> DEFINE n == Len(events) + 1
  <2>2. RowIds' = RowIds /\ n \in Nat /\ DOMAIN events = 1 .. Len(events) BY <1>1, <2>1 DEF Consumes, RowIds
  <2>3. DOMAIN events' = DOMAIN events \cup {n} /\ events'[n] = path
        /\ \A e \in DOMAIN events : events'[e] = events[e]
    BY <1>1, <2>1 DEF Consumes
  <2>4. ASSUME NEW i \in RowIds
        PROVE  /\ inbox'[i].path = inbox[i].path
               /\ i \in live => inbox'[i].event = n
               /\ i \notin live => inbox'[i].event = inbox[i].event
    <3>1. inbox[i] \in Row BY <1>1 DEF RowIds
    <3>2. [inbox[i] EXCEPT !.event = n].path = inbox[i].path /\ [inbox[i] EXCEPT !.event = n].event = n
      BY <2>2, <3>1 DEF Row
    <3> QED BY <2>1, <3>2 DEF Consumes
  <2>5. live # {} /\ live \subseteq Pending /\ \A i \in live : inbox[i].path = path
    BY <2>1 DEF Consumes
  <2> HIDE DEF n
  <2>6. \A i \in RowIds' : inbox'[i].event # 0 =>
          inbox'[i].event \in DOMAIN events' /\ events'[inbox'[i].event] = inbox'[i].path
    BY <2>2, <2>3, <2>4, <2>5 DEF ExactlyOnce
  <2>7. ASSUME NEW e \in DOMAIN events' PROVE \E i \in RowIds' : inbox'[i].event = e
    <3>1. CASE e = n BY <2>2, <2>4, <2>5, <3>1
    <3>2. CASE e \in DOMAIN events
      <4>1. PICK i \in RowIds : inbox[i].event = e BY <3>2 DEF ExactlyOnce
      <4>2. e # 0 BY <2>2, <3>2
      <4>3. i \notin live BY <2>5, <4>1, <4>2 DEF Pending
      <4> QED BY <2>2, <2>4, <4>1, <4>3
    <3> QED BY <2>3, <3>1, <3>2
  <2> QED BY <2>6, <2>7 DEF ExactlyOnce
<1> QED BY <1>2, <1>3, <1>4

LEMMA TableInvariant == ASSUME WinAssumption, PipelineAssumption PROVE Spec => []TableInv
<1>1. Init => Queued /\ ExactlyOnce
  BY DEF Init, DbInit, WatchInit, Queued, ExactlyOnce, RowIds, NoRows
<1>2. TypeOK /\ Queued /\ ExactlyOnce /\ [Next]_vars => Queued' /\ ExactlyOnce'
  BY TableStep, QueuedStep, ExactlyOnceStep
<1>3. Spec => []TypeOK BY TypeCorrect
<1> QED BY <1>1, <1>2, <1>3, PTL DEF Spec, TableInv

\* However many processes share the database and however often they die, retry
\* or time out, a consumed row points at one event of its path, and no event was
\* made from rows that another event had already taken.
THEOREM RecordedExactlyOnce ==
    ASSUME WinAssumption, PipelineAssumption PROVE Spec => []ExactlyOnce
BY TableInvariant, PTL DEF TableInv
-----------------------------------------------------------------------------
(* The pipeline implements the ledger of accepted reads. *)

Waiting == {[read |-> i, path |-> inbox[i].path] : i \in Pending}
RowsOf(e) == {i \in RowIds : inbox[i].event = e}
Taken == {[reads |-> RowsOf(e), path |-> events[e]] : e \in DOMAIN events}

\* A new row is a read accepted by the ledger.
LEMMA NewRowAccepted ==
    ASSUME TableInv, NewRow
    PROVE  \E w \in Waiting' : /\ w.path \in Canaries
                               /\ w.read \notin {v.read : v \in Waiting} \cup UNION {e.reads : e \in Taken}
                               /\ Waiting' = Waiting \cup {w}
                               /\ Taken' = Taken
<1> USE DEF TableInv, TypeOK, DbTyped
<1>1. PICK row \in Row : row.event = 0 /\ inbox' = Append(inbox, row) BY DEF NewRow
<1> DEFINE n == Len(inbox) + 1
           w == [read |-> n, path |-> row.path]
<1>2. RowIds' = RowIds \cup {n} /\ n \notin RowIds /\ inbox'[n] = row
      /\ \A i \in RowIds : inbox'[i] = inbox[i]
  BY <1>1 DEF RowIds
<1>3. Pending' = Pending \cup {n} BY <1>1, <1>2 DEF Pending
<1>4. Waiting' = Waiting \cup {w} BY <1>2, <1>3 DEF Waiting, Pending
<1>5. ASSUME NEW e \in DOMAIN events PROVE RowsOf(e)' = RowsOf(e)
  <2>1. e # 0 /\ inbox'[n].event = 0 BY <1>1, <1>2
  <2>2. \A i : i \in RowsOf(e)' <=> i \in RowsOf(e) BY <1>2, <2>1 DEF RowsOf
  <2> QED BY <2>2
<1>6. Taken' = Taken BY <1>5 DEF Taken, NewRow
<1>7. w.read \notin {v.read : v \in Waiting} BY <1>2 DEF Waiting, Pending
<1>8. w.read \notin UNION {e.reads : e \in Taken} BY <1>2 DEF Taken, RowsOf
<1>9. w.path \in Canaries /\ w \in Waiting' BY <1>1, <1>4 DEF Row
<1> QED BY <1>4, <1>6, <1>7, <1>8, <1>9

\* A new event is a batch of waiting reads that the ledger records.
LEMMA NewEventRecorded ==
    ASSUME TableInv, NewEvent
    PROVE  \E path \in Canaries, batch \in SUBSET Waiting :
             /\ batch # {} /\ \A w \in batch : w.path = path
             /\ Waiting' = Waiting \ batch
             /\ Taken' = Taken \cup {[reads |-> {w.read : w \in batch}, path |-> path]}
<1> USE DEF TableInv, TypeOK, DbTyped
<1>1. PICK live \in SUBSET RowIds, path \in Canaries : Consumes(live, path) BY DEF NewEvent
<1> DEFINE n == Len(events) + 1
           batch == {[read |-> i, path |-> inbox[i].path] : i \in live}
<1>2. RowIds' = RowIds /\ n \in Nat \ {0} /\ n \notin DOMAIN events
      /\ DOMAIN events' = DOMAIN events \cup {n} /\ events'[n] = path
      /\ \A e \in DOMAIN events : events'[e] = events[e]
  BY <1>1 DEF Consumes, RowIds
<1>3. ASSUME NEW i \in RowIds
      PROVE  /\ inbox'[i].path = inbox[i].path
             /\ i \in live => inbox'[i].event = n
             /\ i \notin live => inbox'[i].event = inbox[i].event
  <2>1. inbox[i] \in Row BY DEF RowIds
  <2>2. [inbox[i] EXCEPT !.event = n].path = inbox[i].path /\ [inbox[i] EXCEPT !.event = n].event = n
    BY <1>2, <2>1 DEF Row
  <2> QED BY <1>1, <2>2 DEF Consumes
<1>4. live # {} /\ live \subseteq Pending /\ \A i \in live : inbox[i].path = path
  BY <1>1 DEF Consumes
<1>5. \A i \in RowIds : inbox[i].event # n
  BY <1>2 DEF ExactlyOnce
<1> HIDE DEF n
<1>6. Pending' = Pending \ live BY <1>2, <1>3, <1>4 DEF Pending
<1>7. Waiting' = Waiting \ batch
  <2>1. \A i \in RowIds : inbox'[i].path = inbox[i].path BY <1>3
  <2> QED BY <1>4, <1>6, <2>1 DEF Waiting, Pending
<1>8. \A e \in DOMAIN events : RowsOf(e)' = RowsOf(e)
  <2>1. \A e \in DOMAIN events : e # 0 /\ e # n BY <1>2
  <2> QED BY <1>2, <1>3, <1>4, <2>1 DEF RowsOf, Pending
<1>9. {i \in RowIds' : inbox'[i].event = n} = live BY <1>2, <1>3, <1>4, <1>5
<1>10. {w.read : w \in batch} = live
  <2>1. \A i \in live : [read |-> i, path |-> inbox[i].path].read = i OBVIOUS
  <2>2. \A x : x \in {w.read : w \in batch} <=> x \in live BY <2>1
  <2> QED BY <2>2
<1>11. Taken' = Taken \cup {[reads |-> live, path |-> path]}
  <2> DEFINE rows(e) == {i \in RowIds' : inbox'[i].event = e}
  <2>1. Taken' = {[reads |-> rows(e), path |-> events'[e]] : e \in DOMAIN events'}
    BY DEF Taken, RowsOf
  <2>2. \A e \in DOMAIN events : rows(e) = RowsOf(e) /\ events'[e] = events[e]
    BY <1>2, <1>8 DEF RowsOf
  <2>3. rows(n) = live /\ events'[n] = path BY <1>2, <1>9
  <2> HIDE DEF rows
  <2>4. \A x : x \in Taken' <=> x \in Taken \cup {[reads |-> live, path |-> path]}
    BY <1>2, <2>1, <2>2, <2>3 DEF Taken
  <2> QED BY <2>4
<1>12. batch \in SUBSET Waiting /\ batch # {} /\ \A w \in batch : w.path = path
  <2>1. batch \subseteq Waiting BY <1>4 DEF Waiting
  <2>2. batch # {} BY <1>4
  <2>3. \A w \in batch : w.path = path BY <1>4
  <2> QED BY <2>1, <2>2, <2>3
<1> HIDE DEF batch
<1> QED BY <1>7, <1>10, <1>11, <1>12

\* The detailed pipeline, with its pages, queues, retries and crashes, is a
\* refinement of ReadLedger.
THEOREM PipelineImplementsLedger ==
    ASSUME WinAssumption, PipelineAssumption PROVE Spec => ImplementsLedger
<1> USE DEF Ledger!LedgerInit, Ledger!LedgerNext, Ledger!ledgerVars, Ledger!Accept, Ledger!Record,
        Ledger!Settled
<1>1. Init => Ledger!LedgerInit
  BY DEF Init, DbInit, Pending, RowIds
<1>2. TableInv /\ TableInv' /\ [Next]_vars => [Ledger!LedgerNext]_(Ledger!ledgerVars)
  <2> SUFFICES ASSUME TableInv, TableInv', [Next]_vars
               PROVE  [Ledger!LedgerNext]_(Ledger!ledgerVars)
    OBVIOUS
  <2>1. SameTables \/ NewRow \/ NewEvent BY TableStep DEF TableInv
  <2>2. CASE SameTables BY <2>2 DEF SameTables, Pending, RowIds
  <2>3. CASE NewRow BY <2>3, NewRowAccepted DEF Waiting, Taken, RowsOf
  <2>4. CASE NewEvent BY <2>4, NewEventRecorded DEF Waiting, Taken, RowsOf
  <2> QED BY <2>1, <2>2, <2>3, <2>4
<1>3. Spec => []TableInv BY TableInvariant
<1> QED BY <1>1, <1>2, <1>3, PTL DEF Spec, ImplementsLedger, Ledger!LedgerSpec
-----------------------------------------------------------------------------
(* While the log is not cleared, no retained canary read is stepped over.    *)

\* A page being staged holds every retained canary read from the watcher's own
\* checkpoint up to the page's last record.
PageComplete(p) == pc[p] = "stage" =>
    /\ \A r \in page[p] : last[p] < r.rid /\ r.rid <= newest /\ r.obj = obj[r.rid]
    /\ \A r \in page[p] : \A i \in Retained :
          last[p] < i /\ i < r.rid /\ obj[i] \in Canaries => \E s \in page[p] : s.rid = i

CoverInv == clears = 0 =>
    /\ ckpt <= newest /\ Covered(ckpt)
    /\ \A i \in RowIds : inbox[i].epoch = 0
    /\ \A p \in Procs : last[p] <= newest /\ pageEpoch[p] = 0 /\ PageComplete(p)
    /\ \A p \in Procs : pc[p] # "down" => Covered(last[p])

\* A page has no holes: what is older than one of its records and was unseen is
\* in it too.
LEMMA PageHasNoHoles ==
    ASSUME WinAssumption, LogTyped, NEW p \in Procs, NEW r \in FirstPage(p), NEW i \in Unseen(p), i < r
    PROVE  i \in FirstPage(p)
<1> DEFINE below(x) == {j \in Unseen(p) : j < x}
<1>1. IsFiniteSet(oldest .. newest) BY FS_Interval DEF LogTyped
<1>2. IsFiniteSet(below(r)) BY <1>1, FS_Subset DEF Unseen, Retained
<1>3. below(i) \subseteq below(r)
  <2>1. Unseen(p) \subseteq Int /\ r \in Int BY DEF Unseen, Retained, LogTyped, FirstPage
  <2> QED BY <2>1
<1>4. Cardinality(below(i)) <= Cardinality(below(r)) /\ IsFiniteSet(below(i)) BY <1>2, <1>3, FS_Subset
<1>5. Cardinality(below(i)) \in Nat /\ Cardinality(below(r)) \in Nat
  BY <1>2, <1>4, FS_CardinalityType
<1>6. Cardinality(below(r)) < MaxEvents BY DEF FirstPage
<1>7. Cardinality(below(i)) < MaxEvents BY <1>4, <1>5, <1>6 DEF WinAssumption
<1> QED BY <1>7 DEF FirstPage

\* Coverage up to a point survives whatever only adds rows.
LEMMA CoverageKept ==
    ASSUME TypeOK, SameTables \/ NewRow \/ NewEvent, UNCHANGED <<oldest, newest, obj>>,
           NEW n \in Nat, Covered(n)
    PROVE  Covered(n)'
<1>1. StoredReads \subseteq StoredReads' BY RowsStay DEF StoredReads, SameRead
<1> QED BY <1>1 DEF Covered, Retained

\* Facts about integers and Append that the step of StageRecord uses.
LEMMA Trichotomy ==
    ASSUME NEW a \in Int, NEW b \in Int, NEW c \in Int, b <= c
    PROVE  b <= a \/ (a < b /\ b < c) \/ b = c
  OBVIOUS

LEMMA NotBoth ==
    ASSUME NEW a \in Int, NEW b \in Int, a <= b, b < a PROVE FALSE
  OBVIOUS

LEMMA AppendedRow ==
    ASSUME NEW s \in Seq(Row), NEW x \in Row
    PROVE  /\ DOMAIN Append(s, x) = DOMAIN s \cup {Len(s) + 1}
           /\ Append(s, x)[Len(s) + 1] = x
           /\ \A i \in DOMAIN s : Append(s, x)[i] = s[i]
  OBVIOUS

\* Until the log is cleared, it only grows.
LEMMA LogStep ==
    ASSUME [Next]_vars, clears \in Nat, clears' = 0
    PROVE  clears = 0 /\ (UNCHANGED logVars \/ \E o \in Objects : LogAppend(o))
<1>1. CASE LogClear BY <1>1 DEF LogClear
<1>2. CASE ~LogClear /\ WindowsStep BY <1>2 DEF WindowsStep, LogAppend
<1>3. ASSUME NEW p \in Procs, WatcherStep(p) \/ PollFails(p) PROVE UNCHANGED logVars
  BY <1>3 DEF WatcherStep, ReadCheckpoint, ReadGeneration, BeginPoll, EmitPage, EmitLastPage,
     FetchGap, Rotate, Rewind, FetchRecords, FetchNothing, StageRecord, PollFails
<1>4. ASSUME NEW p \in Procs, MonitorStep(p) \/ WriterFails(p) \/ SubmitTimesOut(p) \/ Crash(p)
      PROVE  UNCHANGED logVars
  BY <1>4 DEF MonitorStep, StartMain, TakeHit, Dispatch, WriterCommit, WriterFails,
     SubmitTimesOut, Crash, winVars
<1>5. CASE UNCHANGED vars BY <1>5 DEF vars, winVars, logVars
<1> QED BY <1>1, <1>2, <1>3, <1>4, <1>5 DEF Next, logVars

LEMMA CoverStep ==
    ASSUME WinAssumption, TypeOK, TypeOK', Queued, CoverInv, [Next]_vars
    PROVE  CoverInv'
<1> SUFFICES ASSUME clears' = 0 PROVE CoverInv' BY DEF CoverInv
<1> USE WinAssumption DEF TypeOK, LogTyped, DbTyped, PollTyped
<1>1. clears = 0 BY LogStep
<1>2. SameTables \/ NewRow \/ NewEvent BY TableStep
<1>3. CASE \E o \in Objects : LogAppend(o)
  <2>1. PICK o \in Objects : LogAppend(o) BY <1>3
  <2>2. newest' = newest + 1 /\ newest' \in RecordId /\ UNCHANGED <<ckpt, inbox, pc, last, page, pageEpoch>>
    BY <2>1 DEF LogAppend, dbVars, threadVars, pageVars, RecordId
  <2>3. \A i \in 1 .. newest : obj'[i] = obj[i] BY <2>1, <2>2 DEF LogAppend, RecordId
  <2>4. \A i \in Retained' : i <= newest => i \in Retained BY <2>1, <2>2 DEF LogAppend, Retained
  <2>a. StoredReads' = StoredReads BY <2>2 DEF StoredReads, RowIds
  <2>b. \A i \in Retained' : i <= newest => obj'[i] = obj[i]
    <3>1. Retained \subseteq 1 .. newest BY DEF Retained
    <3> QED BY <2>3, <2>4, <3>1
  <2>c. Retained' \subseteq Nat /\ newest \in Nat BY <2>2 DEF Retained, RecordId
  <2>5. ASSUME NEW n \in Nat, n <= newest, Covered(n)
        PROVE  Covered(n)'
    <3> SUFFICES ASSUME NEW i \in Retained', i <= n, obj'[i] \in Canaries
                 PROVE  <<0, i>> \in StoredReads'
      BY DEF Covered
    <3>1. i \in Retained /\ obj'[i] = obj[i] BY <2>4, <2>5, <2>b, <2>c
    <3> QED BY <2>5, <2>a, <3>1 DEF Covered
  <2>6. \A p \in Procs : PageComplete(p) => PageComplete(p)'
    BY <2>1, <2>2, <2>3, <2>4 DEF PageComplete, Retained, LogAppend
  <2> QED BY <1>1, <2>2, <2>5, <2>6 DEF CoverInv, RowIds
<1> DEFINE Cov(n) == \A i \in Retained' : i <= n /\ obj'[i] \in Canaries => <<0, i>> \in StoredReads'
<1>4. ASSUME UNCHANGED <<oldest, newest, obj>>
      PROVE  \A n \in Nat : Covered(n) => Cov(n)
  BY <1>2, <1>4, CoverageKept DEF Covered
<1>5. (inbox' = inbox \/ NewEvent) => \A i \in RowIds' : inbox'[i].epoch = 0
  <2>1. NewEvent => RowIds' = RowIds BY DEF NewEvent, Consumes, RowIds
  <2> QED BY <1>1, <1>2, <2>1, RowsStay DEF CoverInv, SameRead, RowIds
<1>a. ASSUME ckpt' <= newest', Cov(ckpt'), \A i \in RowIds' : inbox'[i].epoch = 0,
             \A q \in Procs : last'[q] <= newest' /\ pageEpoch'[q] = 0 /\ PageComplete(q)',
             \A q \in Procs : pc'[q] # "down" => Cov(last'[q])
      PROVE  CoverInv'
  BY <1>a DEF CoverInv, Covered
<1>b. ASSUME NEW q \in Procs, UNCHANGED <<oldest, newest, obj>>,
             pc'[q] = "stage" => pc[q] = "stage" /\ page'[q] = page[q] /\ last'[q] = last[q]
      PROVE  PageComplete(q)'
  BY <1>1, <1>b DEF CoverInv, PageComplete, Retained
<1>c. /\ ckpt \in Nat /\ ckpt <= newest /\ Covered(ckpt)
      /\ \A i \in RowIds : inbox[i].epoch = 0
      /\ \A q \in Procs : last[q] \in Nat /\ last[q] <= newest /\ pageEpoch[q] = 0 /\ PageComplete(q)
      /\ \A q \in Procs : pc[q] # "down" => Covered(last[q])
  BY <1>1 DEF CoverInv
<1> HIDE DEF Cov
\* Steps that leave every checkpoint alone, or make a watcher's own durable,
\* and start no page.
<1>6. ASSUME UNCHANGED <<oldest, newest, obj>>,
             \A q \in Procs : pageEpoch'[q] \in {pageEpoch[q], 0},
             \A q \in Procs : last'[q] = last[q] \/ (pc'[q] = "down" /\ last'[q] = 0),
             \A q \in Procs : pc'[q] # "down" => pc[q] # "down",
             \A q \in Procs : pc'[q] = "stage" => pc[q] = "stage" /\ page'[q] = page[q],
             ckpt' = ckpt \/ \E q \in Procs : pc[q] # "down" /\ ckpt' = last[q],
             inbox' = inbox \/ NewEvent
      PROVE  CoverInv'
  <2>1. ckpt' <= newest' /\ Cov(ckpt') BY <1>c, <1>4, <1>6
  <2>2. \A q \in Procs : PageComplete(q)' BY <1>b, <1>6
  <2>3. \A q \in Procs : pc'[q] # "down" => Cov(last'[q]) BY <1>c, <1>4, <1>6
  <2>4. newest \in Nat BY DEF RecordId
  <2>5. \A q \in Procs : last'[q] <= newest' /\ pageEpoch'[q] = 0
    <3> SUFFICES ASSUME NEW q \in Procs PROVE last'[q] <= newest /\ pageEpoch'[q] = 0 BY <1>6
    <3>1. last[q] <= newest /\ pageEpoch[q] = 0 BY <1>c
    <3>2. last'[q] = last[q] \/ last'[q] = 0 BY <1>6
    <3>3. pageEpoch'[q] \in {pageEpoch[q], 0} BY <1>6
    <3> QED BY ONLY <2>4, <3>1, <3>2, <3>3
  <2> QED BY <1>a, <1>5, <1>6, <2>1, <2>2, <2>3, <2>5
<1>7. ASSUME NEW p \in Procs, StartMain(p) \/ TakeHit(p) \/ WriterFails(p) \/ SubmitTimesOut(p)
                              \/ \E c \in Canaries : Dispatch(p, c)
      PROVE  CoverInv'
  BY <1>6, <1>7 DEF StartMain, TakeHit, WriterFails, SubmitTimesOut, Dispatch, winVars, logVars, dbVars,
     watchVars, threadVars, pageVars
<1>8. ASSUME NEW p \in Procs, WriterCommit(p) PROVE CoverInv'
  <2>1. ckpt' = ckpt /\ (inbox' = inbox \/ events' = Append(events, Head(wq[p]).path))
    BY <1>8 DEF WriterCommit, InsertEvent, dbVars
  <2>2. Len(events) \in Nat /\ (events' = Append(events, Head(wq[p]).path) => Len(events') = Len(events) + 1)
    OBVIOUS
  <2>3. inbox' = inbox \/ NewEvent BY <1>2, <2>1, <2>2 DEF SameTables, NewRow
  <2> QED BY <1>6, <1>8, <2>1, <2>3 DEF WriterCommit, logVars, watchVars, threadVars, pageVars
<1>9. ASSUME NEW p \in Procs, Crash(p) PROVE CoverInv'
  BY <1>6, <1>9 DEF Crash, Goto, logVars, dbVars
<1>10. ASSUME NEW p \in Procs, ReadGeneration(p) \/ BeginPoll(p) \/ EmitPage(p)
                               \/ \E a \in Answers(p) : FetchNothing(p, a)
       PROVE  CoverInv'
  BY <1>6, <1>10 DEF ReadGeneration, BeginPoll, EmitPage, FetchNothing, Goto, logVars, dbVars, pageVars
<1>11. ASSUME NEW p \in Procs, EmitLastPage(p) PROVE CoverInv'
  BY <1>6, <1>11 DEF EmitLastPage, Goto, logVars, dbVars, pageVars
<1>12. ASSUME NEW p \in Procs, Rotate(p) \/ Rewind(p) PROVE CoverInv'
  BY <1>6, <1>12 DEF Rotate, Rewind, RotateWindowsLog, SetCheckpoint, Goto, logVars, pageVars
<1>13. ASSUME NEW p \in Procs, PollFails(p) PROVE CoverInv'
  BY <1>6, <1>13 DEF PollFails, Goto, logVars, dbVars
<1>14. CASE UNCHANGED vars
  BY <1>6, <1>14 DEF vars, winVars, logVars, dbVars, watchVars, threadVars, pageVars
<1>15. ASSUME NEW p \in Procs, ReadCheckpoint(p) PROVE CoverInv'
  <2>1. UNCHANGED <<oldest, newest, obj, ckpt, inbox, page, pageEpoch>>
        /\ last' = [last EXCEPT ![p] = ckpt] /\ pc' = [pc EXCEPT ![p] = "boot"]
    BY <1>15 DEF ReadCheckpoint, Goto, logVars, dbVars, pageVars
  <2>2. \A q \in Procs : PageComplete(q)' BY <1>b, <2>1
  <2>3. Cov(ckpt) /\ ckpt <= newest BY <1>c, <1>4, <2>1
  <2>4. \A q \in Procs : pc'[q] # "down" => Cov(last'[q]) BY <1>c, <1>4, <2>1, <2>3
  <2> QED BY <1>a, <1>c, <1>5, <2>1, <2>2, <2>3, <2>4
<1>16. ASSUME NEW p \in Procs, NEW a \in Answers(p), FetchGap(p, a) PROVE CoverInv'
  <2>a. a.oldest \in {OldestRecordId, 0} /\ a.newest \in {NewestRecordId, 0} BY Answered
  <2>0. last[p] \in Nat /\ last[p] <= newest /\ newest \in Nat /\ oldest \in Nat \ {0} BY <1>c DEF RecordId
  <2>b. ~LogReset(p, a) BY ONLY <2>a, <2>0 DEF LogReset, NewestRecordId
  <2>c. a.oldest > last[p] + 1 BY <1>16, <2>b DEF FetchGap, CoverageGap
  <2>d. a.oldest = OldestRecordId /\ OldestRecordId # 0 BY ONLY <2>a, <2>0, <2>c DEF OldestRecordId
  <2>1. UNCHANGED <<oldest, newest, obj, ckpt, inbox, page, pageEpoch>>
        /\ last' = [last EXCEPT ![p] = IF a.oldest = 0 THEN 0 ELSE a.oldest - 1] /\ pc'[p] # "stage"
        /\ \A q \in Procs \ {p} : pc'[q] = pc[q]
    BY <1>16 DEF FetchGap, Goto, logVars, dbVars, pageVars
  <2>2. OldestRecordId = oldest /\ oldest <= newest
    <3>2. oldest..newest # {} /\ OldestRecordId = oldest BY <2>d DEF OldestRecordId, Retained
    <3>3. oldest \in Nat /\ newest \in Nat OBVIOUS
    <3> QED BY <3>2, <3>3
  <2>3. \A q \in Procs : PageComplete(q)' BY <1>b, <2>1
  <2>4. Cov(oldest - 1) BY <2>1 DEF Cov, Retained
  <2>5. \A q \in Procs : pc'[q] # "down" => Cov(last'[q])
    <3>1. last'[p] = oldest - 1 BY <2>1, <2>2, <2>d
    <3>2. \A q \in Procs \ {p} : pc'[q] = pc[q] /\ last'[q] = last[q] BY <2>1
    <3>3. \A q \in Procs \ {p} : pc'[q] # "down" => Cov(last[q]) BY <1>c, <1>4, <2>1, <3>2
    <3> QED BY <2>4, <3>1, <3>2, <3>3
  <2>6. Cov(ckpt) BY <1>c, <1>4, <2>1
  <2>7. \A q \in Procs : last'[q] <= newest BY <1>c, <2>1, <2>2, <2>d
  <2> QED BY <1>a, <1>c, <1>5, <2>1, <2>3, <2>5, <2>6, <2>7
<1>17. ASSUME NEW p \in Procs, NEW a \in Answers(p), FetchRecords(p, a) PROVE CoverInv'
  <2>a. a.ids = FirstPage(p) BY <1>17, Answered DEF FetchRecords
  <2>1. UNCHANGED <<oldest, newest, obj, ckpt, inbox, last>>
        /\ page' = [page EXCEPT ![p] = {[rid |-> i, obj |-> obj[i]] : i \in FirstPage(p)}]
        /\ pageEpoch' = [pageEpoch EXCEPT ![p] = clears] /\ pc' = [pc EXCEPT ![p] = "stage"]
        /\ pc[p] = "fetch"
    BY <1>17, <2>a DEF FetchRecords, Goto, logVars, dbVars
  <2>2. PageComplete(p)'
    <3> DEFINE fetched == {[rid |-> i, obj |-> obj[i]] : i \in FirstPage(p)}
    <3>1. \A i \in Unseen(p) : last[p] < i /\ i <= newest BY DEF Unseen, Retained
    <3>2. FirstPage(p) \subseteq Unseen(p) BY DEF FirstPage
    <3>3. \A r \in fetched : r.rid \in FirstPage(p) /\ r.obj = obj[r.rid] OBVIOUS
    <3>4. ASSUME NEW r \in fetched, NEW i \in Retained, last[p] < i, i < r.rid, obj[i] \in Canaries
          PROVE  \E s \in fetched : s.rid = i
      <4>1. i \in Unseen(p) BY <3>4 DEF Unseen
      <4>2. i \in FirstPage(p) BY <3>3, <3>4, <4>1, PageHasNoHoles
      <4>3. [rid |-> i, obj |-> obj[i]] \in fetched /\ [rid |-> i, obj |-> obj[i]].rid = i BY <4>2
      <4> HIDE DEF fetched
      <4> QED BY <4>3
    <3>5. page'[p] = fetched BY <2>1
    <3> HIDE DEF fetched
    <3> QED BY <2>1, <3>1, <3>2, <3>3, <3>4, <3>5 DEF PageComplete, Retained
  <2>3. \A q \in Procs \ {p} : PageComplete(q)' BY <1>b, <2>1
  <2>4. \A q \in Procs : pc'[q] # "down" => Cov(last'[q]) BY <1>c, <1>4, <2>1
  <2>5. Cov(ckpt') BY <1>c, <1>4, <2>1
  <2>6. \A q \in Procs : pageEpoch'[q] = 0 BY <1>1, <1>c, <2>1
  <2> QED BY <1>a, <1>c, <1>5, <2>1, <2>2, <2>3, <2>4, <2>5, <2>6
<1>18. ASSUME NEW p \in Procs, NEW r \in page[p], StageRecord(p, r) PROVE CoverInv'
  <2>1. UNCHANGED <<oldest, newest, obj>> /\ ckpt' = r.rid
        /\ pageEpoch' = [pageEpoch EXCEPT ![p] = IF page[p] = {r} THEN 0 ELSE @]
        /\ last' = [last EXCEPT ![p] = r.rid] /\ page' = [page EXCEPT ![p] = @ \ {r}]
        /\ pc[p] = "stage" /\ \A q \in Procs \ {p} : pc'[q] = pc[q]
    BY <1>18 DEF StageRecord, StageWindowsRecord, Goto, logVars
  <2>2. \A s \in page[p] : r.rid <= s.rid BY <1>18 DEF StageRecord, IsNext
  <2>3. PageComplete(p) /\ pageEpoch[p] = 0 BY <1>1 DEF CoverInv
  <2>4. r.rid \in Nat /\ last[p] < r.rid /\ r.rid <= newest /\ r.obj = obj[r.rid]
    BY <2>1, <2>3 DEF PageComplete
  <2> DEFINE row == [gen |-> wgen[p], rid |-> r.rid, path |-> r.obj, epoch |-> pageEpoch[p], event |-> 0]
             old == \E i \in RowIds : inbox[i].gen = wgen[p] /\ inbox[i].rid = r.rid
  <2>5. IF r.obj \in Canaries /\ ~old THEN inbox' = Append(inbox, row) ELSE inbox' = inbox
    BY <1>18 DEF StageRecord, StageWindowsRecord, InsertRow
  <2>6. row.rid = r.rid /\ row.epoch = 0 BY <2>3
  <2>7. \A i \in RowIds' : inbox'[i].epoch = 0
    <3> HIDE DEF row, old
    <3>1. CASE inbox' = inbox BY <1>c, <3>1 DEF RowIds
    <3>2. CASE r.obj \in Canaries /\ inbox' = Append(inbox, row)
      <4>0. row \in Row
        <5>1. wgen[p] \in Nat /\ r.rid \in Nat \ {0} /\ pageEpoch[p] \in Nat OBVIOUS
        <5> QED BY <3>2, <5>1 DEF Row, row
      <4>1. RowIds' = RowIds \cup {Len(inbox) + 1} /\ inbox'[Len(inbox) + 1] = row
            /\ \A i \in RowIds : inbox'[i] = inbox[i]
        <5>1. inbox \in Seq(Row) OBVIOUS
        <5> QED BY ONLY <3>2, <4>0, <5>1, AppendedRow DEF RowIds
      <4> QED BY <1>c, <2>6, <4>1
    <3> QED BY <2>5, <3>1, <3>2
  <2>8. r.obj \in Canaries => \E i \in RowIds' : inbox'[i].rid = r.rid
    <3>1. CASE old BY <2>5, <3>1 DEF RowIds
    <3>2. CASE ~old
      <4> HIDE DEF row, old
      <4>1. CASE inbox' = Append(inbox, row)
        <5>1. Len(inbox) + 1 \in RowIds' /\ inbox'[Len(inbox) + 1] = row BY <4>1 DEF RowIds
        <5> QED BY <2>6, <5>1
      <4> QED BY <2>5, <3>2, <4>1
    <3> QED BY <3>1, <3>2
  <2>9. r.obj \in Canaries => <<0, r.rid>> \in StoredReads' BY <2>7, <2>8 DEF StoredReads
  <2>10. Cov(last[p]) BY <1>c, <1>4, <2>1
  <2> HIDE DEF row, old
  <2>11. Cov(r.rid)
    <3> SUFFICES ASSUME NEW i \in Retained', i <= r.rid, obj'[i] \in Canaries
                 PROVE  <<0, i>> \in StoredReads'
      BY DEF Cov
    <3>1. i \in Retained /\ obj'[i] = obj[i] /\ i \in Int BY <2>1 DEF Retained
    <3>2. CASE i <= last[p] BY <2>10, <3>2 DEF Cov
    <3>3. CASE last[p] < i /\ i < r.rid
      <4>1. PICK s \in page[p] : s.rid = i BY <2>1, <2>3, <3>1, <3>3 DEF PageComplete
      <4>2. r.rid <= i BY <2>2, <4>1
      <4>3. i \in Int /\ r.rid \in Int BY <2>4, <3>1
      <4> QED BY ONLY <3>3, <4>2, <4>3, NotBoth
    <3>4. CASE i = r.rid BY <2>4, <2>9, <3>1, <3>4
    <3>5. last[p] \in Nat BY <1>c
    <3>6. i <= last[p] \/ (last[p] < i /\ i < r.rid) \/ i = r.rid
      <4>1. i \in Int /\ r.rid \in Int /\ last[p] \in Int /\ i <= r.rid BY <2>4, <3>1, <3>5
      <4> QED BY ONLY <4>1, Trichotomy
    <3> QED BY <3>2, <3>3, <3>4, <3>6
  <2>12. PageComplete(p)'
    <3> SUFFICES ASSUME NEW s \in page'[p]
                 PROVE  /\ last'[p] < s.rid /\ s.rid <= newest' /\ s.obj = obj'[s.rid]
                        /\ \A i \in Retained' : last'[p] < i /\ i < s.rid /\ obj'[i] \in Canaries
                              => \E t \in page'[p] : t.rid = i
      BY DEF PageComplete
    <3>1. s \in page[p] /\ s # r BY <2>1
    <3>2. s \in [rid : Nat \ {0}, obj : Objects] /\ r \in [rid : Nat \ {0}, obj : Objects] BY <3>1
    <3>3. s.obj = obj[s.rid] /\ s.rid <= newest BY <2>1, <2>3, <3>1 DEF PageComplete
    <3>4. s.rid # r.rid
      <4>1. s = [rid |-> s.rid, obj |-> s.obj] /\ r = [rid |-> r.rid, obj |-> r.obj] BY <3>2
      <4> QED BY <2>4, <3>1, <3>3, <4>1
    <3>5. r.rid < s.rid
      <4>1. r.rid <= s.rid BY <2>2, <3>1
      <4>2. r.rid \in Nat /\ s.rid \in Nat BY <3>2
      <4> QED BY ONLY <3>4, <4>1, <4>2
    <3>6. ASSUME NEW i \in Retained', r.rid < i, i < s.rid, obj'[i] \in Canaries
          PROVE  \E t \in page'[p] : t.rid = i
      <4>1. i \in Retained /\ obj[i] \in Canaries /\ last[p] < i
        BY <2>1, <2>4, <3>6 DEF Retained
      <4>2. PICK t \in page[p] : t.rid = i BY <2>1, <2>3, <3>1, <3>6, <4>1 DEF PageComplete
      <4>3. t # r
        <5>1. r.rid \in Int /\ i \in Int BY <2>4, <3>6 DEF Retained
        <5> QED BY ONLY <3>6, <4>2, <5>1
      <4> QED BY <2>1, <4>2, <4>3
    <3> QED BY <2>1, <3>3, <3>5, <3>6
  <2>13. \A q \in Procs \ {p} : PageComplete(q)' BY <1>b, <2>1
  <2>14. \A q \in Procs : pc'[q] # "down" => Cov(last'[q])
    <3>1. last'[p] = r.rid BY <2>1
    <3>2. \A q \in Procs \ {p} : last'[q] = last[q] BY <2>1
    <3>3. \A q \in Procs \ {p} : pc'[q] # "down" => Cov(last[q]) BY <1>c, <1>4, <2>1
    <3> QED BY <2>11, <3>1, <3>2, <3>3
  <2>15. ckpt' <= newest' /\ Cov(ckpt') BY <2>1, <2>4, <2>11
  <2>16. \A q \in Procs : last'[q] <= newest' BY <1>c, <2>1, <2>4
  <2> QED BY <1>a, <1>c, <2>1, <2>7, <2>12, <2>13, <2>14, <2>15, <2>16
<1>19. CASE WindowsStep
  <2>1. CASE LogClear BY <1>1, <2>1 DEF LogClear
  <2> QED BY <1>3, <1>19, <2>1 DEF WindowsStep
<1> QED
  BY <1>7, <1>8, <1>9, <1>10, <1>11, <1>12, <1>13, <1>14, <1>15, <1>16, <1>17, <1>18, <1>19
  DEF Next, WatcherStep, MonitorStep

\* While the Security log has not been cleared, the durable checkpoint and every
\* running watcher's checkpoint have only canary reads in the inbox below them,
\* whatever rolls over, fails, times out or dies.
THEOREM NothingSteppedOver ==
    ASSUME WinAssumption, PipelineAssumption PROVE Spec => []RetainedCovered
<1>1. Init => CoverInv
  BY DEF Init, LogInit, DbInit, WatchInit, CoverInv, Covered, Retained, RowIds, PageComplete
<1>2. TypeOK /\ TypeOK' /\ Queued /\ CoverInv /\ [Next]_vars => CoverInv' BY CoverStep
<1>3. CoverInv => RetainedCovered BY DEF CoverInv, RetainedCovered
<1>4. TableInv => TypeOK /\ Queued BY DEF TableInv
<1> QED BY <1>1, <1>2, <1>3, <1>4, TableInvariant, PTL DEF Spec
-----------------------------------------------------------------------------
(* A row is put on the queue of a process once. *)

InProcess(p, i) ==
    \/ i \in hits[p]
    \/ \E c \in Canaries : i \in coal[p][c]
    \/ \E k \in DOMAIN wq[p] : i \in wq[p][k].ids

\* A pending row that waits anywhere in a process is remembered as emitted, and a
\* scan of the inbox has seen every pending row it has passed.
Remembered ==
    \A p \in Procs :
        /\ \A i \in Pending : InProcess(p, i) => i \in emitted[p]
        /\ scan[p].after <= Len(inbox)
        /\ \A i \in Pending : i <= scan[p].after => i \in scan[p].seen

LEMMA LeastElement ==
    ASSUME NEW S \in SUBSET Nat, S # {} PROVE \E m \in S : \A n \in S : m <= n
<1>1. PICK m \in S : \A n \in S : <<n, m>> \notin OpToRel(<, Nat) BY NatLessThanWellFounded, WFMin
<1>2. ASSUME NEW n \in S PROVE m <= n
  <2>1. m \in Nat /\ n \in Nat OBVIOUS
  <2>2. ~(n < m) BY <1>1, <2>1 DEF OpToRel
  <2> QED BY <2>1, <2>2
<1> QED BY <1>2

LEMMA GreatestElement ==
    ASSUME NEW S \in SUBSET Nat, S # {}, NEW top \in Nat, \A n \in S : n <= top
    PROVE  \E m \in S : \A n \in S : n <= m
<1> DEFINE bounds == {b \in Nat : \A n \in S : n <= b}
<1>1. bounds \in SUBSET Nat /\ bounds # {} OBVIOUS
<1>2. PICK m \in bounds : \A b \in bounds : m <= b
  <2> HIDE DEF bounds
  <2> QED BY <1>1, LeastElement
<1>3. m \in S
  <2> SUFFICES ASSUME m \notin S PROVE FALSE OBVIOUS
  <2>1. m \in Nat /\ \A n \in S : n \in Nat /\ n < m BY <1>2
  <2>a. m # 0
    <3>1. PICK n \in S : TRUE OBVIOUS
    <3> QED BY <2>1, <3>1
  <2>2. m - 1 \in Nat /\ \A n \in S : n <= m - 1 BY <2>1, <2>a
  <2>3. m - 1 \in bounds BY <2>2
  <2>4. m <= m - 1 BY <1>2, <2>3
  <2> QED BY <2>1, <2>4
<1> QED BY <1>2, <1>3

\* A query returns the oldest pending rows above its start: none is left out below
\* one that is returned, and none at all if it returns fewer than it may.
LEMMA QueryHasNoHoles ==
    ASSUME WinAssumption, inbox \in Seq(Row), NEW after \in Nat, NEW i \in Pending, after < i
    PROVE  /\ \A m \in PendingWindowsRecords(after) : i <= m => i \in PendingWindowsRecords(after)
           /\ Cardinality(PendingWindowsRecords(after)) # MaxEvents => i \in PendingWindowsRecords(after)
<1> DEFINE above == {j \in Pending : j > after}
           below(x) == {j \in above : j < x}
           query == {j \in above : Cardinality(below(j)) < MaxEvents}
<1>1. query = PendingWindowsRecords(after) BY DEF PendingWindowsRecords
<1>2. above \subseteq 1 .. Len(inbox) /\ above \in SUBSET Nat /\ i \in above BY DEF Pending, RowIds
<1>a. \A x, j : j \in below(x) <=> j \in above /\ j < x OBVIOUS
<1>b. \A j : j \in query <=> j \in above /\ Cardinality(below(j)) < MaxEvents OBVIOUS
<1> HIDE DEF above, below, query
<1>3. \A x : IsFiniteSet(below(x)) /\ Cardinality(below(x)) \in Nat
  <2>1. IsFiniteSet(1 .. Len(inbox)) BY FS_Interval
  <2>2. \A x : below(x) \subseteq 1 .. Len(inbox) BY <1>2, <1>a
  <2> QED BY <2>1, <2>2, FS_Subset, FS_CardinalityType
<1>4. MaxEvents \in Nat \ {0} BY DEF WinAssumption
<1>5. ASSUME NEW m \in query, NEW j \in above, j <= m PROVE j \in query
  <2>0. m \in above /\ m \in Nat /\ j \in Nat BY <1>2, <1>5, <1>b
  <2>1. below(j) \subseteq below(m)
    <3> SUFFICES ASSUME NEW k \in below(j) PROVE k \in below(m) OBVIOUS
    <3>1. k \in above /\ k < j /\ k \in Nat BY <1>2, <1>a
    <3> QED BY <1>5, <1>a, <2>0, <3>1
  <2>2. Cardinality(below(j)) <= Cardinality(below(m)) BY <1>3, <2>1, FS_Subset
  <2>3. Cardinality(below(m)) < MaxEvents BY <1>5, <1>b
  <2>4. Cardinality(below(j)) < MaxEvents BY <1>3, <1>4, <2>2, <2>3
  <2> QED BY <1>5, <1>b, <2>4
<1>6. ASSUME i \notin query PROVE Cardinality(query) = MaxEvents
  <2> DEFINE out == above \ query
  <2>1. out \in SUBSET Nat /\ out # {} BY <1>2, <1>6
  <2> HIDE DEF out
  <2>2. PICK x \in out : \A n \in out : x <= n BY <2>1, LeastElement
  <2>3. x \in above /\ x \notin query /\ x \in Nat BY <2>1, <2>2 DEF out
  <2>4. \A n \in above : n < x => n \in query
    <3> SUFFICES ASSUME NEW n \in above, n < x, n \notin query PROVE FALSE OBVIOUS
    <3>1. n \in out /\ n \in Nat BY <1>2 DEF out
    <3>2. x <= n BY <2>2, <3>1
    <3> QED BY <2>3, <3>1, <3>2
  <2>5. \A n \in query : n \in above /\ n < x
    <3> SUFFICES ASSUME NEW n \in query, ~(n < x) PROVE FALSE BY <1>b
    <3>1. n \in above /\ n \in Nat BY <1>2, <1>b
    <3>2. x <= n BY <2>3, <3>1
    <3> QED BY <1>5, <2>3, <3>2
  <2>6. query = below(x) BY <1>a, <2>4, <2>5
  <2>7. Cardinality(query) \in Nat /\ Cardinality(query) >= MaxEvents
    <3>1. ~(Cardinality(below(x)) < MaxEvents) BY <1>b, <2>3
    <3> QED BY <1>3, <1>4, <2>6, <3>1
  <2>8. query # {}
    <3> SUFFICES ASSUME query = {} PROVE FALSE OBVIOUS
    <3>1. Cardinality(query) = 0 BY FS_EmptySet
    <3> QED BY <1>4, <2>7, <3>1
  <2>9. query \in SUBSET Nat /\ \A n \in query : n <= x
    <3>1. \A n \in query : n \in Nat /\ n < x BY <1>2, <2>5
    <3> QED BY <2>3, <3>1
  <2>10. PICK m \in query : \A n \in query : n <= m
    <3> QED BY <2>3, <2>8, <2>9, GreatestElement
  <2>11. below(m) = query \ {m}
    <3>1. m \in Nat BY <2>9, <2>10
    <3>2. ASSUME NEW n \in query \ {m} PROVE n \in below(m)
      <4>1. n \in Nat /\ n \in above /\ n <= m /\ n # m BY <2>5, <2>9, <2>10
      <4> QED BY <1>a, <3>1, <4>1
    <3>3. ASSUME NEW n \in below(m) PROVE n \in query \ {m}
      <4>1. n \in above /\ n < m /\ n \in Nat BY <1>2, <1>a
      <4>2. n \in query BY <1>5, <2>10, <3>1, <4>1
      <4> QED BY <3>1, <4>1, <4>2
    <3> QED BY <3>2, <3>3
  <2>12. Cardinality(below(m)) < MaxEvents BY <1>b, <2>10
  <2>13. Cardinality(query \ {m}) = Cardinality(query) - 1
    <3>1. IsFiniteSet(query) BY <1>3, <2>6
    <3> QED BY <2>10, <3>1, FS_RemoveElement
  <2>14. Cardinality(query) - 1 < MaxEvents BY <2>11, <2>12, <2>13
  <2> QED BY <1>4, <2>7, <2>14
<1> QED BY <1>1, <1>2, <1>5, <1>6

\* What is pending after a step was pending before, or is a row that nobody has seen.
LEMMA PendingStep ==
    ASSUME TypeOK, Queued, SameTables \/ NewRow \/ NewEvent
    PROVE  /\ Len(inbox) \in Nat /\ Len(inbox') \in Nat /\ Len(inbox) <= Len(inbox')
           /\ \A i \in Pending' : i \in Pending \/ (i > Len(inbox) /\ i \in Nat /\ i \notin RowIds)
           /\ \A i \in Pending : i \in Nat /\ i <= Len(inbox)
<1>1. inbox \in Seq(Row) BY DEF TypeOK, DbTyped
<1>2. \A i \in Pending : i \in Nat /\ i <= Len(inbox) BY <1>1 DEF Pending, RowIds
<1>3. CASE SameTables BY <1>1, <1>2, <1>3 DEF SameTables, Pending, RowIds
<1>4. CASE NewRow
  <2>1. PICK row \in Row : inbox' = Append(inbox, row) BY <1>4 DEF NewRow
  <2>2. /\ RowIds' = RowIds \cup {Len(inbox) + 1} /\ Len(inbox') = Len(inbox) + 1
        /\ \A i \in RowIds : inbox'[i] = inbox[i]
    BY <1>1, <2>1, AppendedRow DEF RowIds
  <2> QED BY <1>1, <1>2, <2>2 DEF Pending, RowIds
<1>5. CASE NewEvent
  <2>1. PICK live \in SUBSET RowIds, path \in Canaries : Consumes(live, path) BY <1>5 DEF NewEvent
  <2>2. RowIds' = RowIds BY <2>1 DEF Consumes, RowIds
  <2>3. RowIds = 1 .. Len(inbox) BY <1>1 DEF RowIds
  <2>4. Len(inbox') = Len(inbox) BY <1>1, <2>1, <2>2, <2>3 DEF Consumes, RowIds
  <2>5. ASSUME NEW i \in Pending' PROVE i \in Pending
    <3>1. i \in RowIds /\ inbox'[i].event = 0 BY <2>2 DEF Pending
    <3>2. inbox[i] \in Row /\ Len(events) + 1 # 0 BY <1>1, <3>1 DEF RowIds, TypeOK, DbTyped
    <3>3. CASE i \in live BY <2>1, <3>3 DEF Consumes
    <3>4. CASE i \notin live BY <2>1, <3>1, <3>4 DEF Consumes, Pending
    <3> QED BY <3>3, <3>4
  <2> QED BY <1>1, <1>2, <2>4, <2>5
<1> QED BY <1>3, <1>4, <1>5

LEMMA RememberedStep ==
    ASSUME WinAssumption, TypeOK, Queued, Remembered, [Next]_vars
    PROVE  Remembered'
<1>1. SameTables \/ NewRow \/ NewEvent BY TableStep
<1>2. /\ Len(inbox) \in Nat /\ Len(inbox') \in Nat /\ Len(inbox) <= Len(inbox')
      /\ \A i \in Pending' : i \in Pending \/ (i > Len(inbox) /\ i \in Nat /\ i \notin RowIds)
      /\ \A i \in Pending : i \in Nat /\ i <= Len(inbox)
  BY <1>1, PendingStep
<1>3. /\ hits \in [Procs -> SUBSET (Nat \ {0})] /\ coal \in [Procs -> [Canaries -> SUBSET (Nat \ {0})]]
      /\ wq \in [Procs -> Seq(Job)] /\ emitted \in [Procs -> SUBSET (Nat \ {0})]
      /\ scan \in [Procs -> [after : Nat, seen : SUBSET (Nat \ {0})]] /\ inbox \in Seq(Row)
  BY DEF TypeOK, EmitTyped, MainTyped, DbTyped
<1>4. \A p \in Procs, i \in Nat : InProcess(p, i) => i \in RowIds BY DEF Queued, InProcess
<1>5. ASSUME NEW p \in Procs
      PROVE  /\ \A i \in Pending : InProcess(p, i) => i \in emitted[p]
             /\ scan[p].after \in Nat /\ scan[p].after <= Len(inbox)
             /\ \A i \in Pending : i <= scan[p].after => i \in scan[p].seen
  BY <1>3 DEF Remembered
\* What a process that emits nothing does to its queues.
<1>6. ASSUME NEW p \in Procs, scan'[p] \in {scan[p], StartScan}, emitted'[p] = emitted[p],
             \A i \in Nat : InProcess(p, i)' => InProcess(p, i)
      PROVE  /\ \A i \in Pending' : InProcess(p, i)' => i \in emitted'[p]
             /\ scan'[p].after <= Len(inbox')
             /\ \A i \in Pending' : i <= scan'[p].after => i \in scan'[p].seen
  <2>1. ASSUME NEW i \in Pending', InProcess(p, i)' PROVE i \in emitted'[p]
    <3>1. i \in Nat BY <1>2
    <3>2. InProcess(p, i) /\ i \in RowIds BY <1>4, <1>6, <2>1, <3>1
    <3>3. i \in Pending BY <1>2, <3>2
    <3> QED BY <1>5, <1>6, <3>2, <3>3
  <2>2. CASE scan'[p] = scan[p] BY <1>2, <1>5, <2>1, <2>2
  <2>3. CASE scan'[p] = StartScan
    <3>1. \A i \in Pending' : i \in Nat /\ i # 0 BY <1>2, <1>3 DEF Pending, RowIds
    <3>2. StartScan.after = 0 BY DEF StartScan
    <3> QED BY <1>2, <2>1, <2>3, <3>1, <3>2
  <2> QED BY <1>6, <2>2, <2>3
<1>7. ASSUME NEW p \in Procs, UNCHANGED <<hits, coal, wq>>
      PROVE  \A i \in Nat : InProcess(p, i)' => InProcess(p, i)
  BY <1>7 DEF InProcess
<1>8. ASSUME NEW p \in Procs, EmitPage(p) \/ EmitLastPage(p), UNCHANGED mainVars PROVE Remembered'
  <2> DEFINE query == PendingPage(p)
  <2>1. /\ hits' = [hits EXCEPT ![p] = @ \cup (query \ emitted[p])] /\ UNCHANGED <<inbox, coal, wq>>
    BY <1>8 DEF EmitPage, EmitLastPage, QueueFresh, dbVars, mainVars
  <2>2. Pending' = Pending BY <2>1 DEF Pending, RowIds
  <2>3. query \subseteq Pending BY DEF PendingPage, PendingWindowsRecords
  <2>4. \A i \in Pending : i > scan[p].after =>
          /\ \A m \in query : i <= m => i \in query
          /\ ~FullPage(p) => i \in query
    BY <1>3, <1>5, QueryHasNoHoles DEF PendingPage, FullPage
  <2> HIDE DEF query
  <2>5. \A i \in Nat : InProcess(p, i)' => InProcess(p, i) \/ i \in query
    BY <1>3, <2>1 DEF InProcess
  <2>6. ASSUME NEW q \in Procs, q # p
        PROVE  /\ \A i \in Pending' : InProcess(q, i)' => i \in emitted'[q]
               /\ scan'[q].after <= Len(inbox')
               /\ \A i \in Pending' : i <= scan'[q].after => i \in scan'[q].seen
    <3>1. scan'[q] = scan[q] /\ emitted'[q] = emitted[q]
      BY <1>3, <1>8, <2>6 DEF EmitPage, EmitLastPage
    <3>2. \A i \in Nat : InProcess(q, i)' => InProcess(q, i)
      BY <1>3, <2>1, <2>6 DEF InProcess
    <3> QED BY <1>6, <3>1, <3>2
  <2>7. CASE EmitPage(p)
    <3>1. PICK m \in query :
            /\ \A i \in query : i <= m
            /\ emitted' = [emitted EXCEPT ![p] = @ \cup query]
            /\ scan' = [scan EXCEPT ![p] = [after |-> m, seen |-> @.seen \cup query]]
      BY <2>7 DEF EmitPage, query
    <3>2. emitted'[p] = emitted[p] \cup query BY <1>3, <3>1
    <3>3. scan'[p].after = m /\ scan'[p].seen = scan[p].seen \cup query BY <1>3, <3>1
    <3>4. m <= Len(inbox') /\ m \in Nat BY <1>2, <2>1, <2>3, <3>1
    <3>5. ASSUME NEW i \in Pending, i <= m PROVE i \in scan[p].seen \cup query
      <4>1. i \in Nat /\ scan[p].after \in Nat BY <1>2, <1>5
      <4>2. CASE i <= scan[p].after BY <1>5, <4>2
      <4>3. CASE i > scan[p].after BY <2>4, <3>1, <3>5, <4>3
      <4> QED BY <4>1, <4>2, <4>3
    <3>6. \A i \in Pending : InProcess(p, i)' => i \in emitted'[p] BY <1>2, <1>5, <2>5, <3>2
    <3> QED BY <2>2, <2>6, <3>3, <3>4, <3>5, <3>6 DEF Remembered
  <2>8. CASE EmitLastPage(p)
    <3>1. /\ emitted'[p] = (emitted[p] \cup query) \cap (scan[p].seen \cup query)
          /\ scan'[p] = StartScan /\ ~FullPage(p)
      BY <1>3, <2>8 DEF EmitLastPage, query
    <3>2. ASSUME NEW i \in Pending PROVE i \in scan[p].seen \cup query
      <4>1. i \in Nat /\ scan[p].after \in Nat BY <1>2, <1>5
      <4>2. CASE i <= scan[p].after BY <1>5, <4>2
      <4>3. CASE i > scan[p].after BY <2>4, <3>1, <4>3
      <4> QED BY <4>1, <4>2, <4>3
    <3>3. \A i \in Pending : InProcess(p, i)' => i \in emitted'[p]
      BY <1>2, <1>5, <2>5, <3>1, <3>2
    <3>4. scan'[p].after = 0 BY <3>1 DEF StartScan
    <3>5. \A i \in Pending : i \in Nat /\ i # 0 BY <1>3 DEF Pending, RowIds
    <3> QED BY <1>2, <2>2, <2>6, <3>3, <3>4, <3>5 DEF Remembered
  <2> QED BY <1>8, <2>7, <2>8
<1>9. ASSUME \A q \in Procs :
               /\ scan'[q] \in {scan[q], StartScan} /\ emitted'[q] = emitted[q]
               /\ \A i \in Nat : InProcess(q, i)' => InProcess(q, i)
      PROVE  Remembered'
  BY <1>6, <1>9 DEF Remembered
<1>10. ASSUME NEW p \in Procs, TakeHit(p) PROVE Remembered'
  <2>1. PICK i \in hits[p] :
          /\ hits' = [hits EXCEPT ![p] = @ \ {i}]
          /\ coal' = [coal EXCEPT ![p][inbox[i].path] = @ \cup {i}]
          /\ UNCHANGED <<wq, scan, emitted>>
    BY <1>10 DEF TakeHit
  <2>2. ASSUME NEW q \in Procs, NEW j \in Nat, InProcess(q, j)' PROVE InProcess(q, j)
    <3>1. hits'[q] \subseteq hits[q] BY <1>3, <2>1
    <3>2. \A c \in Canaries : j \in coal'[q][c] => j \in coal[q][c] \/ (q = p /\ j = i)
      BY <1>3, <2>1
    <3> QED BY <2>1, <2>2, <3>1, <3>2 DEF InProcess
  <2> QED BY <1>9, <2>1, <2>2
<1>11. ASSUME NEW p \in Procs, NEW c \in Canaries, Dispatch(p, c) PROVE Remembered'
  <2> DEFINE job == [path |-> c, ids |-> coal[p][c]]
  <2>1. /\ coal' = [coal EXCEPT ![p][c] = {}] /\ wq' = [wq EXCEPT ![p] = Append(@, job)]
        /\ UNCHANGED <<hits, scan, emitted>>
    BY <1>11 DEF Dispatch, winVars, watchVars, threadVars, emitVars
  <2>2. job.ids = coal[p][c] OBVIOUS
  <2> HIDE DEF job
  <2>3. ASSUME NEW q \in Procs, NEW j \in Nat, InProcess(q, j)' PROVE InProcess(q, j)
    <3>1. \A d \in Canaries : coal'[q][d] \subseteq coal[q][d] BY <1>3, <2>1
    <3>2. ASSUME NEW k \in DOMAIN wq'[q], j \in wq'[q][k].ids PROVE InProcess(q, j)
      <4>1. CASE q # p BY <1>3, <2>1, <3>2, <4>1 DEF InProcess
      <4>2. CASE q = p
        <5>1. wq[p] \in Seq(Job) /\ wq'[p] = Append(wq[p], job) BY <1>3, <2>1
        <5>2. (k \in DOMAIN wq[p] /\ wq'[p][k] = wq[p][k]) \/ wq'[p][k] = job
          BY <3>2, <4>2, <5>1
        <5> QED BY <2>2, <3>2, <4>2, <5>2 DEF InProcess
      <4> QED BY <4>1, <4>2
    <3> QED BY <2>1, <2>3, <3>1, <3>2 DEF InProcess
  <2> QED BY <1>9, <2>1, <2>3
<1>12. ASSUME NEW p \in Procs, WriterCommit(p) \/ WriterFails(p) PROVE Remembered'
  <2>1. /\ wq[p] # <<>> /\ wq' = [wq EXCEPT ![p] = Tail(@)] /\ UNCHANGED <<hits, coal, scan, emitted>>
    BY <1>12 DEF WriterCommit, WriterFails, watchVars, threadVars, emitVars
  <2>2. ASSUME NEW q \in Procs, NEW k \in DOMAIN wq'[q]
        PROVE \E m \in DOMAIN wq[q] : wq'[q][k] = wq[q][m]
    <3>1. wq[q] \in Seq(Job) BY <1>3
    <3>2. CASE q = p
      <4>1. k + 1 \in DOMAIN wq[q] /\ wq'[q][k] = wq[q][k + 1] BY <1>3, <2>1, <2>2, <3>1, <3>2
      <4> QED BY <4>1
    <3>3. CASE q # p BY <1>3, <2>1, <2>2, <3>3
    <3> QED BY <3>2, <3>3
  <2>3. \A q \in Procs, j \in Nat : InProcess(q, j)' => InProcess(q, j) BY <2>1, <2>2 DEF InProcess
  <2> QED BY <1>9, <2>1, <2>3
<1>13. ASSUME NEW p \in Procs, Crash(p) PROVE Remembered'
  <2>1. /\ hits'[p] = {} /\ emitted'[p] = {} /\ scan'[p] = StartScan
        /\ coal'[p] = NoRows /\ wq'[p] = <<>>
    BY <1>3, <1>13 DEF Crash
  <2>2. \A i : ~InProcess(p, i)' BY <2>1 DEF InProcess, NoRows
  <2>3. ASSUME NEW q \in Procs, q # p
        PROVE  /\ \A i \in Pending' : InProcess(q, i)' => i \in emitted'[q]
               /\ scan'[q].after <= Len(inbox')
               /\ \A i \in Pending' : i <= scan'[q].after => i \in scan'[q].seen
    <3>1. /\ scan'[q] = scan[q] /\ emitted'[q] = emitted[q] /\ hits'[q] = hits[q]
          /\ coal'[q] = coal[q] /\ wq'[q] = wq[q]
      BY <1>3, <1>13, <2>3 DEF Crash
    <3>2. \A i \in Nat : InProcess(q, i)' => InProcess(q, i) BY <3>1 DEF InProcess
    <3> QED BY <1>6, <3>1, <3>2
  <2>4. \A i \in Pending' : i \in Nat /\ i # 0 BY <1>2, <1>3 DEF Pending, RowIds
  <2>5. scan'[p].after = 0 BY <2>1 DEF StartScan
  <2> QED BY <1>2, <2>2, <2>3, <2>4, <2>5 DEF Remembered
<1>14. ASSUME NEW p \in Procs, WatcherStep(p) \/ PollFails(p), UNCHANGED mainVars PROVE Remembered'
  <2>1. CASE EmitPage(p) \/ EmitLastPage(p) BY <1>8, <1>14, <2>1
  <2>2. CASE PollFails(p)
    <3>1. /\ UNCHANGED <<hits, coal, wq, emitted>> /\ \A q \in Procs : scan'[q] \in {scan[q], StartScan}
      BY <1>3, <1>14, <2>2 DEF PollFails, mainVars
    <3> QED BY <1>7, <1>9, <3>1
  <2>3. CASE ~(EmitPage(p) \/ EmitLastPage(p) \/ PollFails(p))
    <3>1. UNCHANGED <<emitVars, mainVars>>
      BY <1>14, <2>3 DEF WatcherStep, ReadCheckpoint, ReadGeneration, BeginPoll, FetchGap, Rotate,
         Rewind, FetchRecords, FetchNothing, StageRecord
    <3> QED BY <1>7, <1>9, <3>1 DEF emitVars, mainVars
  <2> QED BY <2>1, <2>2, <2>3
<1>15. CASE WindowsStep /\ UNCHANGED mainVars
  BY <1>7, <1>9, <1>15 DEF WindowsStep, LogClear, LogAppend, threadVars, emitVars, mainVars
<1>16. ASSUME NEW p \in Procs, StartMain(p) \/ SubmitTimesOut(p) PROVE Remembered'
  BY <1>7, <1>9, <1>16 DEF StartMain, SubmitTimesOut, winVars, watchVars, threadVars, emitVars
<1>17. CASE UNCHANGED vars
  BY <1>7, <1>9, <1>17 DEF vars, winVars, watchVars, threadVars, emitVars, mainVars
<1> QED
  BY <1>10, <1>11, <1>12, <1>13, <1>14, <1>15, <1>16, <1>17 DEF Next, MonitorStep

\* However many pages a scan takes, and whatever is consumed, timed out or appended
\* while it runs, a watcher puts no row on the queue that the coalescer or a job of
\* its process still holds.
THEOREM QueuedOnce == ASSUME WinAssumption, PipelineAssumption PROVE Spec => EmittedOnce
<1> DEFINE Fresh == \A p \in Procs : \A i \in hits'[p] \ hits[p] :
               /\ \A c \in Canaries : i \notin coal[p][c]
               /\ \A k \in DOMAIN wq[p] : i \notin wq[p][k].ids
<1>1. Init => Remembered
  BY DEF Init, DbInit, WatchInit, Remembered, Pending, RowIds, StartScan
<1>2. TypeOK /\ Queued /\ Remembered /\ [Next]_vars => Remembered' BY RememberedStep
<1>3. TypeOK /\ Remembered /\ [Next]_vars => [Fresh]_vars
  <2> SUFFICES ASSUME TypeOK, Remembered, Next, NEW p \in Procs, NEW i \in hits'[p], i \notin hits[p]
               PROVE  ~InProcess(p, i)
    BY DEF InProcess, vars
  <2>1. hits \in [Procs -> SUBSET (Nat \ {0})] BY DEF TypeOK, EmitTyped
  <2>2. hits' # hits OBVIOUS
  <2>3. CASE \E q \in Procs : EmitPage(q) \/ EmitLastPage(q)
    <3>1. PICK q \in Procs : hits' = [hits EXCEPT ![q] = @ \cup (PendingPage(q) \ emitted[q])]
      BY <2>3 DEF EmitPage, EmitLastPage, QueueFresh
    <3>2. q = p /\ i \in PendingPage(p) /\ i \notin emitted[p] BY <2>1, <3>1
    <3>3. i \in Pending BY <3>2 DEF PendingPage, PendingWindowsRecords
    <3> QED BY <3>2, <3>3 DEF Remembered
  <2>4. ASSUME NEW q \in Procs, TakeHit(q) \/ Crash(q) PROVE FALSE
    BY <2>1, <2>4 DEF TakeHit, Crash
  <2>5. ASSUME NEW q \in Procs, WatcherStep(q) \/ PollFails(q), ~EmitPage(q), ~EmitLastPage(q) PROVE FALSE
    BY <2>2, <2>5 DEF WatcherStep, ReadCheckpoint, ReadGeneration, BeginPoll, FetchGap, Rotate,
       Rewind, FetchRecords, FetchNothing, StageRecord, PollFails, emitVars
  <2>6. ASSUME NEW q \in Procs, MonitorStep(q) \/ WriterFails(q) \/ SubmitTimesOut(q), ~TakeHit(q)
        PROVE  FALSE
    BY <2>2, <2>6 DEF MonitorStep, StartMain, Dispatch, WriterCommit, WriterFails, SubmitTimesOut,
       winVars, watchVars, threadVars, emitVars
  <2>7. CASE WindowsStep BY <2>2, <2>7 DEF WindowsStep, LogClear, LogAppend, threadVars, emitVars
  <2> QED BY <2>3, <2>4, <2>5, <2>6, <2>7 DEF Next
<1>4. TableInv => TypeOK /\ Queued BY DEF TableInv
<1> QED BY <1>1, <1>2, <1>3, <1>4, TableInvariant, PTL DEF Spec, EmittedOnce
-----------------------------------------------------------------------------
(* A read that leaves the log unseen is reported. *)

\* Canary reads that left the log, are not in the inbox, and that neither a report nor the
\* exceptions cover.
Gone == {i \in Nat : <<0, i>> \in occ \ StoredReads /\ i < oldest /\ <<0, i>> \notin noted}

\* A page in work has every read between the checkpoint and its last record that is neither
\* in the inbox nor reported.
NoneBetween(p) == pc[p] = "stage" =>
    \A r \in page[p], i \in Nat :
        <<0, i>> \in occ \ StoredReads /\ <<0, i>> \notin noted /\ last[p] < i /\ i < r.rid
        => \E s \in page[p] : s.rid = i

LogKept ==
    /\ \A o \in occ : o[1] = 0 /\ o[2] \in 1 .. newest /\ obj[o[2]] \in Canaries
    /\ newest > 0 => oldest <= newest
    /\ oldest <= newest + 1

\* What a watcher knows of the reads that are gone.
Aware(p) ==
    /\ last[p] = 0 \/ Unchecked(p) => Gone = {}
    /\ \A i \in Gone : ~(i <= last[p])
    /\ pc[p] \in {"rewind", "rotate"} => last[p] > 0
    /\ NoneBetween(p)

\* A read that is gone lies above every checkpoint, the durable one and a watcher's own,
\* and there is none once the poll has compared the range.
GapInv == clears = 0 =>
    /\ LogKept
    /\ ckpt = 0 => Gone = {}
    /\ \A i \in Gone : ~(i <= ckpt)
    /\ \A p \in Procs : pc[p] # "down" => Aware(p)

LEMMA StagedRead ==
    ASSUME WinAssumption, TypeOK, CoverInv', clears' = 0, NEW p \in Procs, NEW r \in page[p],
           StageRecord(p, r), r.obj \in Canaries
    PROVE  <<0, r.rid>> \in StoredReads'
<1> DEFINE row == [gen |-> wgen[p], rid |-> r.rid, path |-> r.obj, epoch |-> pageEpoch[p], event |-> 0]
           old == \E i \in RowIds : inbox[i].gen = wgen[p] /\ inbox[i].rid = r.rid
<1>1. IF old THEN inbox' = inbox ELSE inbox' = Append(inbox, row)
  BY DEF StageRecord, StageWindowsRecord, InsertRow
<1>2. row.rid = r.rid OBVIOUS
<1>3. inbox \in Seq(Row) BY DEF TypeOK, DbTyped
<1>4. \E i \in RowIds' : inbox'[i].rid = r.rid
  <2>1. CASE old BY <1>1, <2>1 DEF RowIds
  <2>2. CASE ~old
    <3> HIDE DEF row, old
    <3>1. Len(inbox) + 1 \in RowIds' /\ inbox'[Len(inbox) + 1] = row BY <1>1, <1>3, <2>2 DEF RowIds
    <3> QED BY <1>2, <3>1
  <2> QED BY <2>1, <2>2
<1>5. \A i \in RowIds' : inbox'[i].epoch = 0 BY DEF CoverInv
<1> QED BY <1>4, <1>5 DEF StoredReads

\* The log grows.  What it drops was retained, so either some watcher or the database has
\* no checkpoint beyond it, and then it is excused, or it is in the inbox.
LEMMA AppendAware ==
    ASSUME WinAssumption, TypeOK, CoverInv, GapInv, clears = 0, NEW o \in Objects, LogAppend(o)
    PROVE  GapInv'
<1> USE WinAssumption DEF TypeOK, LogTyped, DbTyped, PollTyped
<1>1. /\ newest' = newest + 1 /\ newest' \in RecordId /\ clears' = clears
      /\ UNCHANGED <<ckpt, inbox, pc, last, first, ret, page>>
  BY DEF LogAppend, dbVars, threadVars, pageVars, RecordId
<1>2. LogKept /\ (ckpt = 0 => Gone = {}) /\ (\A i \in Gone : ~(i <= ckpt))
      /\ \A p \in Procs : pc[p] # "down" => Aware(p)
  BY DEF GapInv
<1>3. \A i \in 1 .. newest : obj'[i] = obj[i] BY <1>1 DEF LogAppend, RecordId
<1>4. \A e \in occ' : e \in occ \/ (e = <<0, newest + 1>> /\ obj'[newest + 1] \in Canaries)
  BY <1>1 DEF LogAppend, RecordId
<1>5. oldest' \in {oldest, oldest + 1} /\ oldest' <= newest' BY <1>1, <1>2 DEF LogAppend, LogKept
<1>6. LogKept'
  <2>1. ASSUME NEW e \in occ' PROVE e[1] = 0 /\ e[2] \in 1 .. newest' /\ obj'[e[2]] \in Canaries
    <3>1. CASE e \in occ
      <4>1. e[1] = 0 /\ e[2] \in 1 .. newest /\ obj[e[2]] \in Canaries BY <1>2, <3>1 DEF LogKept
      <4>2. obj'[e[2]] = obj[e[2]] BY <1>3, <4>1
      <4>3. e[2] \in 1 .. newest' BY <1>1, <4>1
      <4> QED BY <4>1, <4>2, <4>3
    <3>2. CASE e \notin occ BY <1>1, <1>4, <3>2
    <3> QED BY <3>1, <3>2
  <2> QED BY <1>1, <1>5, <2>1 DEF LogKept
<1>7. noted \subseteq noted' BY DEF LogAppend, Forgive
<1>b. StoredReads' = StoredReads BY <1>1 DEF StoredReads, RowIds
<1>8. ASSUME NEW i \in Gone'
      PROVE  \/ i \in Gone
             \/ /\ i \in Retained /\ obj[i] \in Canaries /\ <<0, i>> \notin StoredReads
                /\ ckpt # 0 /\ \A p \in Procs : ~Unchecked(p)
  <2>1. i \in Nat /\ <<0, i>> \in occ' /\ i < oldest' /\ <<0, i>> \notin noted' /\ <<0, i>> \notin StoredReads
    BY <1>b DEF Gone
  <2>2. i # newest + 1 BY <1>1, <1>5, <2>1
  <2>3. <<0, i>> \in occ BY <1>4, <2>1, <2>2
  <2>4. i \in 1 .. newest /\ obj[i] \in Canaries BY <1>2, <2>3 DEF LogKept
  <2>5. CASE i < oldest BY <1>7, <2>1, <2>3, <2>5 DEF Gone
  <2>6. CASE ~(i < oldest)
    <3>1. i = oldest /\ oldest' = oldest + 1 BY <1>5, <2>1, <2>6
    <3>2. <<0, i>> \in {clears} \X (oldest .. oldest' - 1) BY <3>1
    <3>3. ~(ckpt = 0 \/ \E p \in Procs : Unchecked(p)) BY <2>1, <2>3, <3>2 DEF LogAppend, Forgive
    <3> QED BY <2>1, <2>4, <3>1, <3>3 DEF Retained
  <2> QED BY <2>5, <2>6
<1>10. ckpt' = 0 => Gone' = {} BY <1>1, <1>2, <1>8
<1>11. \A i \in Gone' : ~(i <= ckpt') BY <1>1, <1>2, <1>8 DEF CoverInv, Covered
<1>12. ASSUME NEW p \in Procs, pc'[p] # "down" PROVE Aware(p)'
  <2>1. Aware(p) /\ Covered(last[p]) /\ PageComplete(p) BY <1>1, <1>2, <1>12 DEF CoverInv
  <2>2. Unchecked(p)' <=> Unchecked(p) BY <1>1 DEF Unchecked
  <2>3. last[p] = 0 => Unchecked(p) BY <1>1, <1>12 DEF Unchecked
  <2>4. last'[p] = 0 \/ Unchecked(p)' => Gone' = {} BY <1>1, <1>8, <2>1, <2>2, <2>3 DEF Aware
  <2>5. \A i \in Gone' : ~(i <= last'[p]) BY <1>1, <1>8, <2>1 DEF Aware, Covered
  <2>7. NoneBetween(p)'
    <3> SUFFICES ASSUME pc[p] = "stage", NEW r \in page[p], NEW i \in Nat, <<0, i>> \in occ' \ StoredReads,
                        <<0, i>> \notin noted', last[p] < i, i < r.rid
                 PROVE  \E s \in page[p] : s.rid = i
      BY <1>1, <1>b DEF NoneBetween
    <3>1. r.rid \in Nat /\ r.rid <= newest BY <2>1 DEF PageComplete
    <3>2. <<0, i>> \in occ BY <1>4, <3>1
    <3> QED BY <1>7, <2>1, <3>2 DEF Aware, NoneBetween
  <2> QED BY <1>1, <2>1, <2>4, <2>5, <2>7 DEF Aware
<1> QED BY <1>6, <1>10, <1>11, <1>12 DEF GapInv

LEMMA GapStep ==
    ASSUME WinAssumption, TypeOK, TypeOK', Queued, CoverInv, CoverInv', GapInv, [Next]_vars
    PROVE  GapInv'
<1> SUFFICES ASSUME clears' = 0 PROVE GapInv' BY DEF GapInv
<1> USE WinAssumption
<1>1. clears = 0 /\ (UNCHANGED logVars \/ \E o \in Objects : LogAppend(o)) BY LogStep DEF TypeOK, LogTyped
<1>2. CASE \E o \in Objects : LogAppend(o) BY <1>1, <1>2, AppendAware
<1> SUFFICES ASSUME UNCHANGED logVars PROVE GapInv' BY <1>1, <1>2
<1>3. UNCHANGED <<oldest, newest, obj, occ>> BY DEF logVars
<1>4. SameTables \/ NewRow \/ NewEvent BY TableStep
<1>5. StoredReads \subseteq StoredReads' BY <1>4, RowsStay DEF StoredReads, SameRead
<1>6. /\ LogKept /\ (ckpt = 0 => Gone = {}) /\ (\A i \in Gone : ~(i <= ckpt))
      /\ \A q \in Procs : pc[q] # "down" => Aware(q)
  BY <1>1 DEF GapInv
<1>7. /\ ckpt \in Nat /\ pc \in [Procs -> {"down", "boot", "idle", "emit", "fetch", "rotate", "rewind", "stage"}]
      /\ last \in [Procs -> Nat] /\ first \in [Procs -> BOOLEAN] /\ ret \in [Procs -> {"fetch", "idle"}]
      /\ page \in [Procs -> SUBSET [rid : Nat \ {0}, obj : Objects]]
      /\ oldest \in Nat \ {0} /\ newest \in Nat
  BY DEF TypeOK, LogTyped, DbTyped, PollTyped
<1>8. ckpt' \in Nat /\ last' \in [Procs -> Nat] BY DEF TypeOK, DbTyped, PollTyped
<1>9. LogKept' BY <1>3, <1>6 DEF LogKept
<1>a. noted \subseteq noted' => Gone' \subseteq Gone BY <1>3, <1>5 DEF Gone
\* A process that stays where it is.
<1>b. ASSUME NEW q \in Procs, noted \subseteq noted', pc'[q] = pc[q], last'[q] = last[q],
             first'[q] = first[q], ret'[q] = ret[q], page'[q] = page[q], Aware(q)
      PROVE  Aware(q)'
  <2>1. Gone' \subseteq Gone BY <1>a, <1>b
  <2>2. Unchecked(q)' <=> Unchecked(q) BY <1>b DEF Unchecked
  <2>3. NoneBetween(q)' BY <1>3, <1>5, <1>b DEF Aware, NoneBetween
  <2> QED BY <1>5, <1>b, <2>1, <2>2, <2>3 DEF Aware
\* A step of one process.
<1>c. ASSUME NEW p \in Procs, noted \subseteq noted',
             \A q \in Procs \ {p} : /\ pc'[q] = pc[q] /\ last'[q] = last[q] /\ first'[q] = first[q]
                                    /\ ret'[q] = ret[q] /\ page'[q] = page[q],
             pc'[p] # "down" => Aware(p)',
             \/ ckpt' = ckpt
             \/ ckpt' > 0 /\ \A i \in Gone' : ~(i <= ckpt')
      PROVE  GapInv'
  <2>1. \A q \in Procs : pc'[q] # "down" => Aware(q)' BY <1>6, <1>b, <1>c
  <2>2. Gone' \subseteq Gone BY <1>a, <1>c
  <2> QED BY <1>5, <1>6, <1>8, <1>9, <1>c, <2>1, <2>2 DEF GapInv
\* A step that moves one process without a new checkpoint, page or comparison.
<1>d. ASSUME NEW p \in Procs, UNCHANGED <<last, page, noted>>, ckpt' = ckpt, pc[p] # "down",
             Unchecked(p)' => Unchecked(p), pc'[p] \notin {"stage", "rewind", "rotate"},
             \A q \in Procs \ {p} : pc'[q] = pc[q] /\ first'[q] = first[q] /\ ret'[q] = ret[q]
      PROVE  GapInv'
  <2>1. Gone' \subseteq Gone BY <1>a, <1>d
  <2>2. Aware(p) BY <1>6, <1>d
  <2>3. NoneBetween(p)' BY <1>d DEF NoneBetween
  <2>4. Aware(p)' BY <1>5, <1>d, <2>1, <2>2, <2>3 DEF Aware
  <2> QED BY <1>c, <1>d, <2>4
<1>10. ASSUME NEW p \in Procs,
              StartMain(p) \/ TakeHit(p) \/ WriterCommit(p) \/ WriterFails(p) \/ SubmitTimesOut(p)
              \/ (\E c \in Canaries : Dispatch(p, c)) \/ UNCHANGED vars
       PROVE  GapInv'
  <2>1. UNCHANGED <<ckpt, pc, last, first, ret, page, noted>>
    BY <1>10 DEF StartMain, TakeHit, WriterCommit, InsertEvent, WriterFails, SubmitTimesOut, Dispatch,
       vars, winVars, dbVars, watchVars, threadVars, pageVars
  <2>2. pc'[p] # "down" => Aware(p)' BY <1>6, <1>b, <2>1
  <2> QED BY <1>c, <2>1, <2>2
<1>11. ASSUME NEW p \in Procs, Crash(p) PROVE GapInv'
  <2>1. /\ pc' = [pc EXCEPT ![p] = "down"] /\ page' = [page EXCEPT ![p] = {}]
        /\ last' = [last EXCEPT ![p] = 0] /\ first' = [first EXCEPT ![p] = TRUE]
        /\ ret' = [ret EXCEPT ![p] = "fetch"] /\ UNCHANGED <<ckpt, noted>>
    BY <1>11 DEF Crash, Goto, dbVars
  <2>2. pc'[p] = "down" /\ \A q \in Procs \ {p} : /\ pc'[q] = pc[q] /\ page'[q] = page[q]
                                                /\ last'[q] = last[q] /\ first'[q] = first[q] /\ ret'[q] = ret[q]
    BY <1>7, <2>1
  <2> QED BY <1>c, <2>1, <2>2
<1>12. ASSUME NEW p \in Procs, ReadCheckpoint(p) PROVE GapInv'
  <2>1. /\ pc' = [pc EXCEPT ![p] = "boot"] /\ last' = [last EXCEPT ![p] = ckpt]
        /\ UNCHANGED <<ckpt, first, ret, page, noted>>
    BY <1>12 DEF ReadCheckpoint, Goto, dbVars, pageVars
  <2>2. pc'[p] = "boot" /\ last'[p] = ckpt /\ \A q \in Procs \ {p} : pc'[q] = pc[q] /\ last'[q] = last[q]
    BY <1>7, <2>1
  <2>3. Gone' \subseteq Gone BY <1>a, <2>1
  <2>4. Unchecked(p)' => ckpt = 0 BY <2>2 DEF Unchecked
  <2>5. NoneBetween(p)' BY <2>2 DEF NoneBetween
  <2>6. Aware(p)' BY <1>5, <1>6, <2>2, <2>3, <2>4, <2>5 DEF Aware
  <2> QED BY <1>c, <2>1, <2>2, <2>6
<1>13. ASSUME NEW p \in Procs, ReadGeneration(p) \/ BeginPoll(p) \/ \E a \in Answers(p) : FetchNothing(p, a)
       PROVE  GapInv'
  <2>1. /\ UNCHANGED <<ckpt, last, page, noted>> /\ pc[p] # "down" /\ pc'[p] \in {"idle", "emit"}
        /\ (pc'[p] = "emit" => first'[p])
        /\ \A q \in Procs \ {p} : pc'[q] = pc[q] /\ first'[q] = first[q] /\ ret'[q] = ret[q]
    BY <1>7, <1>13 DEF ReadGeneration, BeginPoll, FetchNothing, Goto, dbVars, pageVars
  <2>2. Unchecked(p)' => Unchecked(p) BY <2>1 DEF Unchecked
  <2> QED BY <1>d, <2>1, <2>2
<1>14. ASSUME NEW p \in Procs, EmitPage(p) \/ EmitLastPage(p) PROVE GapInv'
  <2>1. /\ UNCHANGED <<ckpt, last, first, ret, page, noted>> /\ pc[p] = "emit" /\ pc'[p] \in {"emit", ret[p]}
        /\ \A q \in Procs \ {p} : pc'[q] = pc[q]
    BY <1>7, <1>14 DEF EmitPage, EmitLastPage, Goto, dbVars, pageVars
  <2>2. ret[p] \in {"fetch", "idle"} BY <1>7
  <2>3. Unchecked(p)' => Unchecked(p) BY <2>1, <2>2 DEF Unchecked
  <2>4. pc'[p] \in {"emit", "fetch", "idle"} BY <2>1, <2>2
  <2> QED BY <1>d, <2>1, <2>3, <2>4
<1>15. ASSUME NEW p \in Procs, PollFails(p) PROVE GapInv'
  <2>1. /\ UNCHANGED <<ckpt, last, first, ret, noted>> /\ page' = [page EXCEPT ![p] = {}]
        /\ pc' = [pc EXCEPT ![p] = "idle"] /\ pc[p] # "down"
    BY <1>15 DEF PollFails, Goto, dbVars
  <2>2. pc'[p] = "idle" /\ \A q \in Procs \ {p} : pc'[q] = pc[q] /\ page'[q] = page[q] BY <1>7, <2>1
  <2>3. Gone' \subseteq Gone /\ Aware(p) BY <1>6, <1>a, <2>1
  <2>4. Unchecked(p)' => Unchecked(p) BY <2>1, <2>2 DEF Unchecked
  <2>5. NoneBetween(p)' BY <2>2 DEF NoneBetween
  <2>6. Aware(p)' BY <1>5, <2>1, <2>2, <2>3, <2>4, <2>5 DEF Aware
  <2> QED BY <1>c, <2>1, <2>2, <2>6
<1>16. ASSUME NEW p \in Procs, Rotate(p) \/ Rewind(p) PROVE GapInv'
  <2>1. /\ ckpt' = last[p] /\ UNCHANGED <<last, first, ret, page, noted>>
        /\ pc[p] \in {"rotate", "rewind"} /\ pc' = [pc EXCEPT ![p] = "fetch"]
    BY <1>16 DEF Rotate, Rewind, RotateWindowsLog, SetCheckpoint, Goto, pageVars
  <2>2. pc'[p] = "fetch" /\ \A q \in Procs \ {p} : pc'[q] = pc[q] BY <1>7, <2>1
  <2>3. Gone' \subseteq Gone /\ Aware(p) BY <1>6, <1>a, <2>1
  <2>4. Unchecked(p)' => Unchecked(p) BY <2>1, <2>2 DEF Unchecked
  <2>5. NoneBetween(p)' BY <2>2 DEF NoneBetween
  <2>6. Aware(p)' BY <1>5, <2>1, <2>2, <2>3, <2>4, <2>5 DEF Aware
  <2>7. ckpt' > 0 /\ \A i \in Gone' : ~(i <= ckpt') BY <2>1, <2>3 DEF Aware
  <2> QED BY <1>c, <2>1, <2>2, <2>6, <2>7
\* A report owns up to everything that is gone and not in the inbox.
<1>17. ASSUME NEW p \in Procs, NEW a \in Answers(p), FetchGap(p, a) PROVE GapInv'
  <2>1. /\ UNCHANGED <<ckpt, inbox, ret, page>> /\ noted' = noted \cup Missed
        /\ last' = [last EXCEPT ![p] = IF a.oldest = 0 THEN 0 ELSE a.oldest - 1]
        /\ first' = [first EXCEPT ![p] = FALSE]
        /\ pc' = [pc EXCEPT ![p] = IF LogReset(p, a) THEN "rotate" ELSE "rewind"] /\ pc[p] # "down"
    BY <1>17 DEF FetchGap, Goto, dbVars, pageVars
  <2>2. \A q \in Procs \ {p} : pc'[q] = pc[q] /\ last'[q] = last[q] /\ first'[q] = first[q]
    BY <1>7, <2>1
  <2>3. a.oldest \in {OldestRecordId, 0} /\ a.newest \in {NewestRecordId, 0} /\ last[p] <= newest
    BY <1>1, Answered DEF CoverInv
  <2>4. ~LogReset(p, a) BY <1>7, <2>3 DEF LogReset, NewestRecordId
  <2>5. a.oldest > last[p] + 1 BY <1>17, <2>4 DEF FetchGap, CoverageGap
  <2>6. a.oldest = oldest /\ oldest > 1 BY <1>7, <2>3, <2>5 DEF OldestRecordId
  <2>7. last'[p] = oldest - 1 /\ pc'[p] = "rewind" BY <1>7, <2>1, <2>4, <2>6
  <2>8. Gone' = {}
    <3> SUFFICES ASSUME NEW i \in Gone' PROVE FALSE OBVIOUS
    <3>1. /\ i \in Nat /\ <<0, i>> \in occ /\ i < oldest /\ <<0, i>> \notin Missed
          /\ <<0, i>> \notin StoredReads
      BY <1>3, <1>5, <2>1 DEF Gone
    <3>2. i \notin Retained BY <1>7, <3>1 DEF Retained
    <3> QED BY <1>1, <3>1, <3>2 DEF Missed
  <2>9. NoneBetween(p)' BY <2>7 DEF NoneBetween
  <2>10. last'[p] > 0 BY <1>7, <2>6, <2>7
  <2>11. Aware(p)' BY <2>8, <2>9, <2>10 DEF Aware
  <2> QED BY <1>c, <2>1, <2>2, <2>11
\* So does a page that came without an answer to the query for the oldest record; with
\* one, the range was compared and nothing is gone.
<1>18. ASSUME NEW p \in Procs, NEW a \in Answers(p), FetchRecords(p, a) PROVE GapInv'
  <2>a. a.oldest \in {OldestRecordId, 0} /\ a.ids = FirstPage(p) BY <1>18, Answered DEF FetchRecords
  <2>1. /\ UNCHANGED <<ckpt, last>> /\ pc[p] = "fetch" /\ ~CoverageGap(p, a)
        /\ noted' = (IF a.oldest = OldestRecordId THEN noted ELSE noted \cup Missed)
        /\ page' = [page EXCEPT ![p] = {[rid |-> i, obj |-> obj[i]] : i \in FirstPage(p)}]
        /\ pc' = [pc EXCEPT ![p] = "stage"] /\ first' = [first EXCEPT ![p] = FALSE]
        /\ \A q \in Procs \ {p} : ret'[q] = ret[q]
    BY <1>7, <1>18, <2>a DEF FetchRecords, Goto, dbVars
  <2>2. pc'[p] = "stage" /\ last'[p] = last[p] /\ \A q \in Procs \ {p} :
          pc'[q] = pc[q] /\ page'[q] = page[q] /\ first'[q] = first[q]
    BY <1>7, <2>1
  <2>b. noted \subseteq noted' BY <2>1
  <2>3. Gone' \subseteq Gone /\ Aware(p) BY <1>6, <1>a, <2>1, <2>b
  <2>4. Gone' = {}
    <3>1. CASE last[p] = 0 \/ Unchecked(p) BY <2>3, <3>1 DEF Aware
    <3>2. CASE a.oldest # OldestRecordId
      <4> SUFFICES ASSUME NEW i \in Gone' PROVE FALSE OBVIOUS
      <4>1. /\ i \in Nat /\ <<0, i>> \in occ /\ i < oldest /\ <<0, i>> \notin Missed
            /\ <<0, i>> \notin StoredReads
        BY <1>3, <1>5, <2>1, <3>2 DEF Gone
      <4>2. i \notin Retained BY <1>7, <4>1 DEF Retained
      <4> QED BY <1>1, <4>1, <4>2 DEF Missed
    <3>3. CASE last[p] # 0 /\ ~Unchecked(p) /\ a.oldest = OldestRecordId
      <4> SUFFICES ASSUME NEW i \in Gone PROVE FALSE BY <2>3
      <4>1. i \in Nat /\ i < oldest /\ <<0, i>> \in occ BY DEF Gone
      <4>2. i \in 1 .. newest /\ oldest <= newest BY <1>6, <1>7, <4>1 DEF LogKept
      <4>3. OldestRecordId = oldest BY <1>7, <4>2 DEF OldestRecordId, Retained
      <4>4. first[p] /\ last[p] > 0 BY <1>7, <2>1, <3>3 DEF Unchecked
      <4>5. ~(oldest > last[p] + 1) BY <2>1, <3>3, <4>3, <4>4 DEF CoverageGap
      <4>6. ~(i <= last[p]) BY <2>3 DEF Aware
      <4> QED BY <1>7, <4>1, <4>5, <4>6
    <3> QED BY <3>1, <3>2, <3>3
  <2>5. NoneBetween(p)'
    <3> DEFINE fetched == {[rid |-> i, obj |-> obj[i]] : i \in FirstPage(p)}
    <3>1. page'[p] = fetched BY <1>7, <2>1
    <3> SUFFICES ASSUME NEW r \in fetched, NEW i \in Nat, <<0, i>> \in occ \ StoredReads', <<0, i>> \notin noted',
                        last[p] < i, i < r.rid
                 PROVE  \E s \in fetched : s.rid = i
      <4> HIDE DEF fetched
      <4> QED BY <1>3, <2>1, <2>2, <3>1 DEF NoneBetween
    <3>2. r.rid \in FirstPage(p) OBVIOUS
    <3>3. i \in 1 .. newest /\ obj[i] \in Canaries BY <1>6 DEF LogKept
    <3>4. ~(i < oldest)
      <4> SUFFICES ASSUME i < oldest PROVE FALSE OBVIOUS
      <4>1. i \in Gone' BY <1>3 DEF Gone
      <4> QED BY <2>4, <4>1
    <3>5. i \in Unseen(p) BY <1>7, <3>3, <3>4 DEF Unseen, Retained, WinAssumption
    <3>6. i \in FirstPage(p) BY <3>2, <3>5, PageHasNoHoles DEF TypeOK
    <3>7. [rid |-> i, obj |-> obj[i]] \in fetched /\ [rid |-> i, obj |-> obj[i]].rid = i BY <3>6
    <3> HIDE DEF fetched
    <3> QED BY <3>7
  <2>6. Aware(p)' BY <2>2, <2>4, <2>5 DEF Aware
  <2> QED BY <1>c, <2>1, <2>2, <2>6, <2>b
<1>19. ASSUME NEW p \in Procs, NEW r \in page[p], StageRecord(p, r) PROVE GapInv'
  <2>1. /\ ckpt' = r.rid /\ UNCHANGED <<first, ret, noted>> /\ last' = [last EXCEPT ![p] = r.rid]
        /\ page' = [page EXCEPT ![p] = @ \ {r}] /\ pc[p] = "stage"
        /\ pc'[p] \in {"stage", "emit", ret[p]} /\ \A q \in Procs \ {p} : pc'[q] = pc[q]
        /\ \A s \in page[p] : r.rid <= s.rid
    BY <1>7, <1>19 DEF StageRecord, StageWindowsRecord, IsNext, Goto
  <2>2. last'[p] = r.rid /\ page'[p] = page[p] \ {r}
        /\ \A q \in Procs \ {p} : last'[q] = last[q] /\ page'[q] = page[q]
    BY <1>7, <2>1
  <2>3. Gone' \subseteq Gone /\ Aware(p) BY <1>6, <1>a, <2>1
  <2>4. PageComplete(p) BY <1>1 DEF CoverInv
  <2>5. r.rid \in Nat \ {0} /\ last[p] \in Nat /\ last[p] < r.rid /\ r.obj = obj[r.rid]
    BY <1>7, <2>1, <2>4 DEF PageComplete
  <2>6. ASSUME NEW i \in Gone', i <= r.rid PROVE FALSE
    <3>1. i \in Gone /\ i \in Nat /\ <<0, i>> \in occ \ StoredReads /\ <<0, i>> \notin noted
          /\ <<0, i>> \notin StoredReads'
      BY <2>3 DEF Gone
    <3>2. CASE i <= last[p] BY <2>3, <3>1, <3>2 DEF Aware
    <3>3. CASE last[p] < i /\ i < r.rid
      <4>1. PICK s \in page[p] : s.rid = i BY <2>1, <2>3, <3>1, <3>3 DEF Aware, NoneBetween
      <4>2. r.rid <= i BY <2>1, <4>1
      <4> QED BY <2>5, <3>1, <3>3, <4>2
    <3>4. CASE i = r.rid
      <4>1. r.obj \in Canaries BY <1>6, <2>5, <3>1, <3>4 DEF LogKept
      <4> QED BY <1>19, <3>1, <3>4, <4>1, StagedRead
    <3> QED BY <2>5, <2>6, <3>1, <3>2, <3>3, <3>4
  <2>7. Unchecked(p)' => Unchecked(p)
    <3>1. ret[p] \in {"fetch", "idle"} BY <1>7
    <3> QED BY <2>1, <2>2, <2>5, <3>1 DEF Unchecked
  <2>8. last'[p] # 0 /\ (Unchecked(p)' => Gone' = {}) BY <2>2, <2>3, <2>5, <2>7 DEF Aware
  <2>9. NoneBetween(p)'
    <3> SUFFICES ASSUME NEW s \in page'[p], NEW i \in Nat, <<0, i>> \in occ \ StoredReads, <<0, i>> \notin noted,
                        r.rid < i, i < s.rid
                 PROVE  \E t \in page'[p] : t.rid = i
      BY <1>3, <1>5, <2>1, <2>2 DEF NoneBetween
    <3>1. s \in page[p] /\ last[p] < i BY <2>2, <2>5
    <3>2. PICK t \in page[p] : t.rid = i BY <2>1, <2>3, <3>1 DEF Aware, NoneBetween
    <3>3. t # r BY <2>5, <3>2
    <3> QED BY <2>2, <3>2, <3>3
  <2>10. pc'[p] \notin {"rewind", "rotate"}
    <3>1. ret[p] \in {"fetch", "idle"} BY <1>7
    <3> QED BY <2>1, <3>1
  <2>11. Aware(p)' BY <2>2, <2>5, <2>6, <2>8, <2>9, <2>10 DEF Aware
  <2>12. ckpt' > 0 /\ \A i \in Gone' : ~(i <= ckpt') BY <2>1, <2>5, <2>6
  <2> QED BY <1>c, <2>1, <2>2, <2>11, <2>12
<1>20. CASE WindowsStep
  <2>1. CASE LogClear BY <1>1, <2>1 DEF LogClear
  <2>2. CASE \E o \in Objects : LogAppend(o) BY <1>2, <2>2
  <2> QED BY <1>20, <2>1, <2>2 DEF WindowsStep
<1>21. CASE UNCHANGED vars
  <2>1. CASE Procs = {}
    <3>1. UNCHANGED <<ckpt, noted>> BY <1>21 DEF vars, winVars, dbVars, watchVars
    <3> QED BY <1>5, <1>6, <1>9, <1>a, <2>1, <3>1 DEF GapInv
  <2>2. CASE Procs # {} BY <1>10, <1>21, <2>2
  <2> QED BY <2>1, <2>2
<1> QED
  BY <1>10, <1>11, <1>12, <1>13, <1>14, <1>15, <1>16, <1>17, <1>18, <1>19, <1>20, <1>21
  DEF Next, WatcherStep, MonitorStep

\* For any page size, any number of processes, any rollover and any queries that fail in
\* silence: a fetch that reports nothing, and whose query for the oldest record was answered,
\* has missed nothing that was not reported, but for what left the log between the first
\* fetch of a poll and its last, before there was a checkpoint, or before a fetch that got
\* records without that answer.
THEOREM GapsReported == ASSUME WinAssumption, PipelineAssumption PROVE Spec => GapAlwaysReported
<1> DEFINE Owned == \A p \in Procs : \A a \in Answers(p) :
             /\ FetchRecords(p, a) \/ FetchNothing(p, a)
             /\ clears = 0 /\ last[p] > 0 /\ a.oldest = OldestRecordId
             => Missed \subseteq noted
<1>1. Init => CoverInv /\ GapInv
  BY DEF Init, LogInit, DbInit, WatchInit, CoverInv, Covered, Retained, RowIds, PageComplete, GapInv,
         LogKept, Gone, Aware
<1>2. TypeOK /\ TypeOK' /\ Queued /\ CoverInv /\ GapInv /\ [Next]_vars => CoverInv' /\ GapInv'
  BY CoverStep, GapStep
<1>3. TypeOK /\ GapInv => Owned
  <2> SUFFICES ASSUME TypeOK, GapInv, NEW p \in Procs, NEW a \in Answers(p),
                      FetchRecords(p, a) \/ FetchNothing(p, a),
                      clears = 0, last[p] > 0, a.oldest = OldestRecordId, NEW o \in Missed
               PROVE  o \in noted
    OBVIOUS
  <2>1. pc[p] = "fetch" /\ ~CoverageGap(p, a) BY DEF FetchRecords, FetchNothing
  <2>2. LogKept /\ Aware(p) BY <2>1 DEF GapInv
  <2>3. oldest \in Nat /\ newest \in Nat /\ last[p] \in Nat /\ first[p] \in BOOLEAN /\ occ \subseteq Nat \X Nat
    BY DEF TypeOK, LogTyped, PollTyped
  <2>4. o \in occ /\ o \notin StoredReads /\ ~(o[1] = 0 /\ o[2] \in Retained) BY DEF Missed
  <2>5. o[1] = 0 /\ o[2] \in 1 .. newest BY <2>2, <2>4 DEF LogKept
  <2>6. o = <<0, o[2]>> BY <2>3, <2>4, <2>5
  <2>7. o[2] \in Nat /\ o[2] < oldest BY <2>3, <2>4, <2>5 DEF Retained
  <2> SUFFICES ASSUME o \notin noted PROVE FALSE OBVIOUS
  <2>8. o[2] \in Gone BY <2>4, <2>6, <2>7 DEF Gone
  <2>9. ~(o[2] <= last[p]) BY <2>2, <2>8 DEF Aware
  <2>10. first[p] BY <2>1, <2>2, <2>3, <2>8 DEF Aware, Unchecked
  <2>11. a.oldest = oldest BY <2>2, <2>3, <2>5 DEF LogKept, OldestRecordId, Retained
  <2>12. ~(oldest > last[p] + 1) BY <2>1, <2>10, <2>11 DEF CoverageGap
  <2> QED BY <2>3, <2>7, <2>9, <2>12
<1>4. TableInv => TypeOK /\ Queued BY DEF TableInv
<1>5. Spec => [](CoverInv /\ GapInv) BY <1>1, <1>2, <1>4, TableInvariant, PTL DEF Spec
<1>6. TypeOK /\ GapInv /\ [Next]_vars => [Owned]_vars BY <1>3
<1> QED BY <1>4, <1>5, <1>6, TableInvariant, PTL DEF Spec, GapAlwaysReported
-----------------------------------------------------------------------------
(* With one process whose polls and writes succeed, no id is used twice. *)

\* The rows of the running generation lie at or below the checkpoint, which the watcher
\* knows, and the records of a page above it.
NewIds(p) ==
    /\ faults = 0
    /\ \A i \in RowIds : inbox[i].gen <= gen /\ (inbox[i].gen = gen => inbox[i].rid <= ckpt)
    /\ pc[p] \notin {"down", "boot"} => wgen[p] = gen
    /\ pc[p] \notin {"down", "rewind", "rotate"} => last[p] = ckpt
    /\ pc[p] = "rewind" => ckpt < last[p]
    /\ pc[p] = "stage" =>
          /\ \A r \in page[p] : last[p] < r.rid
          /\ \A r, s \in page[p] : r.rid = s.rid => r = s

AllNewIds == \A p \in Procs : NewIds(p)

LEMMA NewIdsStep ==
    ASSUME WinAssumption, TypeOK, TypeOK', Queued, MaxFaults = 0, NEW p, Procs = {p}, NewIds(p), [Next]_vars
    PROVE  NewIds(p)'
<1>1. SameTables \/ NewRow \/ NewEvent BY TableStep
<1>2. /\ ckpt \in Nat /\ gen \in Nat /\ inbox \in Seq(Row) /\ p \in Procs
      /\ pc \in [Procs -> {"down", "boot", "idle", "emit", "fetch", "rotate", "rewind", "stage"}]
      /\ last \in [Procs -> Nat] /\ wgen \in [Procs -> Nat] /\ ret \in [Procs -> {"fetch", "idle"}]
      /\ page \in [Procs -> SUBSET [rid : Nat \ {0}, obj : Objects]]
  BY DEF TypeOK, DbTyped, PollTyped
<1>3. ASSUME inbox' = inbox \/ NewEvent
      PROVE  \A i \in RowIds' : i \in RowIds /\ inbox'[i].gen = inbox[i].gen /\ inbox'[i].rid = inbox[i].rid
  <2>1. RowIds' = RowIds BY <1>3 DEF NewEvent, Consumes, RowIds
  <2>2. SameTables \/ NewEvent \/ NewRow BY <1>1
  <2> QED BY <2>1, <2>2, RowsStay DEF SameRead
<1>a. \A i \in RowIds : inbox[i].gen \in Nat /\ inbox[i].rid \in Nat
  <2> SUFFICES ASSUME NEW i \in RowIds PROVE inbox[i].gen \in Nat /\ inbox[i].rid \in Nat OBVIOUS
  <2>1. inbox[i] \in Row BY <1>2 DEF RowIds
  <2> QED BY <2>1 DEF Row
\* A step that stages nothing and moves no checkpoint.
<1>4. ASSUME inbox' = inbox \/ NewEvent, UNCHANGED <<gen, ckpt, faults>>,
             pc'[p] \notin {"down", "boot"} => wgen'[p] = gen,
             pc'[p] \notin {"down", "rewind", "rotate"} => last'[p] = ckpt,
             pc'[p] = "rewind" => ckpt < last'[p],
             pc'[p] = "stage" => pc[p] = "stage" /\ last'[p] = last[p] /\ page'[p] = page[p]
      PROVE  NewIds(p)'
  BY <1>3, <1>4 DEF NewIds
<1>5. ASSUME inbox' = inbox \/ NewEvent, UNCHANGED <<gen, ckpt, faults, pc, last, wgen, page>>
      PROVE  NewIds(p)'
  BY <1>4, <1>5 DEF NewIds
<1>6. CASE WindowsStep
  BY <1>5, <1>6 DEF WindowsStep, LogClear, LogAppend, dbVars, threadVars, pageVars
<1>7. ASSUME StartMain(p) \/ TakeHit(p) \/ SubmitTimesOut(p) \/ (\E c \in Canaries : Dispatch(p, c))
      PROVE  NewIds(p)'
  BY <1>5, <1>7 DEF StartMain, TakeHit, SubmitTimesOut, Dispatch, winVars, dbVars, watchVars, threadVars, pageVars
<1>8. CASE WriterCommit(p)
  <2>1. UNCHANGED <<ckpt, gen>> /\ (inbox' = inbox \/ events' = Append(events, Head(wq[p]).path))
    BY <1>8 DEF WriterCommit, InsertEvent, dbVars
  <2>2. Len(events) \in Nat /\ (events' = Append(events, Head(wq[p]).path) => Len(events') = Len(events) + 1)
    BY DEF TypeOK, DbTyped
  <2>3. inbox' = inbox \/ NewEvent BY <1>1, <2>1, <2>2 DEF SameTables, NewRow
  <2> QED BY <1>5, <1>8, <2>1, <2>3 DEF WriterCommit, watchVars, threadVars, pageVars
<1>9. CASE WriterFails(p) \/ PollFails(p) BY <1>9 DEF WriterFails, PollFails, NewIds
<1>10. CASE Crash(p)
  <2>1. pc'[p] = "down" /\ UNCHANGED <<inbox, gen, ckpt, faults>> BY <1>2, <1>10 DEF Crash, Goto, dbVars
  <2> QED BY <1>4, <2>1
<1>11. CASE ReadCheckpoint(p)
  <2>1. pc'[p] = "boot" /\ last'[p] = ckpt /\ UNCHANGED <<inbox, gen, ckpt, faults>>
    BY <1>2, <1>11 DEF ReadCheckpoint, Goto, dbVars
  <2> QED BY <1>4, <2>1
<1>12. CASE ReadGeneration(p)
  <2>1. pc[p] = "boot" /\ pc'[p] = "idle" /\ wgen'[p] = gen /\ UNCHANGED <<inbox, gen, ckpt, faults, last>>
    BY <1>2, <1>12 DEF ReadGeneration, Goto, dbVars
  <2> QED BY <1>4, <2>1 DEF NewIds
<1>13. CASE BeginPoll(p) \/ EmitPage(p) \/ EmitLastPage(p) \/ \E a \in Answers(p) : FetchNothing(p, a)
  <2>1. ret[p] \in {"fetch", "idle"} BY <1>2
  <2>2. /\ pc[p] \in {"idle", "emit", "fetch"} /\ pc'[p] \in {"idle", "emit", "fetch"}
        /\ UNCHANGED <<inbox, gen, ckpt, faults, last, wgen>>
    BY <1>2, <1>13, <2>1 DEF BeginPoll, EmitPage, EmitLastPage, FetchNothing, Goto, dbVars
  <2> QED BY <1>4, <2>2 DEF NewIds
<1>14. ASSUME NEW a \in Answers(p), FetchGap(p, a) PROVE NewIds(p)'
  <2>1. /\ pc[p] = "fetch" /\ UNCHANGED <<inbox, gen, ckpt, faults, wgen>>
        /\ last'[p] = (IF a.oldest = 0 THEN 0 ELSE a.oldest - 1)
        /\ pc'[p] = IF LogReset(p, a) THEN "rotate" ELSE "rewind"
    BY <1>2, <1>14 DEF FetchGap, Goto, dbVars
  <2>2. last[p] = ckpt /\ wgen[p] = gen BY <2>1 DEF NewIds
  <2>3. ~LogReset(p, a) => a.oldest > last[p] + 1 BY <1>14 DEF FetchGap, CoverageGap
  <2>4. a.oldest \in Nat BY Answered DEF OldestRecordId, TypeOK, LogTyped
  <2>5. ~LogReset(p, a) => ckpt < last'[p] BY <1>2, <2>1, <2>2, <2>3, <2>4
  <2> QED BY <1>4, <2>1, <2>2, <2>5
<1>15. CASE Rotate(p)
  <2>1. /\ pc'[p] = "fetch" /\ gen' = gen + 1 /\ ckpt' = last[p] /\ wgen'[p] = gen + 1
        /\ UNCHANGED <<inbox, last, faults>>
    BY <1>2, <1>15 DEF Rotate, RotateWindowsLog, Goto
  <2>2. \A i \in RowIds' : inbox'[i].gen <= gen' /\ inbox'[i].gen # gen'
    <3>1. \A i \in RowIds : inbox[i].gen <= gen /\ inbox[i].gen \in Nat BY <1>a DEF NewIds
    <3>2. \A i \in RowIds : inbox[i].gen <= gen + 1 /\ inbox[i].gen # gen + 1 BY <1>2, <3>1
    <3> QED BY <1>3, <2>1, <3>2
  <2> QED BY <2>1, <2>2 DEF NewIds
<1>16. CASE Rewind(p)
  <2>1. /\ pc[p] = "rewind" /\ pc'[p] = "fetch" /\ ckpt' = last[p] /\ UNCHANGED <<inbox, gen, last, wgen, faults>>
    BY <1>2, <1>16 DEF Rewind, SetCheckpoint, Goto
  <2>2. ckpt < last[p] /\ last[p] \in Nat /\ wgen[p] = gen BY <1>2, <2>1 DEF NewIds
  <2>3. \A i \in RowIds' : inbox'[i].gen <= gen' /\ (inbox'[i].gen = gen' => inbox'[i].rid <= ckpt')
    <3>1. \A i \in RowIds : inbox[i].rid <= ckpt => inbox[i].rid <= last[p] BY <1>2, <1>a, <2>2
    <3> QED BY <1>3, <2>1, <3>1 DEF NewIds
  <2> QED BY <2>1, <2>2, <2>3 DEF NewIds
<1>17. ASSUME NEW a \in Answers(p), FetchRecords(p, a) PROVE NewIds(p)'
  <2>a. a.ids = FirstPage(p) BY <1>17, Answered DEF FetchRecords
  <2>1. /\ pc[p] = "fetch" /\ pc'[p] = "stage" /\ UNCHANGED <<inbox, gen, ckpt, faults, last, wgen>>
        /\ page'[p] = {[rid |-> i, obj |-> obj[i]] : i \in FirstPage(p)}
    BY <1>2, <1>17, <2>a DEF FetchRecords, Goto, dbVars
  <2>2. \A i \in FirstPage(p) : last[p] < i BY DEF FirstPage, Unseen
  <2>3. \A r \in page'[p] : last'[p] < r.rid BY <2>1, <2>2
  <2>4. \A r, s \in page'[p] : r.rid = s.rid => r = s BY <2>1
  <2> QED BY <1>3, <2>1, <2>3, <2>4 DEF NewIds
<1>18. ASSUME NEW r \in page[p], StageRecord(p, r) PROVE NewIds(p)'
  <2>1. /\ pc[p] = "stage" /\ pc'[p] \in {"stage", "emit", ret[p]} /\ ckpt' = r.rid /\ last'[p] = r.rid
        /\ page'[p] = page[p] \ {r} /\ UNCHANGED <<gen, wgen, faults>>
        /\ \A s \in page[p] : r.rid <= s.rid
    BY <1>2, <1>18 DEF StageRecord, StageWindowsRecord, IsNext, Goto
  <2>2. ret[p] \in {"fetch", "idle"} BY <1>2
  <2>3. last[p] = ckpt /\ wgen[p] = gen /\ last[p] < r.rid BY <2>1 DEF NewIds
  <2>4. r.rid \in Nat /\ \A s \in page[p] : s.rid \in Nat BY <1>2
  <2>5. \A s \in page'[p] : last'[p] < s.rid
    <3> SUFFICES ASSUME NEW s \in page[p], s # r PROVE r.rid < s.rid BY <2>1
    <3>1. r.rid # s.rid BY <2>1 DEF NewIds
    <3> QED BY <2>1, <2>4, <3>1
  <2> DEFINE row == [gen |-> wgen[p], rid |-> r.rid, path |-> r.obj, epoch |-> pageEpoch[p], event |-> 0]
  <2>6. inbox' = inbox \/ (r.obj \in Canaries /\ inbox' = Append(inbox, row))
    BY <1>18 DEF StageRecord, StageWindowsRecord, InsertRow
  <2>7. row.gen = gen /\ row.rid = r.rid BY <2>3
  <2>a. r.obj \in Canaries => row \in Row
    <3>1. wgen[p] \in Nat /\ r.rid \in Nat \ {0} /\ pageEpoch[p] \in Nat BY <1>2 DEF TypeOK, PollTyped
    <3> QED BY <3>1 DEF Row
  <2> HIDE DEF row
  <2>8. \A i \in RowIds' :
          \/ inbox'[i] = row
          \/ i \in RowIds /\ inbox'[i] = inbox[i]
    <3>1. CASE inbox' = inbox BY <3>1 DEF RowIds
    <3>2. CASE r.obj \in Canaries /\ inbox' = Append(inbox, row)
      BY <1>2, <2>a, <3>2, AppendedRow DEF RowIds
    <3> QED BY <2>6, <3>1, <3>2
  <2>9. \A i \in RowIds' : inbox'[i].gen <= gen /\ (inbox'[i].gen = gen => inbox'[i].rid <= r.rid)
    <3> SUFFICES ASSUME NEW i \in RowIds'
                 PROVE inbox'[i].gen <= gen /\ (inbox'[i].gen = gen => inbox'[i].rid <= r.rid)
      OBVIOUS
    <3>1. CASE inbox'[i] = row BY <1>2, <2>4, <2>7, <3>1
    <3>2. CASE i \in RowIds /\ inbox'[i] = inbox[i] BY <1>2, <1>a, <2>3, <2>4, <3>2 DEF NewIds
    <3> QED BY <2>8, <3>1, <3>2
  <2>10. \A s, t \in page'[p] : s.rid = t.rid => s = t BY <2>1 DEF NewIds
  <2>11. pc'[p] \in {"stage", "emit", "fetch", "idle"} BY <2>1, <2>2
  <2>12. faults' = 0 /\ wgen'[p] = gen' BY <2>1, <2>3 DEF NewIds
  <2> QED BY <2>1, <2>5, <2>9, <2>10, <2>11, <2>12 DEF NewIds
<1>19. CASE UNCHANGED vars
  BY <1>5, <1>19 DEF vars, winVars, dbVars, watchVars, threadVars, pageVars
<1> QED
  BY <1>6, <1>7, <1>8, <1>9, <1>10, <1>11, <1>12, <1>13, <1>14, <1>15, <1>16, <1>17, <1>18, <1>19
  DEF Next, WatcherStep, MonitorStep

\* With one watch process whose polls and writes succeed, however often the log is
\* cleared and the process dies: a canary read that is staged gets a row of its own and is
\* never taken for one of the log before.
THEOREM StagedKept ==
    ASSUME WinAssumption, PipelineAssumption, MaxFaults = 0, NEW w, Procs = {w}
    PROVE  Spec => StagedIsStored
<1> DEFINE Kept == \A p \in Procs : \A r \in page[p] : StageRecord(p, r) /\ r.obj \in Canaries
             => \E i \in DOMAIN inbox' : inbox'[i].epoch = pageEpoch[p] /\ inbox'[i].rid = r.rid
<1>1. Init => AllNewIds BY DEF Init, DbInit, WatchInit, AllNewIds, NewIds, RowIds
<1>2. TypeOK /\ TypeOK' /\ Queued /\ AllNewIds /\ [Next]_vars => AllNewIds' BY NewIdsStep DEF AllNewIds
<1>3. TypeOK /\ AllNewIds /\ [Next]_vars => [Kept]_vars
  <2> SUFFICES ASSUME TypeOK, NewIds(w), NEW r \in page[w], StageRecord(w, r), r.obj \in Canaries
               PROVE  \E i \in DOMAIN inbox' : inbox'[i].epoch = pageEpoch[w] /\ inbox'[i].rid = r.rid
    BY DEF AllNewIds
  <2> DEFINE row == [gen |-> wgen[w], rid |-> r.rid, path |-> r.obj, epoch |-> pageEpoch[w], event |-> 0]
  <2>1. /\ inbox \in Seq(Row) /\ ckpt \in Nat /\ r.rid \in Nat \ {0} /\ wgen[w] \in Nat /\ pageEpoch[w] \in Nat
    BY DEF TypeOK, DbTyped, PollTyped
  <2>2. pc[w] = "stage" BY DEF StageRecord
  <2>3. wgen[w] = gen /\ ckpt < r.rid BY <2>2 DEF NewIds
  <2>5. ~\E i \in RowIds : inbox[i].gen = wgen[w] /\ inbox[i].rid = r.rid
    <3> SUFFICES ASSUME NEW i \in RowIds, inbox[i].gen = gen, inbox[i].rid = r.rid PROVE FALSE
      BY <2>3
    <3>1. r.rid <= ckpt BY DEF NewIds
    <3> QED BY <2>1, <2>3, <3>1
  <2>6. inbox' = Append(inbox, row) BY <2>5 DEF StageRecord, StageWindowsRecord, InsertRow
  <2>7. row \in Row /\ row.epoch = pageEpoch[w] /\ row.rid = r.rid BY <2>1 DEF Row
  <2> HIDE DEF row
  <2>8. Len(inbox) + 1 \in DOMAIN inbox' /\ inbox'[Len(inbox) + 1] = row BY <2>1, <2>6, <2>7, AppendedRow
  <2> QED BY <2>7, <2>8
<1>4. TableInv => TypeOK /\ Queued BY DEF TableInv
<1> QED BY <1>1, <1>2, <1>3, <1>4, TableInvariant, PTL DEF Spec, StagedIsStored
=============================================================================
