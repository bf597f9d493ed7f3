-------------------------- MODULE Shutdown_proofs --------------------------
(***************************************************************************)
(* Monitor.stop, for any number of watchers, hits, submits that time out,  *)
(* dispatches and jobs that raise, for a writer thread that may die and a  *)
(* send that may take the alert thread with it.                            *)
(***************************************************************************)
EXTENDS Shutdown, TLAPS

Elems(s) == {s[i] : i \in DOMAIN s}
Insert(h) == [op |-> "insert", hit |-> h]
Update(h) == [op |-> "update", hit |-> h]

\* The main thread told the alert thread to end.
Told == {"ajoin", "wdrain2", "wstop", "wjoin", "done"}

\* An entry with an event id names a recorded hit: what RowsKnown says.
Known(entries) == \A x \in entries : x.row => x.hit \in events

\* Delivery records are written for recorded hits only.
RowsKnown ==
    /\ Known(held) /\ Known(sending) /\ Known(UNION Elems(alertq)) /\ Known(sent)
    /\ handing # 0 => handing \in events
    /\ \A h \in HitNo : Update(h) \in Elems(wq) => h \in events

\* The sentinel is the last job of the alert queue and there is only one; when the
\* alert thread has taken it, nothing is left and nothing more is accepted.
SentinelLast ==
    /\ main \in Told \cup {"wdrain", "sentinel"} => held = {}
    /\ main \notin Told => alert # "exited" /\ Sentinel \notin Elems(alertq)
    /\ main \in Told /\ alert \in {"run", "settle"} =>
          /\ alertq # <<>> /\ alertq[Len(alertq)] = Sentinel
          /\ \A i \in 1 .. Len(alertq) - 1 : alertq[i] # Sentinel
    /\ alert = "exited" => alertq = <<>>
    /\ alert \in {"exited", "dead"} => sending = NoJob /\ handing = 0

\* A hit that was emitted is queued, in the coalescer, being inserted or recorded, or
\* its insert was tried and rolled back.
HitsKept ==
    raises = 0 /\ writer # "dead" =>
        \A h \in 1 .. emitted :
            h \in Elems(hits) \cup coal \cup events \/ Insert(h) \in Elems(wq) \cup failed

\* What each phase of stop() leaves behind it, if no watcher had to be abandoned.
Phases ==
    /\ main \in Told \cup {"empty", "flush", "release", "wdrain", "sentinel"} /\ left = {}
          => Alive = {}
    /\ main \in Told \cup {"flush", "release", "wdrain", "sentinel"} /\ left = {}
          => hits = <<>>
    /\ main \in Told \cup {"release", "wdrain", "sentinel"} => coal = {}
    /\ main \in Told \cup {"sentinel"} => \A h \in HitNo : Insert(h) \notin Elems(wq)

\* The delivery record of what was sent is written, queued or about to be, or raised
\* in the writer, as long as a submit is accepted; joining the alert thread in time means it was.
Settling ==
    /\ joined => main \in {"wdrain2", "wstop", "wjoin", "done"} /\ alert \in {"exited", "dead"}
    /\ joined /\ main \in {"wstop", "wjoin", "done"} =>
          \A h \in HitNo : Update(h) \notin Elems(wq)
    /\ writer # "dead" /\ (joined \/ ~WriterStopped) =>
          \A x \in sent : x.row =>
              x.hit \in delivered \/ x.hit = handing \/ Update(x.hit) \in Elems(wq) \cup failed

\* The inductive invariant.
StopInv == TypeOK /\ RowsKnown /\ SentinelLast /\ HitsKept /\ Phases /\ Settling
-----------------------------------------------------------------------------
(* Queues *)

\* What a queue holds when something is put at its end.
LEMMA AppendElems ==
    ASSUME NEW S, NEW s \in Seq(S), NEW e \in S
    PROVE  /\ Append(s, e) \in Seq(S) /\ Append(s, e) # <<>>
           /\ Elems(Append(s, e)) = Elems(s) \cup {e}
<1> DEFINE t == Append(s, e)
<1>1. t \in Seq(S) /\ Len(t) = Len(s) + 1 /\ t[Len(t)] = e /\ \A i \in 1 .. Len(s) : t[i] = s[i]
  OBVIOUS
<1>2. DOMAIN s = 1 .. Len(s) /\ DOMAIN t = 1 .. Len(s) + 1 /\ Len(s) \in Nat OBVIOUS
<1> HIDE DEF t
<1>3. Elems(t) \subseteq Elems(s) \cup {e} BY <1>1, <1>2 DEF Elems
<1>4. Elems(s) \cup {e} \subseteq Elems(t) BY <1>1, <1>2 DEF Elems
<1>5. t # <<>> BY <1>1, <1>2
<1> QED BY <1>1, <1>3, <1>4, <1>5 DEF t

\* What a queue holds when its first element is taken.
LEMMA TailElems ==
    ASSUME NEW S, NEW s \in Seq(S), s # <<>>
    PROVE  /\ Head(s) \in S /\ Tail(s) \in Seq(S)
           /\ Elems(s) = {Head(s)} \cup Elems(Tail(s))
<1> DEFINE t == Tail(s)
<1>1. t \in Seq(S) /\ Head(s) = s[1] /\ Head(s) \in S /\ Len(t) = Len(s) - 1
      /\ \A i \in 1 .. Len(s) - 1 : t[i] = s[i + 1]
  OBVIOUS
<1>2. DOMAIN s = 1 .. Len(s) /\ DOMAIN t = 1 .. Len(s) - 1 /\ Len(s) \in Nat \ {0} OBVIOUS
<1> HIDE DEF t
<1>3. Elems(s) \subseteq {s[1]} \cup Elems(t)
  <2>1. ASSUME NEW i \in 1 .. Len(s), i # 1 PROVE s[i] \in Elems(t)
    <3>1. i - 1 \in 1 .. Len(s) - 1 /\ t[i - 1] = s[(i - 1) + 1] BY <1>1, <1>2, <2>1
    <3> QED BY <1>2, <3>1 DEF Elems
  <2> QED BY <1>2, <2>1 DEF Elems
<1>4. {s[1]} \cup Elems(t) \subseteq Elems(s)
  <2>1. ASSUME NEW i \in 1 .. Len(s) - 1 PROVE t[i] \in Elems(s) BY <1>1, <1>2 DEF Elems
  <2> QED BY <1>2, <2>1 DEF Elems
<1> QED BY <1>1, <1>3, <1>4 DEF t

\* An empty queue holds nothing.
LEMMA EmptyElems == Elems(<<>>) = {}
BY DEF Elems
-----------------------------------------------------------------------------
(* Types *)

Queued == Job \cup {Stop}

\* A job is put at the end of the alert queue.
LEMMA AppendJob ==
    ASSUME alertq \in Seq(SUBSET Entry), NEW job \in SUBSET Entry
    PROVE  /\ Append(alertq, job) \in Seq(SUBSET Entry)
           /\ Elems(Append(alertq, job)) = Elems(alertq) \cup {job}
<1> DEFINE T == SUBSET Entry
<1>1. job \in T /\ alertq \in Seq(T) OBVIOUS
<1> HIDE DEF T
<1>2. Append(alertq, job) \in Seq(T) /\ Elems(Append(alertq, job)) = Elems(alertq) \cup {job}
  BY <1>1, AppendElems
<1> QED BY <1>2 DEF T

\* What Handle does to the sweep buffer and the alert queue.
LEMMA Handled ==
    ASSUME TypeOK, NEW h \in HitNo, NEW row \in BOOLEAN, Handle(h, row)
    PROVE  /\ cur' = 0 /\ held' \subseteq Entry /\ alertq' \in Seq(SUBSET Entry)
           /\ held' \subseteq held \cup {[hit |-> h, row |-> row]}
           /\ Elems(alertq') \subseteq Elems(alertq) \cup {{[hit |-> h, row |-> row]}}
<1> DEFINE entry == [hit |-> h, row |-> row]
<1>1. entry \in Entry /\ {entry} \in SUBSET Entry BY DEF Entry
<1>2. alertq \in Seq(SUBSET Entry) /\ held \subseteq Entry BY DEF TypeOK
<1>3. /\ cur' = 0
      /\ \/ UNCHANGED <<held, alertq>>
         \/ held' = held \cup {entry} /\ UNCHANGED alertq
         \/ alertq' = Append(alertq, {entry}) /\ UNCHANGED held
  BY DEF Handle
<1> HIDE DEF entry
<1>4. Append(alertq, {entry}) \in Seq(SUBSET Entry)
      /\ Elems(Append(alertq, {entry})) = Elems(alertq) \cup {{entry}}
  <2> DEFINE job == {entry}
  <2>1. job \in SUBSET Entry BY <1>1
  <2> HIDE DEF job
  <2>2. Append(alertq, job) \in Seq(SUBSET Entry) /\ Elems(Append(alertq, job)) = Elems(alertq) \cup {job}
    BY <1>2, <2>1, AppendJob
  <2> QED BY <2>2 DEF job
<1>5. held' \subseteq held \cup {entry} BY <1>3
<1>6. alertq' \in Seq(SUBSET Entry) /\ Elems(alertq') \subseteq Elems(alertq) \cup {{entry}}
  BY <1>2, <1>3, <1>4
<1> QED BY <1>1, <1>2, <1>3, <1>5, <1>6 DEF entry

\* The main thread's own steps keep every type.
LEMMA MainTyped == ASSUME ShutdownAssumption, TypeOK, MainStep \/ Raise \/ Release \/ Signal PROVE TypeOK'
<1> USE DEF TypeOK, At, OnlyMain, mainVars, alertVars, writerVars, histVars, Queued, Job
<1>0. cur \in Nat /\ MaxHits \in Nat BY DEF ShutdownAssumption
<1>1. CASE TakeHit
  <2>1. Head(hits) \in HitNo /\ Tail(hits) \in Seq(HitNo) BY <1>1 DEF TakeHit
  <2> QED BY <1>1, <2>1 DEF TakeHit
<1>2. CASE LeaveLoop BY <1>2 DEF LeaveLoop
<1>3. CASE JoinWatchers BY <1>3 DEF JoinWatchers
<1>4. CASE AllJoined BY <1>4 DEF AllJoined
<1>5. CASE Abandon BY <1>5 DEF Abandon, Alive
<1>6. CASE Emptied BY <1>6 DEF Emptied
<1>7. CASE Flushed BY <1>7 DEF Flushed
<1>8. CASE FinalRelease
  <2>1. alertq' \in Seq(SUBSET Entry) BY <1>8 DEF FinalRelease
  <2> QED BY <1>8, <2>1 DEF FinalRelease
<1>9. CASE WriterDrained BY <1>9 DEF WriterDrained
<1>10. CASE PutSentinel
  <2>1. alertq' \in Seq(SUBSET Entry) BY <1>10 DEF PutSentinel, Sentinel
  <2> QED BY <1>10, <2>1 DEF PutSentinel
<1>11. CASE AlertJoined BY <1>11 DEF AlertJoined
<1>12. CASE AlertJoinTimesOut BY <1>12 DEF AlertJoinTimesOut
<1>13. CASE SettledDrained BY <1>13 DEF SettledDrained
<1>14. CASE StopWriter
  <2>1. wq' \in Seq(Queued) BY <1>14 DEF StopWriter
  <2> QED BY <1>14, <2>1 DEF StopWriter
<1>15. CASE Finish BY <1>15 DEF Finish
<1>16. CASE \E h \in coal : Dispatch(h)
  <2>1. PICK h \in coal : Dispatch(h) BY <1>16
  <2>2. h \in HitNo /\ h \in 0 .. MaxHits BY <1>0 DEF HitNo
  <2>3. [op |-> "insert", hit |-> h] \in Queued BY <2>2
  <2>4. wq' \in Seq(Queued) BY <2>1, <2>3 DEF Dispatch
  <2> QED BY <2>1, <2>2, <2>4 DEF Dispatch
<1>17. CASE Raise BY <1>17, <1>0 DEF Raise, ShutdownAssumption
<1>18. CASE Release
  <2>1. alertq' \in Seq(SUBSET Entry) BY <1>18 DEF Release
  <2> QED BY <1>18, <2>1 DEF Release
<1>19. CASE Signal BY <1>19 DEF Signal
<1> QED BY <1>1, <1>2, <1>3, <1>4, <1>5, <1>6, <1>7, <1>8, <1>9, <1>10, <1>11, <1>12, <1>13,
           <1>14, <1>15, <1>16, <1>17, <1>18, <1>19 DEF MainStep

\* So do those of the watchers.
LEMMA WatcherTyped ==
    ASSUME ShutdownAssumption, TypeOK, NEW w \in Watchers, Emit(w) \/ Call(w) \/ Die(w)
    PROVE  TypeOK'
<1> USE DEF TypeOK, mainVars, alertVars, writerVars, histVars
<1>1. CASE Emit(w)
  <2>1. emitted + 1 \in HitNo /\ emitted + 1 \in 0 .. MaxHits
    BY <1>1 DEF Emit, HitNo, ShutdownAssumption
  <2>2. hits' \in Seq(HitNo) BY <1>1, <2>1 DEF Emit
  <2> QED BY <1>1, <2>1, <2>2 DEF Emit
<1>2. CASE Call(w) BY <1>2 DEF Call
<1>3. CASE Die(w) BY <1>3 DEF Die
<1> QED BY <1>1, <1>2, <1>3

\* So do those of the writer thread and the wait for it.
LEMMA WriterTyped ==
    ASSUME ShutdownAssumption, TypeOK, RowsKnown, Commit \/ JobFails \/ WriterDies \/ SubmitTimesOut
    PROVE  TypeOK'
<1> USE DEF TypeOK, mainVars, alertVars, writerVars, histVars
<1>0. cur \in 0 .. MaxHits /\ MaxHits \in Nat /\ (cur # 0 => cur \in HitNo)
  BY DEF ShutdownAssumption, HitNo
<1>1. wq \in Seq(Queued) BY DEF Queued, Job
<1>2. CASE Commit
  <2> DEFINE job == Head(wq)
  <2>1. job \in Queued /\ Tail(wq) \in Seq(Queued) /\ job \in Elems(wq)
    BY <1>1, <1>2, TailElems DEF Commit
  <2>2. wq' \in Seq(Job \cup {Stop})
    BY <1>2, <2>1 DEF Commit, Queued, Job
  <2>3. job.op = "insert" => job.hit \in HitNo BY <2>1 DEF Queued, Job, Stop
  <2>4. job.op = "update" => job.hit \in HitNo /\ job = Update(job.hit)
    BY <2>1 DEF Queued, Job, Stop, Update
  <2>5. events' \subseteq HitNo /\ events \subseteq events' BY <1>2, <2>3 DEF Commit
  <2>6. delivered' \subseteq events' BY <1>2, <2>1, <2>4, <2>5 DEF Commit, RowsKnown
  <2>7. /\ cur' \in {0, cur} /\ held' \subseteq Entry /\ alertq' \in Seq(SUBSET Entry)
    <3>1. CASE job.op = "insert" /\ job.hit = cur
      <4>1. Handle(cur, TRUE) /\ cur \in HitNo BY <1>2, <2>3, <3>1 DEF Commit
      <4> QED BY <4>1, Handled
    <3>2. CASE ~(job.op = "insert" /\ job.hit = cur) BY <1>2, <3>2 DEF Commit
    <3> QED BY <3>1, <3>2
  <2>8. writer' \in {"run", "exited"} BY <1>2 DEF Commit
  <2> QED BY <1>0, <1>2, <2>2, <2>5, <2>6, <2>7, <2>8 DEF Commit
<1>3. CASE WriterDies
  <2>1. wq' \in Seq(Job \cup {Stop})
    <3>1. wq # <<>> => Tail(wq) \in Seq(Queued) BY <1>1, TailElems
    <3> QED BY <1>1, <1>3, <3>1 DEF WriterDies, Queued, Job
  <2>2. /\ cur' \in {0, cur} /\ held' \subseteq Entry /\ alertq' \in Seq(SUBSET Entry)
    <3>1. CASE UNCHANGED <<cur, held, alertq>> BY <3>1
    <3>2. CASE wq # <<>> /\ Head(wq).op = "insert" /\ Head(wq).hit = cur /\ Handle(cur, FALSE)
      <4>1. Head(wq) \in Queued BY <1>1, <3>2
      <4>2. cur \in HitNo BY <3>2, <4>1 DEF Queued, Job, Stop
      <4> QED BY <3>2, <4>2, Handled
    <3> QED BY <1>3, <3>1, <3>2 DEF WriterDies
  <2> QED BY <1>0, <1>3, <2>1, <2>2 DEF WriterDies
<1>4. CASE SubmitTimesOut
  <2>1. /\ cur' = 0 /\ held' \subseteq Entry /\ alertq' \in Seq(SUBSET Entry)
    BY <1>0, <1>4, Handled DEF SubmitTimesOut
  <2>2. timeouts' \in 0 .. MaxTimeouts BY <1>4 DEF SubmitTimesOut, ShutdownAssumption
  <2> QED BY <1>0, <1>4, <2>1, <2>2 DEF SubmitTimesOut
<1>5. CASE JobFails
  <2>1. Head(wq) \in Queued /\ wq' \in Seq(Job \cup {Stop})
    BY <1>1, <1>5, TailElems DEF JobFails, Queued
  <2>2. failed' \subseteq Job BY <1>5, <2>1 DEF JobFails, Queued
  <2>3. cur' \in {0, cur} /\ held' \subseteq Entry /\ alertq' \in Seq(SUBSET Entry)
    <3>1. CASE UNCHANGED <<cur, held, alertq>> BY <3>1
    <3>2. CASE Head(wq).op = "insert" /\ Head(wq).hit = cur /\ Handle(cur, FALSE)
      <4>1. cur \in HitNo BY <2>1, <3>2 DEF Queued, Job, Stop
      <4> QED BY <3>2, <4>1, Handled
    <3> QED BY <1>5, <3>1, <3>2 DEF JobFails
  <2> QED BY <1>0, <1>5, <2>1, <2>2, <2>3 DEF JobFails
<1> QED BY <1>2, <1>3, <1>4, <1>5

\* So do those of the alert thread.
LEMMA AlertTyped == ASSUME ShutdownAssumption, TypeOK, AlertStep \/ AlertDies PROVE TypeOK'
<1> USE DEF TypeOK, mainVars, alertVars, writerVars, histVars
<1>1. CASE GetJob
  <2>1. Head(alertq) \in SUBSET Entry /\ alertq' \in Seq(SUBSET Entry)
    BY <1>1, TailElems DEF GetJob
  <2> QED BY <1>1, <2>1 DEF GetJob
<1>2. CASE HandIn
  <2>1. handing \in HitNo BY <1>2 DEF HandIn, HitNo, ShutdownAssumption
  <2>2. wq' \in Seq(Job \cup {Stop})
    BY <1>2, <2>1 DEF HandIn, Job
  <2> QED BY <1>2, <2>2 DEF HandIn, ShutdownAssumption
<1>3. CASE \E x \in sending : Settle(x)
  <2>1. PICK x \in sending : Settle(x) BY <1>3
  <2>2. x \in Entry /\ x.hit \in HitNo BY DEF Entry
  <2>3. x.hit \in 0 .. MaxHits /\ 0 \in 0 .. MaxHits BY <2>2 DEF HitNo, ShutdownAssumption
  <2> QED BY <2>1, <2>2, <2>3 DEF Settle
<1>4. CASE SendReturns \/ AlertDies BY <1>4 DEF SendReturns, AlertDies, NoJob
<1> QED BY <1>1, <1>2, <1>3, <1>4 DEF AlertStep
-----------------------------------------------------------------------------
(* Entries with an event id *)

\* Nothing that holds entries, and no recorded hit, changes in these steps.
EntriesSame == UNCHANGED <<held, sending, alertq, sent, handing, wq, events>>

\* The steps of the threads that leave all of these alone.
LEMMA EntriesSameSteps ==
    ASSUME \/ TakeHit \/ LeaveLoop \/ JoinWatchers \/ AllJoined \/ Abandon \/ Emptied \/ Flushed
           \/ WriterDrained \/ AlertJoined \/ AlertJoinTimesOut \/ SettledDrained \/ Finish
           \/ Signal \/ Raise \/ (\E w \in Watchers : Emit(w) \/ Call(w) \/ Die(w))
           \/ SendReturns \/ UNCHANGED vars
    PROVE  EntriesSame
BY DEF EntriesSame, TakeHit, LeaveLoop, JoinWatchers, AllJoined, Abandon, Emptied, Flushed,
   WriterDrained, AlertJoined, AlertJoinTimesOut, SettledDrained, Finish, Signal, Raise, Emit,
   Call, Die, SendReturns, OnlyMain, mainVars, alertVars, writerVars, histVars, vars

\* _dispatch hands on an event id only when the insert is committed, and a delivery
\* record is submitted only for such an entry.
LEMMA RowsKnownStep ==
    ASSUME ShutdownAssumption, TypeOK, RowsKnown, [Next]_vars
    PROVE  RowsKnown'
<1> USE DEF mainVars, alertVars, writerVars, histVars, At
<1>0. /\ alertq \in Seq(SUBSET Entry) /\ wq \in Seq(Queued) /\ held \in SUBSET Entry
      /\ events \subseteq HitNo /\ cur \in 0 .. MaxHits /\ (cur # 0 => cur \in HitNo)
  BY DEF TypeOK, Queued, Job, HitNo, ShutdownAssumption
<1>1. CASE EntriesSame BY <1>1 DEF EntriesSame, RowsKnown, Known
<1>2. ASSUME NEW h \in coal, Dispatch(h) PROVE RowsKnown'
  <2>1. Insert(h) \in Queued /\ wq' = Append(wq, Insert(h))
    BY <1>2 DEF Dispatch, TypeOK, Queued, Job, Insert
  <2>2. Elems(wq') = Elems(wq) \cup {Insert(h)} BY <1>0, <2>1, AppendElems
  <2>3. \A g \in HitNo : Update(g) # Insert(h) BY DEF Update, Insert
  <2> QED BY <1>2, <2>2, <2>3 DEF Dispatch, RowsKnown, Known
<1>3. CASE FinalRelease \/ Release
  <2>1. alertq' \in {alertq, Append(alertq, held)} /\ held' = {}
        /\ UNCHANGED <<sending, sent, handing, wq, events>>
    BY <1>3 DEF FinalRelease, Release
  <2>2. Elems(alertq') \subseteq Elems(alertq) \cup {held} BY <1>0, <2>1, AppendJob
  <2> QED BY <2>1, <2>2 DEF RowsKnown, Known
<1>4. CASE PutSentinel
  <2>1. Elems(alertq') = Elems(alertq) \cup {{}} BY <1>0, <1>4, AppendJob DEF PutSentinel, Sentinel
  <2> QED BY <1>4, <2>1 DEF PutSentinel, RowsKnown, Known
<1>5. CASE StopWriter
  <2>1. Elems(wq') = Elems(wq) \cup {Stop} BY <1>0, <1>5, AppendElems DEF StopWriter, Queued, Job
  <2>2. \A g \in HitNo : Update(g) # Stop BY DEF Update, Stop
  <2> QED BY <1>5, <2>1, <2>2 DEF StopWriter, RowsKnown, Known
<1>6. CASE SubmitTimesOut
  <2> DEFINE entry == [hit |-> cur, row |-> FALSE]
  <2>1. held' \subseteq held \cup {entry} /\ Elems(alertq') \subseteq Elems(alertq) \cup {{entry}}
    BY <1>0, <1>6, Handled DEF SubmitTimesOut
  <2>2. ~entry.row OBVIOUS
  <2> HIDE DEF entry
  <2> QED BY <1>6, <2>1, <2>2 DEF SubmitTimesOut, RowsKnown, Known
<1>7. CASE Commit
  <2> DEFINE job == Head(wq)
             entry == [hit |-> cur, row |-> TRUE]
  <2>1. job \in Queued /\ wq' = Tail(wq) /\ Elems(wq) = {job} \cup Elems(Tail(wq))
    BY <1>0, <1>7, TailElems DEF Commit
  <2>2. /\ events' = IF job.op = "insert" THEN events \cup {job.hit} ELSE events
        /\ UNCHANGED <<sending, handing, sent>>
    BY <1>7 DEF Commit
  <2>3. \/ UNCHANGED <<held, alertq>>
        \/ /\ cur \in events' /\ held' \subseteq held \cup {entry}
           /\ Elems(alertq') \subseteq Elems(alertq) \cup {{entry}}
    <3>1. CASE job.op = "insert" /\ job.hit = cur
      <4>1. Handle(cur, TRUE) BY <1>7, <3>1 DEF Commit
      <4>2. cur \in HitNo BY <2>1, <3>1 DEF Queued, Job, Stop
      <4> QED BY <2>2, <3>1, <4>1, <4>2, Handled
    <3>2. CASE ~(job.op = "insert" /\ job.hit = cur) BY <1>7, <3>2 DEF Commit
    <3> QED BY <3>1, <3>2
  <2>4. entry.hit = cur OBVIOUS
  <2> HIDE DEF entry, job
  <2> QED BY <2>1, <2>2, <2>3, <2>4 DEF RowsKnown, Known
<1>8. CASE WriterDies \/ JobFails
  <2> DEFINE entry == [hit |-> cur, row |-> FALSE]
  <2>1. Elems(wq') \subseteq Elems(wq)
    <3>1. wq # <<>> => Elems(Tail(wq)) \subseteq Elems(wq) BY <1>0, TailElems
    <3> QED BY <1>8, <3>1 DEF WriterDies, JobFails
  <2>2. \/ UNCHANGED <<held, alertq>>
        \/ /\ held' \subseteq held \cup {entry}
           /\ Elems(alertq') \subseteq Elems(alertq) \cup {{entry}}
    <3>1. CASE wq # <<>> /\ Head(wq).op = "insert" /\ Head(wq).hit = cur /\ Handle(cur, FALSE)
      <4>1. Head(wq) \in Queued BY <1>0, <3>1, TailElems
      <4>2. cur \in HitNo BY <3>1, <4>1 DEF Queued, Job, Stop
      <4> QED BY <3>1, <4>2, Handled
    <3> QED BY <1>8, <3>1 DEF WriterDies, JobFails
  <2>3. ~entry.row OBVIOUS
  <2> HIDE DEF entry
  <2> QED BY <1>8, <2>1, <2>2, <2>3 DEF WriterDies, JobFails, RowsKnown, Known
<1>9. CASE GetJob
  <2>1. Elems(alertq) = {Head(alertq)} \cup Elems(Tail(alertq)) BY <1>0, <1>9, TailElems DEF GetJob
  <2> QED BY <1>9, <2>1 DEF GetJob, RowsKnown, Known
<1>10. CASE HandIn
  <2>1. handing \in HitNo /\ handing \in events
    BY <1>0, <1>10 DEF HandIn, RowsKnown
  <2>2. Update(handing) \in Queued /\ wq' = Append(wq, Update(handing))
    BY <1>10, <2>1 DEF HandIn, Queued, Job, Update
  <2>3. Elems(wq') = Elems(wq) \cup {Update(handing)} BY <1>0, <2>2, AppendElems
  <2>4. \A g \in HitNo : Update(g) = Update(handing) => g = handing BY DEF Update
  <2> QED BY <1>10, <2>1, <2>3, <2>4 DEF HandIn, RowsKnown, Known
<1>11. ASSUME NEW x \in sending, Settle(x) PROVE RowsKnown'
  <2>1. x.row => x.hit \in events BY DEF RowsKnown, Known
  <2> QED BY <1>11, <2>1 DEF Settle, RowsKnown, Known
<1>12. CASE AlertDies BY <1>12 DEF AlertDies, NoJob, RowsKnown, Known
<1> QED BY <1>1, <1>2, <1>3, <1>4, <1>5, <1>6, <1>7, <1>8, <1>9, <1>10, <1>11, <1>12, EntriesSameSteps
        DEF Next, MainStep, AlertStep

\* Every reachable state is type-correct; in particular every delivery record is one
\* of a recorded hit, whatever timed out or died.
THEOREM TypeCorrect == ASSUME ShutdownAssumption PROVE Spec => [](TypeOK /\ RowsKnown)
<1>1. Init => TypeOK /\ RowsKnown
  <2> SUFFICES ASSUME Init PROVE TypeOK /\ RowsKnown OBVIOUS
  <2>1. TypeOK
    <3>1. 0 \in 0 .. MaxHits /\ 0 \in 0 .. MaxTimeouts /\ 0 \in 0 .. MaxRaises
      BY ShutdownAssumption DEF ShutdownAssumption
    <3>2. \A S : <<>> \in Seq(S) OBVIOUS
    <3>3. hits \in Seq(HitNo) /\ alertq \in Seq(SUBSET Entry)
          /\ wq \in Seq(Job \cup {Stop})
      BY <3>2 DEF Init
    <3> QED BY <3>1, <3>3 DEF Init, TypeOK, NoJob
  <2>2. RowsKnown BY EmptyElems DEF Init, RowsKnown, Known, NoJob
  <2> QED BY <2>1, <2>2
<1>2. TypeOK /\ RowsKnown /\ [Next]_vars => (TypeOK /\ RowsKnown)'
  <2> SUFFICES ASSUME TypeOK, RowsKnown, [Next]_vars PROVE TypeOK'
    BY ShutdownAssumption, RowsKnownStep
  <2>1. CASE UNCHANGED vars
    BY <2>1 DEF vars, mainVars, alertVars, writerVars, histVars, TypeOK
  <2> QED BY <2>1, ShutdownAssumption, MainTyped, WatcherTyped, WriterTyped, AlertTyped DEF Next
<1> QED BY <1>1, <1>2, PTL DEF Spec
-----------------------------------------------------------------------------
(* The alert queue and its sentinel *)

\* Handle queues an entry at most, and only before the burst is flushed.
LEMMA HandledNotSentinel ==
    ASSUME TypeOK, SentinelLast, main \in {"run", "flush"}, NEW h \in HitNo, NEW row \in BOOLEAN,
           Handle(h, row), UNCHANGED <<main, alert, sending, handing>>
    PROVE  SentinelLast'
<1>1. Elems(alertq') \subseteq Elems(alertq) \cup {{[hit |-> h, row |-> row]}} BY Handled
<1>2. {[hit |-> h, row |-> row]} # Sentinel BY DEF Sentinel
<1> QED BY <1>1, <1>2 DEF SentinelLast, Told

\* Once the sentinel is queued nothing is queued behind it, whichever thread steps.
LEMMA SentinelLastStep ==
    ASSUME ShutdownAssumption, TypeOK, SentinelLast, [Next]_vars
    PROVE  SentinelLast'
<1> USE DEF mainVars, alertVars, writerVars, histVars, At
<1>0. /\ alertq \in Seq(SUBSET Entry) /\ wq \in Seq(Queued) /\ held \in SUBSET Entry
      /\ cur \in 0 .. MaxHits /\ (cur # 0 => cur \in HitNo /\ main \in {"run", "flush"})
  BY DEF TypeOK, Queued, Job, HitNo, ShutdownAssumption
<1>1. CASE UNCHANGED <<main, alert, alertq, held, sending, handing>> BY <1>1 DEF SentinelLast
<1>2. CASE TakeHit \/ Signal \/ (\E h \in coal : Dispatch(h)) \/ UNCHANGED vars
           \/ \E w \in Watchers : Emit(w) \/ Call(w) \/ Die(w)
  BY <1>1, <1>2 DEF TakeHit, Signal, Dispatch, vars, Emit, Call, Die
<1>3. CASE \/ LeaveLoop \/ JoinWatchers \/ AllJoined \/ Abandon \/ Emptied \/ Flushed
           \/ WriterDrained \/ AlertJoined \/ AlertJoinTimesOut \/ SettledDrained \/ StopWriter
           \/ Finish \/ Raise
  <2>1. UNCHANGED <<alert, alertq, held, sending, handing>>
    BY <1>3 DEF LeaveLoop, JoinWatchers, AllJoined, Abandon, Emptied, Flushed, WriterDrained,
       AlertJoined, AlertJoinTimesOut, SettledDrained, StopWriter, Finish, Raise, OnlyMain
  <2>2. \/ {main, main'} \cap (Told \cup {"wdrain", "sentinel"}) = {}
        \/ {main, main'} \subseteq Told
        \/ main = "wdrain" /\ main' = "sentinel"
    BY <1>3 DEF LeaveLoop, JoinWatchers, AllJoined, Abandon, Emptied, Flushed, WriterDrained,
       AlertJoined, AlertJoinTimesOut, SettledDrained, StopWriter, Finish, Raise, Told
  <2> QED BY <2>1, <2>2 DEF SentinelLast, Told
<1>4. CASE FinalRelease
  <2>1. Elems(alertq') \subseteq Elems(alertq) \cup {held} /\ (held = {} => alertq' = alertq)
    BY <1>0, <1>4, AppendJob DEF FinalRelease
  <2> QED BY <1>4, <2>1 DEF FinalRelease, SentinelLast, Told, Sentinel
<1>5. CASE Release
  <2>1. Elems(alertq') = Elems(alertq) \cup {held} BY <1>0, <1>5, AppendJob DEF Release
  <2> QED BY <1>5, <2>1 DEF Release, SentinelLast, Told, Sentinel
<1>6. CASE PutSentinel
  <2>1. main = "sentinel" /\ main' = "ajoin" /\ alertq' = Append(alertq, Sentinel)
        /\ UNCHANGED <<alert, held, sending, handing>>
    BY <1>6 DEF PutSentinel
  <2>2. held = {} /\ alert # "exited" /\ \A i \in 1 .. Len(alertq) : alertq[i] # Sentinel
    BY <1>0, <2>1 DEF SentinelLast, Told, Elems
  <2>3. /\ Len(alertq') = Len(alertq) + 1 /\ alertq'[Len(alertq) + 1] = Sentinel
        /\ Len(alertq) \in Nat /\ alertq' # <<>>
        /\ \A i \in 1 .. Len(alertq) : alertq'[i] = alertq[i]
    BY <1>0, <2>1
  <2> QED BY <2>1, <2>2, <2>3 DEF SentinelLast, Told
<1>7. CASE SubmitTimesOut BY <1>0, <1>7, HandledNotSentinel DEF SubmitTimesOut
<1>8. CASE Commit \/ JobFails \/ WriterDies
  <2>1. UNCHANGED <<main, alert, sending, handing>> BY <1>8 DEF Commit, JobFails, WriterDies
  <2>2. CASE UNCHANGED <<held, alertq>> BY <1>1, <2>1, <2>2
  <2>3. ASSUME NEW row \in BOOLEAN, wq # <<>>, Head(wq).op = "insert", Head(wq).hit = cur,
               Handle(cur, row)
        PROVE  SentinelLast'
    <3>1. Head(wq) \in Queued BY <1>0, <2>3, TailElems
    <3>2. cur \in HitNo BY <2>3, <3>1 DEF Queued, Job, Stop
    <3>3. cur # 0 BY <3>2 DEF HitNo
    <3> QED BY <1>0, <2>1, <2>3, <3>2, <3>3, HandledNotSentinel
  <2> QED BY <1>8, <2>2, <2>3 DEF Commit, JobFails, WriterDies
<1>9. CASE GetJob
  <2>1. /\ alertq # <<>> /\ alert = "run" /\ sending = NoJob /\ handing = 0
        /\ alertq' = Tail(alertq) /\ UNCHANGED <<main, held, handing>>
        /\ IF Head(alertq) = Sentinel THEN alert' = "exited" /\ UNCHANGED sending
                                      ELSE sending' = Head(alertq) /\ UNCHANGED alert
    BY <1>9 DEF GetJob
  <2>2. /\ Len(alertq') = Len(alertq) - 1 /\ Len(alertq) \in Nat \ {0} /\ Head(alertq) = alertq[1]
        /\ \A i \in 1 .. Len(alertq) - 1 : alertq'[i] = alertq[i + 1]
        /\ (Len(alertq) = 1 => alertq' = <<>>) /\ (Len(alertq) > 1 => alertq' # <<>>)
    <3>1. \A q \in Seq(SUBSET Entry) : Len(q) \in Nat /\ (Len(q) = 0 <=> q = <<>>) OBVIOUS
    <3>2. /\ alertq' \in Seq(SUBSET Entry) /\ Len(alertq') = Len(alertq) - 1
          /\ Head(alertq) = alertq[1] /\ \A i \in 1 .. Len(alertq) - 1 : alertq'[i] = alertq[i + 1]
      BY <1>0, <2>1
    <3>3. Len(alertq) \in Nat \ {0} BY <1>0, <2>1, <3>1
    <3>4. Len(alertq') = 0 <=> alertq' = <<>> BY <3>1, <3>2
    <3> QED BY <3>2, <3>3, <3>4
  <2>3. Elems(alertq') \subseteq Elems(alertq) /\ Head(alertq) \in Elems(alertq)
    BY <1>0, <2>1, TailElems
  <2>4. CASE main \notin Told BY <2>1, <2>3, <2>4 DEF SentinelLast, Told
  <2>5. CASE main \in Told /\ Len(alertq) = 1 BY <2>1, <2>2, <2>5 DEF SentinelLast, Told
  <2>6. CASE main \in Told /\ Len(alertq) > 1
    <3>1. alertq[Len(alertq)] = Sentinel /\ \A i \in 1 .. Len(alertq) - 1 : alertq[i] # Sentinel
      BY <2>1, <2>6 DEF SentinelLast
    <3>2. Len(alertq) - 1 \in Nat \ {0} /\ (Len(alertq) - 1) + 1 = Len(alertq)
          /\ Len(alertq) - 1 \in 1 .. Len(alertq) - 1
      BY <2>2, <2>6
    <3>3. alertq'[Len(alertq')] = Sentinel BY <2>2, <3>1, <3>2
    <3>4. \A i \in 1 .. Len(alertq') - 1 : i + 1 \in 1 .. Len(alertq) - 1 /\ i \in 1 .. Len(alertq) - 1
      BY <2>2
    <3>5. \A i \in 1 .. Len(alertq') - 1 : alertq'[i] # Sentinel BY <2>2, <3>1, <3>4
    <3>6. Head(alertq) # Sentinel BY <2>2, <2>6, <3>1
    <3> QED BY <2>1, <2>2, <2>6, <3>3, <3>5, <3>6 DEF SentinelLast
  <2> QED BY <2>2, <2>4, <2>5, <2>6
<1>10. CASE HandIn \/ \E x \in sending : Settle(x)
  <2>1. {alert, alert'} \subseteq {"run", "settle"} /\ UNCHANGED <<main, held, alertq>>
    BY <1>10 DEF HandIn, Settle, SentinelLast, NoJob, TypeOK
  <2> QED BY <2>1 DEF SentinelLast
<1>11. CASE SendReturns
  <2>1. {alert, alert'} \subseteq {"run", "settle"} /\ UNCHANGED <<main, held, alertq>>
    BY <1>11 DEF SendReturns
  <2> QED BY <2>1 DEF SentinelLast
<1>12. CASE AlertDies
  <2>1. /\ alert' = "dead" /\ sending' = NoJob /\ UNCHANGED <<main, held, alertq, handing>>
        /\ alert = "run" /\ sending # NoJob
        /\ handing = 0
    BY <1>12 DEF AlertDies
  <2> QED BY <2>1 DEF SentinelLast
<1> QED BY <1>2, <1>3, <1>4, <1>5, <1>6, <1>7, <1>8, <1>9, <1>10, <1>11, <1>12
        DEF Next, MainStep, AlertStep
-----------------------------------------------------------------------------
(* Hits on their way to the database *)

HitsSame == UNCHANGED <<raises, writer, emitted, hits, coal, events, wq, failed>>

\* The steps that move no hit.
LEMMA HitsSameSteps ==
    ASSUME \/ LeaveLoop \/ JoinWatchers \/ AllJoined \/ Abandon \/ Emptied \/ Flushed
           \/ FinalRelease \/ WriterDrained \/ PutSentinel \/ AlertJoined \/ AlertJoinTimesOut
           \/ SettledDrained \/ Finish \/ Signal \/ Release \/ SubmitTimesOut \/ GetJob
           \/ (\E x \in sending : Settle(x)) \/ (\E w \in Watchers : Call(w) \/ Die(w))
           \/ SendReturns \/ AlertDies \/ UNCHANGED vars
    PROVE  HitsSame
BY DEF HitsSame, LeaveLoop, JoinWatchers, AllJoined, Abandon, Emptied, Flushed, FinalRelease,
   WriterDrained, PutSentinel, AlertJoined, AlertJoinTimesOut, SettledDrained, Finish, Signal,
   Release, SubmitTimesOut, GetJob, Settle, SendReturns, AlertDies, Call, Die, OnlyMain, mainVars,
   alertVars, writerVars, histVars, vars

\* A hit leaves one of the places it can be in only for the next one.
LEMMA HitsKeptStep ==
    ASSUME ShutdownAssumption, TypeOK, HitsKept, [Next]_vars
    PROVE  HitsKept'
<1> USE DEF mainVars, alertVars, writerVars, histVars, At
<1>0. /\ hits \in Seq(HitNo) /\ wq \in Seq(Queued) /\ coal \subseteq HitNo
      /\ emitted \in Nat /\ raises \in Nat /\ (cur # 0 => cur \in HitNo)
  BY DEF TypeOK, Queued, Job, HitNo, ShutdownAssumption
<1>1. CASE HitsSame BY <1>1 DEF HitsSame, HitsKept
<1>2. CASE TakeHit
  <2>1. Elems(hits) = {Head(hits)} \cup Elems(hits') /\ coal' = coal \cup {Head(hits)}
        /\ UNCHANGED <<raises, writer, emitted, events, wq, failed>>
    BY <1>0, <1>2, TailElems DEF TakeHit
  <2> QED BY <2>1 DEF HitsKept
<1>3. ASSUME NEW w \in Watchers, Emit(w) PROVE HitsKept'
  <2>1. emitted + 1 \in HitNo BY <1>0, <1>3 DEF Emit, HitNo, ShutdownAssumption
  <2>2. Elems(hits') = Elems(hits) \cup {emitted + 1} BY <1>0, <1>3, <2>1, AppendElems DEF Emit
  <2>3. \A h \in 1 .. emitted + 1 : h \in 1 .. emitted \/ h = emitted + 1 BY <1>0
  <2> QED BY <1>3, <2>2, <2>3 DEF Emit, HitsKept
<1>4. ASSUME NEW h \in coal, Dispatch(h) PROVE HitsKept'
  <2>1. Insert(h) \in Queued /\ wq' = Append(wq, Insert(h))
    BY <1>0, <1>4 DEF Dispatch, Queued, Job, Insert
  <2>2. Elems(wq') = Elems(wq) \cup {Insert(h)} BY <1>0, <2>1, AppendElems
  <2> QED BY <1>4, <2>2 DEF Dispatch, HitsKept
<1>5. CASE Raise
  <2>1. raises' # 0 BY <1>0, <1>5 DEF Raise
  <2> QED BY <2>1 DEF HitsKept
<1>6. CASE WriterDies BY <1>6 DEF WriterDies, HitsKept
<1>7. CASE Commit
  <2>1. /\ writer = "run" /\ UNCHANGED <<raises, emitted, hits, coal, failed>>
        /\ events' = IF Head(wq).op = "insert" THEN events \cup {Head(wq).hit} ELSE events
    BY <1>7 DEF Commit
  <2>2. Elems(wq) = {Head(wq)} \cup Elems(wq') BY <1>0, <1>7, TailElems DEF Commit
  <2>3. \A h : Insert(h).op = "insert" /\ Insert(h).hit = h BY DEF Insert
  <2>4. \A h : Insert(h) \in Elems(wq) => Insert(h) \in Elems(wq') \/ h \in events'
    BY <2>1, <2>2, <2>3
  <2> QED BY <2>1, <2>4 DEF HitsKept
<1>8. CASE StopWriter \/ HandIn
  <2>1. PICK job \in Queued : wq' = Append(wq, job)
    <3>1. CASE StopWriter BY <3>1 DEF StopWriter, Queued, Job
    <3>2. CASE HandIn
      <4>1. handing \in HitNo BY <3>2 DEF HandIn, TypeOK, HitNo, ShutdownAssumption
      <4> QED BY <3>2, <4>1 DEF HandIn, Queued, Job
    <3> QED BY <1>8, <3>1, <3>2
  <2>2. Elems(wq') = Elems(wq) \cup {job} BY <1>0, <2>1, AppendElems
  <2> QED BY <1>8, <2>2 DEF StopWriter, HandIn, HitsKept
<1>9. CASE JobFails
  <2>1. UNCHANGED <<raises, writer, emitted, hits, coal, events>> /\ failed' = failed \cup {Head(wq)}
    BY <1>9 DEF JobFails
  <2>2. Elems(wq) = {Head(wq)} \cup Elems(wq') BY <1>0, <1>9, TailElems DEF JobFails
  <2> QED BY <2>1, <2>2 DEF HitsKept
<1> QED BY <1>1, <1>2, <1>3, <1>4, <1>5, <1>6, <1>7, <1>8, <1>9, HitsSameSteps
        DEF Next, MainStep, AlertStep

\* A phase of stop() leaves behind what it is named for.
LEMMA PhasesStep ==
    ASSUME ShutdownAssumption, TypeOK, Phases, [Next]_vars
    PROVE  Phases'
<1> USE DEF mainVars, alertVars, writerVars, histVars, At, Told, Alive
<1>0. wq \in Seq(Queued) BY DEF TypeOK, Queued, Job
<1>1. CASE UNCHANGED <<main, left, ws, hits, coal, wq>> BY <1>1 DEF Phases
<1>2. CASE \/ Signal \/ Release \/ SubmitTimesOut \/ GetJob \/ (\E x \in sending : Settle(x))
           \/ SendReturns \/ AlertDies \/ UNCHANGED vars
  BY <1>1, <1>2 DEF Signal, Release, SubmitTimesOut, GetJob, Settle, SendReturns, AlertDies, vars
<1>3. CASE \/ LeaveLoop \/ JoinWatchers \/ AllJoined \/ Emptied \/ Flushed \/ FinalRelease
           \/ PutSentinel \/ AlertJoined \/ AlertJoinTimesOut \/ SettledDrained \/ Finish
  <2>1. UNCHANGED <<left, ws, hits, coal, wq>>
    BY <1>3 DEF LeaveLoop, JoinWatchers, AllJoined, Emptied, Flushed, FinalRelease, PutSentinel,
       AlertJoined, AlertJoinTimesOut, SettledDrained, Finish, OnlyMain
  <2>2. \/ main' \in {"join", "drain"}
        \/ main' = "empty" /\ Alive = {}
        \/ main = "empty" /\ main' = "flush" /\ hits = <<>>
        \/ main = "flush" /\ main' = "release" /\ coal = {}
        \/ main = "release" /\ main' = "wdrain"
        \/ main \in Told \cup {"sentinel"} /\ main' \in Told
    BY <1>3 DEF LeaveLoop, JoinWatchers, AllJoined, Emptied, Flushed, FinalRelease, PutSentinel,
       AlertJoined, AlertJoinTimesOut, SettledDrained, Finish
  <2> QED BY <2>1, <2>2 DEF Phases
<1>4. CASE WriterDrained
  <2>1. Elems(wq) = {} BY <1>4, EmptyElems DEF WriterDrained
  <2> QED BY <1>4, <2>1 DEF WriterDrained, OnlyMain, Phases
<1>5. CASE Abandon BY <1>5 DEF Abandon, Phases
<1>6. CASE TakeHit
  <2>1. main \in {"run", "drain", "empty"} /\ UNCHANGED <<main, ws, left>> BY <1>6 DEF TakeHit
  <2> QED BY <2>1 DEF Phases
<1>7. CASE \E h \in coal : Dispatch(h) BY <1>7 DEF Dispatch, Phases
<1>8. CASE Raise BY <1>8 DEF Raise, Phases
<1>9. ASSUME NEW w \in Watchers, Emit(w) \/ Call(w) \/ Die(w) PROVE Phases'
  <2>1. w \in Alive /\ UNCHANGED <<main, left, coal, wq>> BY <1>9 DEF Emit, Call, Die
  <2>2. Alive' \subseteq Alive BY <1>9 DEF Emit, Call, Die, TypeOK
  <2> QED BY <2>1, <2>2 DEF Phases
<1>10. CASE Commit \/ JobFails \/ WriterDies
  <2>1. Elems(wq') \subseteq Elems(wq)
    <3>1. wq # <<>> => Elems(Tail(wq)) \subseteq Elems(wq) BY <1>0, TailElems
    <3> QED BY <1>10, <3>1 DEF Commit, JobFails, WriterDies
  <2>2. UNCHANGED <<main, left, ws, hits, coal>> BY <1>10 DEF Commit, JobFails, WriterDies
  <2> QED BY <2>1, <2>2 DEF Phases
<1>11. CASE StopWriter \/ HandIn
  <2>1. PICK job \in Queued : wq' = Append(wq, job) /\ job.op # "insert"
    <3>1. CASE StopWriter BY <3>1 DEF StopWriter, Queued, Job, Stop
    <3>2. CASE HandIn
      <4>1. handing \in HitNo BY <3>2 DEF HandIn, TypeOK, HitNo, ShutdownAssumption
      <4> QED BY <3>2, <4>1 DEF HandIn, Queued, Job
    <3> QED BY <1>11, <3>1, <3>2
  <2>2. Elems(wq') = Elems(wq) \cup {job} BY <1>0, <2>1, AppendElems
  <2>3. \A h : Insert(h) # job BY <2>1 DEF Insert
  <2>4. UNCHANGED <<left, ws, hits, coal>>
        /\ (main' = main \/ (main = "wstop" /\ main' = "wjoin"))
    BY <1>11 DEF StopWriter, HandIn
  <2> QED BY <2>2, <2>3, <2>4 DEF Phases
<1> QED BY <1>2, <1>3, <1>4, <1>5, <1>6, <1>7, <1>8, <1>9, <1>10, <1>11 DEF Next, MainStep, AlertStep
-----------------------------------------------------------------------------
(* Delivery records on their way to the database *)

SettlingSame == UNCHANGED <<joined, alert, writer, sent, delivered, handing, wq, failed>>

\* The steps that change no delivery record.
LEMMA SettlingSameSteps ==
    ASSUME \/ TakeHit \/ LeaveLoop \/ JoinWatchers \/ AllJoined \/ Abandon \/ Emptied \/ Flushed
           \/ FinalRelease \/ WriterDrained \/ PutSentinel \/ AlertJoinTimesOut
           \/ SettledDrained \/ Finish \/ Signal \/ Release \/ Raise \/ SubmitTimesOut
           \/ (\E w \in Watchers : Emit(w) \/ Call(w) \/ Die(w)) \/ UNCHANGED vars
    PROVE  SettlingSame
BY DEF SettlingSame, TakeHit, LeaveLoop, JoinWatchers, AllJoined, Abandon, Emptied, Flushed,
   FinalRelease, WriterDrained, PutSentinel, AlertJoinTimesOut, SettledDrained, Finish, Signal,
   Release, Raise, SubmitTimesOut, Emit, Call, Die, OnlyMain, mainVars, alertVars, writerVars,
   histVars, vars

\* No delivery record is lost between the alert thread and a writer that lives.
LEMMA SettlingStep ==
    ASSUME ShutdownAssumption, TypeOK, SentinelLast, Settling, [Next]_vars
    PROVE  Settling'
<1> USE DEF mainVars, alertVars, writerVars, histVars, At, WriterStopped
<1>0. /\ wq \in Seq(Queued) /\ sending \subseteq Entry
      /\ (handing # 0 => handing \in HitNo)
  BY DEF TypeOK, Queued, Job, HitNo, ShutdownAssumption
<1>1. CASE SettlingSame /\ (main' = main \/ (~joined /\ main \notin {"wjoin", "done"}))
  BY <1>1 DEF SettlingSame, Settling
<1>2. CASE \/ TakeHit \/ LeaveLoop \/ JoinWatchers \/ AllJoined \/ Abandon \/ Emptied \/ Flushed
           \/ FinalRelease \/ WriterDrained \/ PutSentinel \/ AlertJoinTimesOut
           \/ Signal \/ Release \/ Raise \/ SubmitTimesOut
           \/ (\E w \in Watchers : Emit(w) \/ Call(w) \/ Die(w)) \/ UNCHANGED vars
  <2>1. SettlingSame BY <1>2, SettlingSameSteps
  <2>2. main' = main \/ (~joined /\ main \notin {"wjoin", "done"})
    BY <1>2 DEF Settling, TakeHit, LeaveLoop, JoinWatchers, AllJoined, Abandon, Emptied, Flushed,
       FinalRelease, WriterDrained, PutSentinel, AlertJoinTimesOut, Signal, Release, Raise,
       SubmitTimesOut, Emit, Call, Die, vars
  <2> QED BY <1>1, <2>1, <2>2
<1>3. CASE SettledDrained
  <2>1. Elems(wq) = {} BY <1>3, EmptyElems DEF SettledDrained
  <2>2. SettlingSame /\ main = "wdrain2" /\ main' = "wstop"
    BY <1>3, SettlingSameSteps DEF SettledDrained
  <2> QED BY <2>1, <2>2 DEF SettlingSame, Settling
<1>4. CASE Finish
  <2>1. SettlingSame /\ main = "wjoin" /\ main' = "done" BY <1>4, SettlingSameSteps DEF Finish
  <2> QED BY <2>1 DEF SettlingSame, Settling
<1>5. CASE AlertJoined
  <2>1. /\ main = "ajoin" /\ main' = "wdrain2" /\ alert \in {"exited", "dead"} /\ joined'
        /\ UNCHANGED <<alert, writer, sent, delivered, handing, wq, failed>>
    BY <1>5 DEF AlertJoined
  <2> QED BY <2>1 DEF Settling
<1>6. CASE StopWriter
  <2>1. Elems(wq') = Elems(wq) \cup {Stop} BY <1>0, <1>6, AppendElems DEF StopWriter, Queued, Job
  <2>2. \A g \in HitNo : Update(g) # Stop BY DEF Update, Stop
  <2>3. /\ main = "wstop" /\ main' = "wjoin"
        /\ UNCHANGED <<joined, alert, writer, sent, delivered, handing, failed>>
    BY <1>6 DEF StopWriter
  <2> QED BY <2>1, <2>2, <2>3 DEF Settling
<1>7. ASSUME NEW h \in coal, Dispatch(h) PROVE Settling'
  <2>1. Insert(h) \in Queued /\ wq' = Append(wq, Insert(h))
    BY <1>7 DEF Dispatch, TypeOK, Queued, Job, Insert
  <2>2. Elems(wq') = Elems(wq) \cup {Insert(h)} BY <1>0, <2>1, AppendElems
  <2>3. \A g \in HitNo : Update(g) # Insert(h) BY DEF Update, Insert
  <2>4. UNCHANGED <<main, joined, alert, writer, sent, delivered, handing, failed>>
    BY <1>7 DEF Dispatch
  <2> QED BY <2>2, <2>3, <2>4 DEF Settling
<1>8. CASE Commit
  <2>1. /\ UNCHANGED <<main, joined, alert, sent, handing, failed>> /\ writer' # "dead" /\ writer = "run"
        /\ delivered' = IF Head(wq).op = "update" THEN delivered \cup {Head(wq).hit} ELSE delivered
    BY <1>8 DEF Commit
  <2>2. Elems(wq) = {Head(wq)} \cup Elems(wq') BY <1>0, <1>8, TailElems DEF Commit
  <2>3. \A h : Update(h).op = "update" /\ Update(h).hit = h BY DEF Update
  <2>4. \A h : Update(h) \in Elems(wq) => Update(h) \in Elems(wq') \/ h \in delivered'
    BY <2>1, <2>2, <2>3
  <2>5. delivered \subseteq delivered' BY <2>1
  <2> QED BY <2>1, <2>2, <2>4, <2>5 DEF Settling
<1>9. CASE WriterDies
  <2>1. Elems(wq') \subseteq Elems(wq)
    <3>1. wq # <<>> => Elems(Tail(wq)) \subseteq Elems(wq) BY <1>0, TailElems
    <3> QED BY <1>9, <3>1 DEF WriterDies
  <2>2. writer' = "dead" /\ UNCHANGED <<main, joined, alert, sent, handing, failed>>
    BY <1>9 DEF WriterDies
  <2> QED BY <2>1, <2>2 DEF Settling
<1>10. CASE GetJob
  <2>1. ~joined /\ UNCHANGED <<main, joined, writer, sent, delivered, handing, wq, failed>>
    BY <1>10 DEF GetJob, Settling
  <2> QED BY <2>1 DEF Settling
<1>11. CASE HandIn
  <2>1. ~joined BY <1>11 DEF HandIn, Settling, SentinelLast
  <2>2. Update(handing) \in Queued /\ wq' = Append(wq, Update(handing))
    BY <1>0, <1>11 DEF HandIn, Queued, Job, Update
  <2>3. Elems(wq') = Elems(wq) \cup {Update(handing)} BY <1>0, <2>2, AppendElems
  <2> QED BY <1>11, <2>1, <2>3 DEF HandIn, Settling
<1>12. ASSUME NEW x \in sending, Settle(x) PROVE Settling'
  <2>1. ~joined BY <1>12 DEF Settle, Settling
  <2>2. /\ UNCHANGED <<main, joined, writer, delivered, wq, failed>> /\ sent' = sent \cup {x} /\ handing = 0
        /\ handing' = IF x.row /\ ~WriterStopped THEN x.hit ELSE 0
    BY <1>12 DEF Settle
  <2>3. \A y \in sent : y.row => y.hit # 0 BY DEF TypeOK, Entry, HitNo
  <2> QED BY <2>1, <2>2, <2>3 DEF Settling
<1>13. CASE JobFails
  <2>1. /\ UNCHANGED <<main, joined, alert, sent, handing, writer, delivered>>
        /\ failed' = failed \cup {Head(wq)}
    BY <1>13 DEF JobFails
  <2>2. Elems(wq) = {Head(wq)} \cup Elems(wq') BY <1>0, <1>13, TailElems DEF JobFails
  <2> QED BY <2>1, <2>2 DEF Settling
<1>14. CASE SendReturns \/ AlertDies
  <2>1. ~joined /\ UNCHANGED <<main, joined, writer, sent, delivered, handing, wq, failed>>
    BY <1>14 DEF SendReturns, AlertDies, Settling, SentinelLast
  <2> QED BY <2>1 DEF Settling
<1> QED BY <1>2, <1>3, <1>4, <1>5, <1>6, <1>7, <1>8, <1>9, <1>10, <1>11, <1>12, <1>13, <1>14
        DEF Next, MainStep, AlertStep
-----------------------------------------------------------------------------
\* The inductive invariant holds.
THEOREM StopInvariant == ASSUME ShutdownAssumption PROVE Spec => []StopInv
<1>1. Init => SentinelLast /\ HitsKept /\ Phases /\ Settling
  BY EmptyElems
     DEF Init, SentinelLast, HitsKept, Phases, Settling, Told, NoJob, WriterStopped
<1>2. TypeOK /\ RowsKnown /\ SentinelLast /\ HitsKept /\ Phases /\ Settling /\ [Next]_vars
        => (SentinelLast /\ HitsKept /\ Phases /\ Settling)'
  BY ShutdownAssumption, SentinelLastStep, HitsKeptStep, PhasesStep, SettlingStep
<1> QED BY <1>1, <1>2, ShutdownAssumption, TypeCorrect, PTL DEF Spec, StopInv

\* When the alert thread is told to end, every hit is in the database but those whose
\* insert raised, unless a watcher was abandoned, a dispatch raised or the writer died.
THEOREM AllCommitted == ASSUME ShutdownAssumption PROVE Spec => []CommittedBeforeAlertDrain
<1>1. StopInv => CommittedBeforeAlertDrain
  <2> SUFFICES ASSUME StopInv, main \in Told, left = {}, raises = 0, writer # "dead",
                      NEW h \in 1 .. emitted
               PROVE  h \in events \/ Insert(h) \in failed
    BY DEF CommittedBeforeAlertDrain, Told, Insert
  <2>1. Elems(hits) = {} /\ coal = {} BY EmptyElems DEF StopInv, Phases
  <2>2. h \in HitNo BY ShutdownAssumption DEF StopInv, TypeOK, HitNo, ShutdownAssumption
  <2>3. Insert(h) \notin Elems(wq) BY <2>2 DEF StopInv, Phases
  <2> QED BY <2>1, <2>3 DEF StopInv, HitsKept
<1> QED BY <1>1, StopInvariant, ShutdownAssumption, PTL

\* An alert thread that ended at its sentinel leaves no job or delivery record behind,
\* and one that died in a send takes no held burst with it that stop() flushes.
THEOREM NothingLeftToAlert == ASSUME ShutdownAssumption PROVE Spec => []AlertsDrained
<1>1. StopInv => AlertsDrained BY DEF StopInv, SentinelLast, AlertsDrained, Told
<1> QED BY <1>1, StopInvariant, ShutdownAssumption, PTL

\* A stop that joined the alert thread in time returns with every delivery record
\* in the database whose update did not raise.
THEOREM RecordsSettled == ASSUME ShutdownAssumption PROVE Spec => []CleanStopSettles
<1>1. StopInv => CleanStopSettles
  <2> SUFFICES ASSUME StopInv, main = "done", joined, writer # "dead", NEW x \in sent, x.row
               PROVE  x.hit \in delivered \/ Update(x.hit) \in failed
    BY DEF CleanStopSettles, Update
  <2>1. x.hit \in HitNo /\ x.hit # 0 BY DEF StopInv, TypeOK, Entry, HitNo
  <2>2. handing = 0 /\ Update(x.hit) \notin Elems(wq)
    BY <2>1 DEF StopInv, Settling, SentinelLast
  <2> QED BY <2>1, <2>2 DEF StopInv, Settling
<1> QED BY <1>1, StopInvariant, ShutdownAssumption, PTL
=============================================================================
