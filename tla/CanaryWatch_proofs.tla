------------------------- MODULE CanaryWatch_proofs -------------------------
(***************************************************************************)
(* Proofs about CanaryWatch: its types, and that the persisted baseline    *)
(* neither makes Honeypath report its own reads nor runs ahead of the      *)
(* canary.                                                                 *)
(*                                                                         *)
(* The atime of a canary is the time of its own verification read, which   *)
(* is its identity here, or that of a read by others (Atimes).  What the   *)
(* watcher, the queued jobs and the row hold was an atime of the canary    *)
(* they are for (Baselines), and re-arming may set the atime back, but not *)
(* below any of these (Ahead).                                             *)
(***************************************************************************)
EXTENDS CanaryWatch, TLAPS

JobSet == [atime: Times, id: Times]
WatchSet == [at: {"down", "poll", "rearm", "utime"}, id: {0} \cup Times,
             base: {0} \cup Times, missing: BOOLEAN, opened: {0} \cup Times]
InoSet == [up: BOOLEAN, watched: BOOLEAN]
HitSet == [type: {"gone", "recreated", "read", "inotify"}, at: {0} \cup Times, reads: SUBSET Times]

\* The types of what TypeOK leaves out, and the bound on time.
Shapes ==
    /\ watch \in WatchSet /\ ino \in InoSet
    /\ lines \in Seq(Times) /\ jobs \in Seq(JobSet) /\ sink \subseteq HitSet
    /\ used \in [reads: 0 .. MaxReads, trouble: 0 .. MaxTrouble]
    /\ clock <= 1 + used.reads + used.trouble

\* Nothing is younger than now, and the canary is in one place.
Clocked ==
    /\ file.id <= clock /\ away.id <= clock /\ row.id <= clock /\ watch.id <= clock
    /\ file.atime <= clock /\ away.atime <= clock /\ row.atime <= clock
    /\ \A j \in DOMAIN jobs : jobs[j].atime <= clock
    /\ watch.base <= clock /\ watch.opened <= clock
    /\ file.id = 0 \/ away.id = 0
    /\ Running => watch.id # 0

\* t is a time at which a canary with this identity was read.
ReadOf(id, t) == t >= id /\ (t = id \/ t \in foreign)

Atimes ==
    /\ file.id # 0 => ReadOf(file.id, file.atime)
    /\ away.id # 0 => ReadOf(away.id, away.atime)
    /\ watch.at = "utime" => ReadOf(watch.id, watch.opened)

Baselines ==
    /\ \A j \in DOMAIN jobs : jobs[j].atime >= jobs[j].id
    /\ "overtaken" \notin lapse => /\ row.atime >= row.id
                                   /\ Running => watch.base >= watch.id

\* t is not behind anything that is or may become the persisted baseline.
Latest(t) == row.atime <= t /\ \A j \in DOMAIN jobs : jobs[j].atime <= t

Ahead ==
    /\ file.id = row.id => Latest(file.atime)
    /\ away.id = row.id => Latest(away.atime)
    /\ watch.at = "utime" /\ watch.id = row.id => Latest(watch.opened)

\* The inductive invariant.
WatchInv ==
    /\ TypeOK /\ Shapes /\ Clocked /\ Atimes /\ Baselines /\ Ahead /\ NeverReportsItself
-----------------------------------------------------------------------------
(* Sequences of jobs and lines *)

\* A job more.
LEMMA MoreJobs ==
    ASSUME NEW S, NEW s \in Seq(S), NEW x \in S
    PROVE  /\ Append(s, x) \in Seq(S)
           /\ DOMAIN Append(s, x) = DOMAIN s \cup {Len(s) + 1}
           /\ Append(s, x)[Len(s) + 1] = x
           /\ \A j \in DOMAIN s : Append(s, x)[j] = s[j]
OBVIOUS

\* A job less.
LEMMA FewerJobs ==
    ASSUME NEW S, NEW s \in Seq(S), s # <<>>
    PROVE  /\ Tail(s) \in Seq(S) /\ Head(s) \in S /\ Head(s) = s[1] /\ 1 \in DOMAIN s
           /\ \A j \in DOMAIN Tail(s) : j + 1 \in DOMAIN s /\ Tail(s)[j] = s[j + 1]
OBVIOUS

\* Time is bounded by what may still happen.
LEMMA ClockType ==
    ASSUME CanaryWatchAssumption, Shapes, TypeOK
    PROVE  /\ clock \in Nat \ {0} /\ used.reads \in Nat /\ used.trouble \in Nat
           /\ used.reads < MaxReads \/ used.trouble < MaxTrouble => clock + 1 \in Times
           /\ Times \subseteq Nat \ {0} /\ clock \in Times
<1>1. /\ clock \in Times /\ used.reads \in 0 .. MaxReads /\ used.trouble \in 0 .. MaxTrouble
      /\ clock <= 1 + used.reads + used.trouble /\ MaxReads \in Nat /\ MaxTrouble \in Nat
    BY DEF TypeOK, Shapes, CanaryWatchAssumption
<1> QED BY <1>1 DEF Times

\* What the invariant says of single values.
LEMMA Values ==
    ASSUME TypeOK, Shapes
    PROVE  /\ file \in File /\ away \in File /\ row \in [id: Times, atime: Times]
           /\ watch \in WatchSet /\ jobs \in Seq(JobSet) /\ lines \in Seq(Times)
           /\ \A j \in DOMAIN jobs : jobs[j] \in JobSet /\ jobs[j].atime \in Times /\ jobs[j].id \in Times
<1>1. /\ file \in File /\ away \in File /\ row \in [id: Times, atime: Times]
      /\ watch \in WatchSet /\ jobs \in Seq(JobSet) /\ lines \in Seq(Times) BY DEF TypeOK, Shapes
<1>2. \A j \in DOMAIN jobs : jobs[j] \in JobSet BY <1>1
<1> QED BY <1>1, <1>2 DEF JobSet

\* The numbers among them.
LEMMA Numbers ==
    ASSUME CanaryWatchAssumption, TypeOK, Shapes
    PROVE  /\ clock \in Nat /\ file.id \in Nat /\ file.atime \in Nat /\ away.id \in Nat /\ away.atime \in Nat
           /\ row.id \in Nat \ {0} /\ row.atime \in Nat \ {0}
           /\ watch.id \in Nat /\ watch.base \in Nat /\ watch.opened \in Nat
           /\ \A j \in DOMAIN jobs : jobs[j].atime \in Nat /\ jobs[j].id \in Nat
<1>1. Times \subseteq Nat \ {0} /\ clock \in Times BY ClockType
<1>2. /\ file.id \in {0} \cup Times /\ file.atime \in {0} \cup Times
      /\ away.id \in {0} \cup Times /\ away.atime \in {0} \cup Times BY Values DEF File
<1>3. row.id \in Times /\ row.atime \in Times BY Values
<1>4. watch.id \in {0} \cup Times /\ watch.base \in {0} \cup Times /\ watch.opened \in {0} \cup Times
    BY Values DEF WatchSet
<1>5. \A j \in DOMAIN jobs : jobs[j].atime \in Times /\ jobs[j].id \in Times BY Values
<1>6. clock \in Nat BY <1>1
<1>7. file.id \in Nat /\ file.atime \in Nat /\ away.id \in Nat /\ away.atime \in Nat
    <2>1. \A x : x \in {0} \cup Times => x \in Nat BY <1>1
    <2> QED BY <2>1, <1>2
<1>8. row.id \in Nat \ {0} /\ row.atime \in Nat \ {0} BY <1>1, <1>3
<1>9. watch.id \in Nat /\ watch.base \in Nat /\ watch.opened \in Nat
    <2>1. \A x : x \in {0} \cup Times => x \in Nat BY <1>1
    <2> QED BY <2>1, <1>4
<1>10. \A j \in DOMAIN jobs : jobs[j].atime \in Nat /\ jobs[j].id \in Nat BY <1>1, <1>5
<1> QED BY <1>6, <1>7, <1>8, <1>9, <1>10

\* Trouble uses up one unit of its bound.
LEMMA TroubleFacts ==
    ASSUME CanaryWatchAssumption, Shapes, Trouble
    PROVE  /\ used' \in [reads: 0 .. MaxReads, trouble: 0 .. MaxTrouble]
           /\ used'.reads = used.reads /\ used'.trouble = used.trouble + 1
           /\ used.trouble < MaxTrouble
BY DEF CanaryWatchAssumption, Shapes, Trouble
-----------------------------------------------------------------------------
(* Every step keeps the invariant *)

\* The start.
LEMMA InitInv == ASSUME CanaryWatchAssumption, Init PROVE WatchInv
<1>0. /\ Times \subseteq Nat \ {0} /\ 1 \in Times /\ MaxReads \in Nat /\ MaxTrouble \in Nat
    BY DEF Times, CanaryWatchAssumption
<1>1. PICK armed \in BOOLEAN : /\ file = [id |-> 1, atime |-> 1, armed |-> armed]
                               /\ lapse = IF armed THEN {} ELSE {"created"} BY DEF Init
<1>2. TypeOK BY <1>0, <1>1 DEF Init, TypeOK, File, NoFile, Down, Asleep, Running, CanaryWatchAssumption
<1>3. Shapes BY <1>0 DEF Init, Shapes, WatchSet, InoSet, HitSet, Down, Asleep
<1>4. Clocked BY <1>0, <1>1 DEF Init, Clocked, NoFile, Down, Running
<1>5. Atimes BY <1>0, <1>1 DEF Init, Atimes, NoFile, Down, ReadOf
<1>6. Baselines BY <1>0, <1>1 DEF Init, Baselines, Down, Running
<1>7. Ahead BY <1>0, <1>1 DEF Init, Ahead, Latest, NoFile, Down
<1>8. NeverReportsItself BY DEF Init, NeverReportsItself
<1> QED BY <1>2, <1>3, <1>4, <1>5, <1>6, <1>7, <1>8 DEF WatchInv

\* A read by others makes time pass, and its time is one of foreign.
LEMMA ReadInv == ASSUME CanaryWatchAssumption, WatchInv, Read PROVE WatchInv'
<1> USE DEF vars, outside, memory, history, Trouble, Running, Rearming, Heard, Hit, Persist, IdentityMatches, Emit, NoFile, Down, Asleep
<1>0. TypeOK /\ Shapes /\ Clocked /\ Atimes /\ Baselines /\ Ahead /\ NeverReportsItself BY DEF WatchInv
<1>a. /\ clock \in Nat \ {0} /\ used.reads \in Nat /\ used.trouble \in Nat
      /\ used.reads < MaxReads \/ used.trouble < MaxTrouble => clock + 1 \in Times
      /\ Times \subseteq Nat \ {0} /\ clock \in Times BY <1>0, ClockType
<1>b. /\ file \in File /\ away \in File /\ row \in [id: Times, atime: Times]
      /\ watch \in WatchSet /\ jobs \in Seq(JobSet) /\ lines \in Seq(Times)
      /\ \A j \in DOMAIN jobs : jobs[j] \in JobSet /\ jobs[j].atime \in Times /\ jobs[j].id \in Times
    BY <1>0, Values
<1>n. /\ clock \in Nat /\ file.id \in Nat /\ file.atime \in Nat /\ away.id \in Nat /\ away.atime \in Nat
      /\ row.id \in Nat \ {0} /\ row.atime \in Nat \ {0}
      /\ watch.id \in Nat /\ watch.base \in Nat /\ watch.opened \in Nat
      /\ \A j \in DOMAIN jobs : jobs[j].atime \in Nat /\ jobs[j].id \in Nat BY <1>0, Numbers
<1>c. /\ file'.id = file.id /\ file'.atime \in {file.atime, clock + 1} /\ file' \in File
      /\ clock' = clock + 1 /\ clock + 1 \in Times /\ foreign' = foreign \cup {clock + 1}
      /\ used' \in [reads: 0 .. MaxReads, trouble: 0 .. MaxTrouble]
      /\ used'.reads = used.reads + 1 /\ used'.trouble = used.trouble
      /\ lines' \in Seq(Times) /\ file.id # 0
      /\ UNCHANGED <<strict, away, dir, row, watch, ino, jobs, sink>>
    <2>1. /\ clock + 1 \in Times /\ clock' = clock + 1 /\ file.id # 0
          /\ used' = [used EXCEPT !.reads = @ + 1] /\ used.reads < MaxReads
          /\ foreign' = foreign \cup {clock + 1} BY <1>a DEF Read
    <2>2. /\ used' \in [reads: 0 .. MaxReads, trouble: 0 .. MaxTrouble]
          /\ used'.reads = used.reads + 1 /\ used'.trouble = used.trouble
        <3>1. used \in [reads: 0 .. MaxReads, trouble: 0 .. MaxTrouble] /\ MaxReads \in Nat
            BY <1>0 DEF Shapes, CanaryWatchAssumption
        <3>2. used.reads + 1 \in 0 .. MaxReads BY <3>1, <2>1, <1>a
        <3> QED BY <3>1, <3>2, <2>1
    <2>3. lines' = Append(lines, clock + 1) \/ lines' = lines BY <2>1 DEF Read
    <2>4. lines' \in Seq(Times)
        <3>1. lines \in Seq(Times) BY <1>b
        <3> HIDE DEF Times
        <3> QED BY <2>1, <2>3, <3>1, MoreJobs
    <2>5. \/ file' = [file EXCEPT !.atime = clock + 1, !.armed = strict]
          \/ file' = file BY <2>1 DEF Read
    <2>6. strict \in BOOLEAN BY <1>0 DEF TypeOK
    <2>7. file'.id = file.id /\ file'.atime \in {file.atime, clock + 1} /\ file' \in File
        BY <2>1, <2>5, <2>6, <1>b DEF File
    <2> QED BY <2>1, <2>2, <2>4, <2>7 DEF Read
<1>1. TypeOK'
    <2>1. pending' = pending \cup {clock + 1} BY <1>c DEF Read
    <2>2. deaf' \in BOOLEAN /\ lapse' \subseteq {"created", "missed", "overtaken"}
        BY <1>0, <1>b DEF Read, TypeOK, Shapes, InoSet
    <2>3. ~Running => lines' = lines BY <1>0 DEF Read, TypeOK
    <2> QED BY <2>1, <2>2, <2>3, <1>0, <1>c DEF TypeOK
<1>2. Shapes'
    <2>1. clock <= 1 + used.reads + used.trouble BY <1>0 DEF Shapes
    <2>2. clock' <= 1 + used'.reads + used'.trouble BY <2>1, <1>c, <1>a
    <2> QED BY <2>2, <1>0, <1>c DEF Shapes
<1>3. Clocked'
    <2>1. \A t \in Nat : t <= clock => t <= clock' BY <1>c, <1>n
    <2>2. file'.atime <= clock' BY <2>1, <1>c, <1>n, <1>0 DEF Clocked
    <2>3. jobs' = jobs /\ away' = away /\ row' = row /\ watch' = watch /\ file'.id = file.id BY <1>c
    <2> QED BY <2>1, <2>2, <2>3, <1>n, <1>0 DEF Clocked
<1>4. Atimes'
    <2>1. file.id <= clock BY <1>0 DEF Clocked
    <2>2. file.atime >= file.id /\ (file.atime = file.id \/ file.atime \in foreign)
        BY <1>0, <1>c DEF Atimes, ReadOf
    <2>3. file'.atime >= file'.id
        <3>1. file'.id = file.id /\ file'.atime \in {file.atime, clock + 1} BY <1>c
        <3>2. file.id \in Nat /\ file.atime \in Nat /\ clock \in Nat BY <1>n
        <3>3. file.id <= clock + 1 BY <3>2, <2>1
        <3> QED BY <3>1, <3>3, <2>2
    <2>4. file'.atime = file'.id \/ file'.atime \in foreign' BY <2>2, <1>c
    <2>5. away' = away /\ watch' = watch /\ foreign \subseteq foreign' BY <1>c
    <2> QED BY <2>3, <2>4, <2>5, <1>0 DEF Atimes, ReadOf
<1>5. Baselines' BY <1>0, <1>a, <1>b DEF Read, Baselines
<1>6. Ahead'
    <2>1. file.atime <= clock BY <1>0 DEF Clocked
    <2>2. file.atime <= file'.atime /\ file'.atime \in Nat BY <2>1, <1>n, <1>c
    <2>3. Latest(file.atime) => Latest(file'.atime)
        BY <2>2, <1>n DEF Latest
    <2>4. \A t : Latest(t) => Latest(t)' BY <1>c DEF Latest
    <2>5. file'.id = file.id /\ UNCHANGED <<row, jobs, away, watch>> BY <1>c
    <2>6. file'.id = row'.id => row.atime <= file'.atime /\ \A j \in DOMAIN jobs : jobs[j].atime <= file'.atime
        BY <2>3, <2>5, <1>0 DEF Ahead, Latest
    <2>7. (file.id = row.id => Latest(file.atime))' BY <2>5, <2>6 DEF Latest
    <2>8. (away.id = row.id => Latest(away.atime))' BY <2>5, <1>0 DEF Ahead, Latest
    <2>9. (watch.at = "utime" /\ watch.id = row.id => Latest(watch.opened))' BY <2>5, <1>0 DEF Ahead, Latest
    <2> QED BY <2>7, <2>8, <2>9 DEF Ahead
<1>7. NeverReportsItself' BY <1>0, <1>a, <1>b DEF Read, NeverReportsItself
<1> QED BY <1>1, <1>2, <1>3, <1>4, <1>5, <1>6, <1>7 DEF WatchInv

\* The canary moves away as it is.
LEMMA RemoveInv == ASSUME CanaryWatchAssumption, WatchInv, Remove PROVE WatchInv'
<1> USE DEF vars, outside, memory, history, Trouble, Running, Rearming, Heard, Hit, Persist, IdentityMatches, Emit, NoFile, Down, Asleep
<1>0. TypeOK /\ Shapes /\ Clocked /\ Atimes /\ Baselines /\ Ahead /\ NeverReportsItself BY DEF WatchInv
<1>a. /\ clock \in Nat \ {0} /\ used.reads \in Nat /\ used.trouble \in Nat
      /\ used.reads < MaxReads \/ used.trouble < MaxTrouble => clock + 1 \in Times
      /\ Times \subseteq Nat \ {0} /\ clock \in Times BY <1>0, ClockType
<1>b. /\ file \in File /\ away \in File /\ row \in [id: Times, atime: Times]
      /\ watch \in WatchSet /\ jobs \in Seq(JobSet) /\ lines \in Seq(Times)
      /\ \A j \in DOMAIN jobs : jobs[j] \in JobSet /\ jobs[j].atime \in Times /\ jobs[j].id \in Times
    BY <1>0, Values
<1>1. TypeOK' BY <1>0, <1>a, <1>b DEF Remove, TypeOK, Shapes, File, WatchSet
<1>2. Shapes'
    <2>1. watch' = watch /\ ino' \in InoSet /\ lines' = lines /\ jobs' = jobs /\ sink' = sink BY <1>0, <1>a, <1>b DEF Remove, Shapes, WatchSet, InoSet
    <2>2. /\ used' \in [reads: 0 .. MaxReads, trouble: 0 .. MaxTrouble]
          /\ used'.reads = used.reads /\ used'.trouble = used.trouble + 1
        <3>1. Trouble BY DEF Remove
        <3> HIDE DEF Trouble
        <3> QED BY <3>1, <1>0, TroubleFacts
    <2>3. clock' = clock BY DEF Remove
    <2>4. clock <= 1 + used.reads + used.trouble BY <1>0 DEF Shapes
    <2>5. clock' <= 1 + used'.reads + used'.trouble BY <2>2, <2>3, <2>4, <1>a
    <2> QED BY <2>1, <2>2, <2>5, <1>0 DEF Shapes
<1>3. Clocked' BY <1>0, <1>a, <1>b DEF Remove, Clocked
<1>4. Atimes' BY <1>0, <1>a, <1>b DEF Remove, Atimes, ReadOf
<1>5. Baselines' BY <1>0, <1>a, <1>b DEF Remove, Baselines
<1>6. Ahead' BY <1>0, <1>a, <1>b DEF Remove, Ahead, Latest
<1>7. NeverReportsItself' BY <1>0, <1>a, <1>b DEF Remove, NeverReportsItself
<1> QED BY <1>1, <1>2, <1>3, <1>4, <1>5, <1>6, <1>7 DEF WatchInv

\* The canary comes back as it was, or a file that nobody knew takes its place.
LEMMA PutInv == ASSUME CanaryWatchAssumption, WatchInv, Put PROVE WatchInv'
<1> USE DEF vars, outside, memory, history, Trouble, Running, Rearming, Heard, Hit, Persist, IdentityMatches, Emit, NoFile, Down, Asleep
<1>0. TypeOK /\ Shapes /\ Clocked /\ Atimes /\ Baselines /\ Ahead /\ NeverReportsItself BY DEF WatchInv
<1>a. /\ clock \in Nat \ {0} /\ used.reads \in Nat /\ used.trouble \in Nat
      /\ used.reads < MaxReads \/ used.trouble < MaxTrouble => clock + 1 \in Times
      /\ Times \subseteq Nat \ {0} /\ clock \in Times BY <1>0, ClockType
<1>b. /\ file \in File /\ away \in File /\ row \in [id: Times, atime: Times]
      /\ watch \in WatchSet /\ jobs \in Seq(JobSet) /\ lines \in Seq(Times)
      /\ \A j \in DOMAIN jobs : jobs[j] \in JobSet /\ jobs[j].atime \in Times /\ jobs[j].id \in Times
    BY <1>0, Values
<1>n. /\ clock \in Nat /\ file.id \in Nat /\ file.atime \in Nat /\ away.id \in Nat /\ away.atime \in Nat
      /\ row.id \in Nat \ {0} /\ row.atime \in Nat \ {0}
      /\ watch.id \in Nat /\ watch.base \in Nat /\ watch.opened \in Nat
      /\ \A j \in DOMAIN jobs : jobs[j].atime \in Nat /\ jobs[j].id \in Nat BY <1>0, Numbers
<1>c. /\ file' \in File /\ away'.id = 0 /\ away' \in File /\ away'.atime = 0
      /\ \/ away.id # 0 /\ file' = away
         \/ file'.id = clock + 1 /\ file'.atime = clock + 1
      /\ clock' = clock + 1 /\ clock + 1 \in Times /\ dir' = TRUE
      /\ UNCHANGED <<strict, row, watch, ino, lines, jobs, sink, foreign, pending, lapse, deaf>>
    <2>1. clock' = clock + 1 /\ clock + 1 \in Times BY <1>a DEF Put
    <2>2. \/ away.id # 0 /\ file' = away
          \/ file' = [id |-> clock + 1, atime |-> clock + 1, armed |-> TRUE] BY DEF Put
    <2>3. file' \in File
        <3>1. CASE file' = away BY <3>1, <1>b
        <3>2. CASE file' = [id |-> clock + 1, atime |-> clock + 1, armed |-> TRUE]
            <4> HIDE DEF Times
            <4> QED BY <3>2, <2>1 DEF File
        <3> QED BY <2>2, <3>1, <3>2
    <2>4. away' \in File /\ away'.id = 0 /\ away'.atime = 0 BY DEF Put, File
    <2> QED BY <2>1, <2>2, <2>3, <2>4 DEF Put
<1>1. TypeOK' BY <1>0, <1>c DEF TypeOK
<1>2. Shapes'
    <2>1. UNCHANGED <<watch, ino, lines, jobs, sink>> BY <1>0, <1>a, <1>b DEF Put, Shapes, WatchSet, InoSet
    <2>2. /\ used' \in [reads: 0 .. MaxReads, trouble: 0 .. MaxTrouble]
          /\ used'.reads = used.reads /\ used'.trouble = used.trouble + 1
        <3>1. Trouble BY DEF Put
        <3> HIDE DEF Trouble
        <3> QED BY <3>1, <1>0, TroubleFacts
    <2>3. clock' = clock + 1 BY DEF Put
    <2>4. clock <= 1 + used.reads + used.trouble BY <1>0 DEF Shapes
    <2>5. clock' <= 1 + used'.reads + used'.trouble BY <2>2, <2>3, <2>4, <1>a
    <2> QED BY <2>1, <2>2, <2>5, <1>0 DEF Shapes
<1>3. Clocked'
    <2>1. \A t \in Nat : t <= clock => t <= clock' BY <1>c, <1>n
    <2>2. file'.id <= clock' /\ file'.atime <= clock' /\ away'.id = 0 /\ away'.atime = 0
        BY <2>1, <1>c, <1>n, <1>0 DEF Clocked
    <2>3. 0 <= clock' BY <1>c, <1>n
    <2>4. jobs' = jobs /\ row' = row /\ watch' = watch BY <1>c
    <2> QED BY <2>1, <2>2, <2>3, <2>4, <1>n, <1>0 DEF Clocked
<1>4. Atimes' BY <1>0, <1>a, <1>b DEF Put, Atimes, ReadOf
<1>5. Baselines' BY <1>0, <1>a, <1>b DEF Put, Baselines
<1>6. Ahead'
    <2>1. row.id # clock + 1 /\ row.id # 0 BY <1>0, <1>a, <1>b DEF Clocked
    <2> QED BY <2>1, <1>0, <1>c DEF Ahead, Latest
<1>7. NeverReportsItself' BY <1>0, <1>a, <1>b DEF Put, NeverReportsItself
<1> QED BY <1>1, <1>2, <1>3, <1>4, <1>5, <1>6, <1>7 DEF WatchInv

\* A refreshed canary is younger than everything.
LEMMA RefreshInv == ASSUME CanaryWatchAssumption, WatchInv, Refresh PROVE WatchInv'
<1> USE DEF vars, outside, memory, history, Trouble, Running, Rearming, Heard, Hit, Persist, IdentityMatches, Emit, NoFile, Down, Asleep
<1>0. TypeOK /\ Shapes /\ Clocked /\ Atimes /\ Baselines /\ Ahead /\ NeverReportsItself BY DEF WatchInv
<1>a. /\ clock \in Nat \ {0} /\ used.reads \in Nat /\ used.trouble \in Nat
      /\ used.reads < MaxReads \/ used.trouble < MaxTrouble => clock + 1 \in Times
      /\ Times \subseteq Nat \ {0} /\ clock \in Times BY <1>0, ClockType
<1>b. /\ file \in File /\ away \in File /\ row \in [id: Times, atime: Times]
      /\ watch \in WatchSet /\ jobs \in Seq(JobSet) /\ lines \in Seq(Times)
      /\ \A j \in DOMAIN jobs : jobs[j] \in JobSet /\ jobs[j].atime \in Times /\ jobs[j].id \in Times
    BY <1>0, Values
<1>n. /\ clock \in Nat /\ file.id \in Nat /\ file.atime \in Nat /\ away.id \in Nat /\ away.atime \in Nat
      /\ row.id \in Nat \ {0} /\ row.atime \in Nat \ {0}
      /\ watch.id \in Nat /\ watch.base \in Nat /\ watch.opened \in Nat
      /\ \A j \in DOMAIN jobs : jobs[j].atime \in Nat /\ jobs[j].id \in Nat BY <1>0, Numbers
<1>c. /\ file' \in File /\ file'.id = clock + 1 /\ file'.atime = clock + 1
      /\ clock' = clock + 1 /\ clock + 1 \in Times
      /\ row' = [id |-> clock + 1, atime |-> clock + 1] /\ file.id # 0
      /\ UNCHANGED <<strict, away, dir, watch, ino, lines, jobs, sink, foreign, pending, deaf>>
    <2>1. clock' = clock + 1 /\ clock + 1 \in Times BY <1>a DEF Refresh
    <2>2. \E armed \in BOOLEAN : file' = [id |-> clock + 1, atime |-> clock + 1, armed |-> armed]
        BY <2>1 DEF Refresh
    <2>3. file' \in File /\ file'.id = clock + 1 /\ file'.atime = clock + 1 BY <2>1, <2>2 DEF File
    <2> QED BY <2>1, <2>3 DEF Refresh
<1>1. TypeOK' BY <1>0, <1>a, <1>b DEF Refresh, TypeOK, Shapes, File, WatchSet
<1>2. Shapes'
    <2>1. UNCHANGED <<watch, ino, lines, jobs, sink>> BY <1>0, <1>a, <1>b DEF Refresh, Shapes, WatchSet, InoSet
    <2>2. /\ used' \in [reads: 0 .. MaxReads, trouble: 0 .. MaxTrouble]
          /\ used'.reads = used.reads /\ used'.trouble = used.trouble + 1
        <3>1. Trouble BY DEF Refresh
        <3> HIDE DEF Trouble
        <3> QED BY <3>1, <1>0, TroubleFacts
    <2>3. clock' = clock + 1 BY DEF Refresh
    <2>4. clock <= 1 + used.reads + used.trouble BY <1>0 DEF Shapes
    <2>5. clock' <= 1 + used'.reads + used'.trouble BY <2>2, <2>3, <2>4, <1>a
    <2> QED BY <2>1, <2>2, <2>5, <1>0 DEF Shapes
<1>3. Clocked'
    <2>1. \A t \in Nat : t <= clock => t <= clock' BY <1>c, <1>n
    <2>2. file'.id <= clock' /\ file'.atime <= clock' /\ row'.id <= clock' /\ row'.atime <= clock'
        BY <1>c, <1>n
    <2>3. jobs' = jobs /\ away' = away /\ watch' = watch /\ away.id = 0 BY <1>c, <1>0 DEF Clocked
    <2> QED BY <2>1, <2>2, <2>3, <1>n, <1>0 DEF Clocked
<1>4. Atimes' BY <1>0, <1>a, <1>b DEF Refresh, Atimes, ReadOf
<1>5. Baselines' BY <1>0, <1>a, <1>b DEF Refresh, Baselines
<1>6. Ahead'
    <2>1. away.id = 0 /\ watch.id <= clock BY <1>0, <1>c DEF Clocked
    <2>2. watch.id # clock + 1 /\ clock + 1 # 0 BY <2>1, <1>n
    <2>3. \A j \in DOMAIN jobs : jobs[j].atime <= clock BY <1>0 DEF Clocked
    <2>4. \A j \in DOMAIN jobs : jobs[j].atime <= clock + 1 BY <2>3, <1>n
    <2>5. clock + 1 <= clock + 1 BY <1>n
    <2>6. row'.id = clock + 1 /\ row'.atime = clock + 1 /\ away' = away /\ watch' = watch /\ jobs' = jobs BY <1>c
    <2> QED BY <2>1, <2>2, <2>4, <2>5, <2>6, <1>c DEF Ahead, Latest
<1>7. NeverReportsItself' BY <1>0, <1>a, <1>b DEF Refresh, NeverReportsItself
<1> QED BY <1>1, <1>2, <1>3, <1>4, <1>5, <1>6, <1>7 DEF WatchInv

\* A new watcher starts from the row.
LEMMA StartWatchInv == ASSUME CanaryWatchAssumption, WatchInv, StartWatch PROVE WatchInv'
<1> USE DEF vars, outside, memory, history, Trouble, Running, Rearming, Heard, Hit, Persist, IdentityMatches, Emit, NoFile, Down, Asleep
<1>0. TypeOK /\ Shapes /\ Clocked /\ Atimes /\ Baselines /\ Ahead /\ NeverReportsItself BY DEF WatchInv
<1>a. /\ clock \in Nat \ {0} /\ used.reads \in Nat /\ used.trouble \in Nat
      /\ used.reads < MaxReads \/ used.trouble < MaxTrouble => clock + 1 \in Times
      /\ Times \subseteq Nat \ {0} /\ clock \in Times BY <1>0, ClockType
<1>b. /\ file \in File /\ away \in File /\ row \in [id: Times, atime: Times]
      /\ watch \in WatchSet /\ jobs \in Seq(JobSet) /\ lines \in Seq(Times)
      /\ \A j \in DOMAIN jobs : jobs[j] \in JobSet /\ jobs[j].atime \in Times /\ jobs[j].id \in Times
    BY <1>0, Values
<1>1. TypeOK' BY <1>0, <1>a, <1>b DEF StartWatch, TypeOK, Shapes, File, WatchSet
<1>2. Shapes' BY <1>0, <1>a, <1>b DEF StartWatch, TypeOK, Shapes, File, WatchSet, InoSet, JobSet, HitSet
<1>3. Clocked' BY <1>0, <1>a, <1>b DEF StartWatch, Clocked
<1>4. Atimes' BY <1>0, <1>a, <1>b DEF StartWatch, Atimes, ReadOf
<1>5. Baselines' BY <1>0, <1>a, <1>b DEF StartWatch, Baselines
<1>6. Ahead' BY <1>0, <1>a, <1>b DEF StartWatch, Ahead, Latest
<1>7. NeverReportsItself' BY <1>0, <1>a, <1>b DEF StartWatch, NeverReportsItself
<1> QED BY <1>1, <1>2, <1>3, <1>4, <1>5, <1>6, <1>7 DEF WatchInv

\* A hit about a missing canary stands for no read.
LEMMA PollGoneInv == ASSUME CanaryWatchAssumption, WatchInv, PollGone PROVE WatchInv'
<1> USE DEF vars, outside, memory, history, Trouble, Running, Rearming, Heard, Hit, Persist, IdentityMatches, Emit, NoFile, Down, Asleep
<1>0. TypeOK /\ Shapes /\ Clocked /\ Atimes /\ Baselines /\ Ahead /\ NeverReportsItself BY DEF WatchInv
<1>a. /\ clock \in Nat \ {0} /\ used.reads \in Nat /\ used.trouble \in Nat
      /\ used.reads < MaxReads \/ used.trouble < MaxTrouble => clock + 1 \in Times
      /\ Times \subseteq Nat \ {0} /\ clock \in Times BY <1>0, ClockType
<1>b. /\ file \in File /\ away \in File /\ row \in [id: Times, atime: Times]
      /\ watch \in WatchSet /\ jobs \in Seq(JobSet) /\ lines \in Seq(Times)
      /\ \A j \in DOMAIN jobs : jobs[j] \in JobSet /\ jobs[j].atime \in Times /\ jobs[j].id \in Times
    BY <1>0, Values
<1>1. TypeOK' BY <1>0, <1>a, <1>b DEF PollGone, TypeOK, Shapes, File, WatchSet
<1>2. Shapes'
    <2>1. file.atime \in {0} \cup Times BY <1>b DEF File
    <2>2. sink' \subseteq HitSet BY <2>1, <1>0 DEF PollGone, Shapes, HitSet
    <2>3. watch' \in WatchSet BY <1>b DEF PollGone, WatchSet
    <2> QED BY <2>2, <2>3, <1>0 DEF PollGone, Shapes
<1>3. Clocked' BY <1>0, <1>a, <1>b DEF PollGone, Clocked
<1>4. Atimes' BY <1>0, <1>a, <1>b DEF PollGone, Atimes, ReadOf
<1>5. Baselines' BY <1>0, <1>a, <1>b DEF PollGone, Baselines
<1>6. Ahead' BY <1>0, <1>a, <1>b DEF PollGone, Ahead, Latest
<1>7. NeverReportsItself' BY <1>0, <1>a, <1>b DEF PollGone, NeverReportsItself
<1> QED BY <1>1, <1>2, <1>3, <1>4, <1>5, <1>6, <1>7 DEF WatchInv

\* The baseline of a canary that came back is its atime.
LEMMA PollBackInv == ASSUME CanaryWatchAssumption, WatchInv, PollBack PROVE WatchInv'
<1> USE DEF vars, outside, memory, history, Trouble, Running, Rearming, Heard, Hit, Persist, IdentityMatches, Emit, NoFile, Down, Asleep
<1>0. TypeOK /\ Shapes /\ Clocked /\ Atimes /\ Baselines /\ Ahead /\ NeverReportsItself BY DEF WatchInv
<1>a. /\ clock \in Nat \ {0} /\ used.reads \in Nat /\ used.trouble \in Nat
      /\ used.reads < MaxReads \/ used.trouble < MaxTrouble => clock + 1 \in Times
      /\ Times \subseteq Nat \ {0} /\ clock \in Times BY <1>0, ClockType
<1>b. /\ file \in File /\ away \in File /\ row \in [id: Times, atime: Times]
      /\ watch \in WatchSet /\ jobs \in Seq(JobSet) /\ lines \in Seq(Times)
      /\ \A j \in DOMAIN jobs : jobs[j] \in JobSet /\ jobs[j].atime \in Times /\ jobs[j].id \in Times
    BY <1>0, Values
<1>n. /\ clock \in Nat /\ file.id \in Nat /\ file.atime \in Nat /\ away.id \in Nat /\ away.atime \in Nat
      /\ row.id \in Nat \ {0} /\ row.atime \in Nat \ {0}
      /\ watch.id \in Nat /\ watch.base \in Nat /\ watch.opened \in Nat
      /\ \A j \in DOMAIN jobs : jobs[j].atime \in Nat /\ jobs[j].id \in Nat BY <1>0, Numbers
<1>c. /\ jobs' = Append(jobs, [atime |-> file.atime, id |-> watch.id])
      /\ [atime |-> file.atime, id |-> watch.id] \in JobSet
      /\ file.id = watch.id /\ file.id # 0 /\ file.atime \in Times /\ watch.id \in Times
      /\ jobs' \in Seq(JobSet) /\ DOMAIN jobs' = DOMAIN jobs \cup {Len(jobs) + 1}
      /\ jobs'[Len(jobs) + 1].atime = file.atime /\ jobs'[Len(jobs) + 1].id = watch.id
      /\ \A j \in DOMAIN jobs : jobs'[j] = jobs[j]
      /\ file.atime >= file.id
    <2>1. /\ jobs' = Append(jobs, [atime |-> file.atime, id |-> watch.id])
          /\ file.id = watch.id /\ file.id # 0 BY DEF PollBack
    <2>2. ReadOf(file.id, file.atime) BY <2>1, <1>0 DEF Atimes
    <2>3. file.id \in Times /\ file.atime \in {0} \cup Times BY <2>1, <1>b DEF File
    <2>4. file.atime >= file.id BY <2>2 DEF ReadOf
    <2>5. file.atime # 0 BY <2>1, <2>4, <1>n
    <2>6. [atime |-> file.atime, id |-> watch.id] \in JobSet /\ file.atime \in Times BY <2>1, <2>3, <2>5 DEF JobSet
    <2>7. jobs \in Seq(JobSet) BY <1>b
    <2> QED BY <2>1, <2>3, <2>4, <2>5, <2>6, <2>7, MoreJobs
<1>1. TypeOK' BY <1>0, <1>a, <1>b DEF PollBack, TypeOK, Shapes, File, WatchSet
<1>2. Shapes'
    <2>1. pending \subseteq Times BY <1>0 DEF TypeOK
    <2>2. sink' \subseteq HitSet BY <2>1, <1>c, <1>0 DEF PollBack, Shapes, HitSet
    <2>3. watch' \in WatchSet BY <1>b, <1>c DEF PollBack, WatchSet
    <2> QED BY <2>2, <2>3, <1>0, <1>c DEF PollBack, Shapes
<1>3. Clocked' BY <1>0, <1>a, <1>b DEF PollBack, Clocked
<1>4. Atimes' BY <1>0, <1>a, <1>b DEF PollBack, Atimes, ReadOf
<1>5. Baselines' BY <1>0, <1>c, <1>b DEF PollBack, Baselines, WatchSet
<1>6. Ahead'
    <2>1. away.id = 0 /\ row.id # 0 BY <1>0, <1>a, <1>b, <1>c DEF Clocked
    <2>2. Latest(file.atime) => Latest(file.atime)' BY <1>a, <1>c DEF PollBack, Latest
    <2> QED BY <2>1, <2>2, <1>0 DEF PollBack, Ahead
<1>7. NeverReportsItself' BY <1>0, <1>a, <1>b DEF PollBack, NeverReportsItself
<1> QED BY <1>1, <1>2, <1>3, <1>4, <1>5, <1>6, <1>7 DEF WatchInv

\* An atime above the baseline is that of a read by others.
LEMMA PollReadInv == ASSUME CanaryWatchAssumption, WatchInv, PollRead PROVE WatchInv'
<1> USE DEF vars, outside, memory, history, Trouble, Running, Rearming, Heard, Hit, Persist, IdentityMatches, Emit, NoFile, Down, Asleep
<1>0. TypeOK /\ Shapes /\ Clocked /\ Atimes /\ Baselines /\ Ahead /\ NeverReportsItself BY DEF WatchInv
<1>a. /\ clock \in Nat \ {0} /\ used.reads \in Nat /\ used.trouble \in Nat
      /\ used.reads < MaxReads \/ used.trouble < MaxTrouble => clock + 1 \in Times
      /\ Times \subseteq Nat \ {0} /\ clock \in Times BY <1>0, ClockType
<1>b. /\ file \in File /\ away \in File /\ row \in [id: Times, atime: Times]
      /\ watch \in WatchSet /\ jobs \in Seq(JobSet) /\ lines \in Seq(Times)
      /\ \A j \in DOMAIN jobs : jobs[j] \in JobSet /\ jobs[j].atime \in Times /\ jobs[j].id \in Times
    BY <1>0, Values
<1>n. /\ clock \in Nat /\ file.id \in Nat /\ file.atime \in Nat /\ away.id \in Nat /\ away.atime \in Nat
      /\ row.id \in Nat \ {0} /\ row.atime \in Nat \ {0}
      /\ watch.id \in Nat /\ watch.base \in Nat /\ watch.opened \in Nat
      /\ \A j \in DOMAIN jobs : jobs[j].atime \in Nat /\ jobs[j].id \in Nat BY <1>0, Numbers
<1>c. /\ jobs' = Append(jobs, [atime |-> file.atime, id |-> watch.id])
      /\ [atime |-> file.atime, id |-> watch.id] \in JobSet
      /\ file.id = watch.id /\ file.id # 0 /\ file.atime \in Times /\ watch.id \in Times
      /\ jobs' \in Seq(JobSet) /\ DOMAIN jobs' = DOMAIN jobs \cup {Len(jobs) + 1}
      /\ jobs'[Len(jobs) + 1].atime = file.atime /\ jobs'[Len(jobs) + 1].id = watch.id
      /\ \A j \in DOMAIN jobs : jobs'[j] = jobs[j]
      /\ file.atime >= file.id
    <2>1. /\ jobs' = Append(jobs, [atime |-> file.atime, id |-> watch.id])
          /\ file.id = watch.id /\ file.id # 0 BY DEF PollRead
    <2>2. ReadOf(file.id, file.atime) BY <2>1, <1>0 DEF Atimes
    <2>3. file.id \in Times /\ file.atime \in {0} \cup Times BY <2>1, <1>b DEF File
    <2>4. file.atime >= file.id BY <2>2 DEF ReadOf
    <2>5. file.atime # 0 BY <2>1, <2>4, <1>n
    <2>6. [atime |-> file.atime, id |-> watch.id] \in JobSet /\ file.atime \in Times BY <2>1, <2>3, <2>5 DEF JobSet
    <2>7. jobs \in Seq(JobSet) BY <1>b
    <2> QED BY <2>1, <2>3, <2>4, <2>5, <2>6, <2>7, MoreJobs
<1>1. TypeOK' BY <1>0, <1>a, <1>b DEF PollRead, TypeOK, Shapes, File, WatchSet
<1>2. Shapes'
    <2>1. pending \subseteq Times BY <1>0 DEF TypeOK
    <2>2. sink' \subseteq HitSet BY <2>1, <1>c, <1>0 DEF PollRead, Shapes, HitSet
    <2>3. watch' \in WatchSet BY <1>b, <1>c DEF PollRead, WatchSet
    <2> QED BY <2>2, <2>3, <1>0, <1>c DEF PollRead, Shapes
<1>3. Clocked' BY <1>0, <1>a, <1>b DEF PollRead, Clocked
<1>4. Atimes' BY <1>0, <1>a, <1>b DEF PollRead, Atimes, ReadOf
<1>5. Baselines' BY <1>0, <1>c, <1>b DEF PollRead, Baselines, WatchSet
<1>6. Ahead'
    <2>1. away.id = 0 /\ row.id # 0 BY <1>0, <1>a, <1>b, <1>c DEF Clocked
    <2>2. Latest(file.atime) => Latest(file.atime)' BY <1>a, <1>c DEF PollRead, Latest
    <2> QED BY <2>1, <2>2, <1>0 DEF PollRead, Ahead
<1>7. NeverReportsItself'
    <2>1. SUFFICES ASSUME "overtaken" \notin lapse PROVE file.atime \in foreign
        BY <1>0 DEF PollRead, NeverReportsItself
    <2>2. watch.base >= watch.id /\ file.atime > watch.base BY <2>1, <1>0 DEF PollRead, Baselines
    <2>3. ReadOf(file.id, file.atime) BY <1>0, <1>c DEF Atimes
    <2>4. file.atime # file.id BY <2>2, <1>n, <1>c
    <2> QED BY <2>3, <2>4 DEF ReadOf
<1> QED BY <1>1, <1>2, <1>3, <1>4, <1>5, <1>6, <1>7 DEF WatchInv

\* The atime that re-arming will restore is the canary's.
LEMMA RearmOpenInv == ASSUME CanaryWatchAssumption, WatchInv, RearmOpen PROVE WatchInv'
<1> USE DEF vars, outside, memory, history, Trouble, Running, Rearming, Heard, Hit, Persist, IdentityMatches, Emit, NoFile, Down, Asleep
<1>0. TypeOK /\ Shapes /\ Clocked /\ Atimes /\ Baselines /\ Ahead /\ NeverReportsItself BY DEF WatchInv
<1>a. /\ clock \in Nat \ {0} /\ used.reads \in Nat /\ used.trouble \in Nat
      /\ used.reads < MaxReads \/ used.trouble < MaxTrouble => clock + 1 \in Times
      /\ Times \subseteq Nat \ {0} /\ clock \in Times BY <1>0, ClockType
<1>b. /\ file \in File /\ away \in File /\ row \in [id: Times, atime: Times]
      /\ watch \in WatchSet /\ jobs \in Seq(JobSet) /\ lines \in Seq(Times)
      /\ \A j \in DOMAIN jobs : jobs[j] \in JobSet /\ jobs[j].atime \in Times /\ jobs[j].id \in Times
    BY <1>0, Values
<1>c. /\ watch' \in WatchSet /\ watch'.id = watch.id /\ watch'.base = watch.base /\ watch.at = "rearm"
      /\ \/ /\ file.id = watch.id /\ file.id # 0 /\ watch'.at = "utime"
            /\ watch'.opened = file.atime
         \/ watch'.at = "poll" /\ watch'.opened = watch.opened
      /\ UNCHANGED <<outside, row, clock, ino, lines, jobs, sink, used, history>>
    <2>1. \/ /\ file.id = watch.id /\ file.id # 0
             /\ watch' = [watch EXCEPT !.at = "utime", !.opened = file.atime]
          \/ watch' = [watch EXCEPT !.at = "poll"] BY DEF RearmOpen
    <2>2. file.atime \in {0} \cup Times BY <1>b DEF File
    <2> QED BY <2>1, <2>2, <1>b DEF RearmOpen, WatchSet
<1>1. TypeOK' BY <1>0, <1>a, <1>b DEF RearmOpen, TypeOK, Shapes, File, WatchSet
<1>2. Shapes' BY <1>0, <1>c DEF Shapes
<1>3. Clocked' BY <1>0, <1>c DEF Clocked
<1>4. Atimes' BY <1>0, <1>c DEF Atimes, ReadOf
<1>5. Baselines' BY <1>0, <1>c DEF Baselines
<1>6. Ahead' BY <1>0, <1>c DEF Ahead, Latest
<1>7. NeverReportsItself' BY <1>0, <1>a, <1>b DEF RearmOpen, NeverReportsItself
<1> QED BY <1>1, <1>2, <1>3, <1>4, <1>5, <1>6, <1>7 DEF WatchInv

\* What re-arming restores is not behind any baseline.
LEMMA RearmSetInv == ASSUME CanaryWatchAssumption, WatchInv, RearmSet PROVE WatchInv'
<1> USE DEF vars, outside, memory, history, Trouble, Running, Rearming, Heard, Hit, Persist, IdentityMatches, Emit, NoFile, Down, Asleep
<1>0. TypeOK /\ Shapes /\ Clocked /\ Atimes /\ Baselines /\ Ahead /\ NeverReportsItself BY DEF WatchInv
<1>a. /\ clock \in Nat \ {0} /\ used.reads \in Nat /\ used.trouble \in Nat
      /\ used.reads < MaxReads \/ used.trouble < MaxTrouble => clock + 1 \in Times
      /\ Times \subseteq Nat \ {0} /\ clock \in Times BY <1>0, ClockType
<1>b. /\ file \in File /\ away \in File /\ row \in [id: Times, atime: Times]
      /\ watch \in WatchSet /\ jobs \in Seq(JobSet) /\ lines \in Seq(Times)
      /\ \A j \in DOMAIN jobs : jobs[j] \in JobSet /\ jobs[j].atime \in Times /\ jobs[j].id \in Times
    BY <1>0, Values
<1>1. TypeOK' BY <1>0, <1>a, <1>b DEF RearmSet, TypeOK, Shapes, File, WatchSet
<1>2. Shapes' BY <1>0, <1>a, <1>b DEF RearmSet, TypeOK, Shapes, File, WatchSet, InoSet, JobSet, HitSet
<1>3. Clocked' BY <1>0, <1>a, <1>b DEF RearmSet, Clocked
<1>4. Atimes' BY <1>0, <1>a, <1>b DEF RearmSet, Atimes, ReadOf
<1>5. Baselines' BY <1>0, <1>a, <1>b DEF RearmSet, Baselines
<1>6. Ahead' BY <1>0, <1>a, <1>b DEF RearmSet, Ahead, Latest
<1>7. NeverReportsItself' BY <1>0, <1>a, <1>b DEF RearmSet, NeverReportsItself
<1> QED BY <1>1, <1>2, <1>3, <1>4, <1>5, <1>6, <1>7 DEF WatchInv

\* A failing re-arm leaves the file alone.
LEMMA RearmFailsInv == ASSUME CanaryWatchAssumption, WatchInv, RearmFails PROVE WatchInv'
<1> USE DEF vars, outside, memory, history, Trouble, Running, Rearming, Heard, Hit, Persist, IdentityMatches, Emit, NoFile, Down, Asleep
<1>0. TypeOK /\ Shapes /\ Clocked /\ Atimes /\ Baselines /\ Ahead /\ NeverReportsItself BY DEF WatchInv
<1>a. /\ clock \in Nat \ {0} /\ used.reads \in Nat /\ used.trouble \in Nat
      /\ used.reads < MaxReads \/ used.trouble < MaxTrouble => clock + 1 \in Times
      /\ Times \subseteq Nat \ {0} /\ clock \in Times BY <1>0, ClockType
<1>b. /\ file \in File /\ away \in File /\ row \in [id: Times, atime: Times]
      /\ watch \in WatchSet /\ jobs \in Seq(JobSet) /\ lines \in Seq(Times)
      /\ \A j \in DOMAIN jobs : jobs[j] \in JobSet /\ jobs[j].atime \in Times /\ jobs[j].id \in Times
    BY <1>0, Values
<1>1. TypeOK' BY <1>0, <1>a, <1>b DEF RearmFails, TypeOK, Shapes, File, WatchSet
<1>2. Shapes'
    <2>1. watch' \in WatchSet /\ UNCHANGED <<ino, lines, jobs, sink>> BY <1>0, <1>a, <1>b DEF RearmFails, Shapes, WatchSet, InoSet
    <2>2. /\ used' \in [reads: 0 .. MaxReads, trouble: 0 .. MaxTrouble]
          /\ used'.reads = used.reads /\ used'.trouble = used.trouble + 1
        <3>1. Trouble BY DEF RearmFails
        <3> HIDE DEF Trouble
        <3> QED BY <3>1, <1>0, TroubleFacts
    <2>3. clock' = clock BY DEF RearmFails
    <2>4. clock <= 1 + used.reads + used.trouble BY <1>0 DEF Shapes
    <2>5. clock' <= 1 + used'.reads + used'.trouble BY <2>2, <2>3, <2>4, <1>a
    <2> QED BY <2>1, <2>2, <2>5, <1>0 DEF Shapes
<1>3. Clocked' BY <1>0, <1>a, <1>b DEF RearmFails, Clocked
<1>4. Atimes' BY <1>0, <1>a, <1>b DEF RearmFails, Atimes, ReadOf
<1>5. Baselines' BY <1>0, <1>a, <1>b DEF RearmFails, Baselines
<1>6. Ahead' BY <1>0, <1>a, <1>b DEF RearmFails, Ahead, Latest
<1>7. NeverReportsItself' BY <1>0, <1>a, <1>b DEF RearmFails, NeverReportsItself
<1> QED BY <1>1, <1>2, <1>3, <1>4, <1>5, <1>6, <1>7 DEF WatchInv

\* The baseline that is stored was an atime of the canary, or it is overtaken.
LEMMA CommitBaselineInv == ASSUME CanaryWatchAssumption, WatchInv, CommitBaseline PROVE WatchInv'
<1> USE DEF vars, outside, memory, history, Trouble, Running, Rearming, Heard, Hit, Persist, IdentityMatches, Emit, NoFile, Down, Asleep
<1>0. TypeOK /\ Shapes /\ Clocked /\ Atimes /\ Baselines /\ Ahead /\ NeverReportsItself BY DEF WatchInv
<1>a. /\ clock \in Nat \ {0} /\ used.reads \in Nat /\ used.trouble \in Nat
      /\ used.reads < MaxReads \/ used.trouble < MaxTrouble => clock + 1 \in Times
      /\ Times \subseteq Nat \ {0} /\ clock \in Times BY <1>0, ClockType
<1>b. /\ file \in File /\ away \in File /\ row \in [id: Times, atime: Times]
      /\ watch \in WatchSet /\ jobs \in Seq(JobSet) /\ lines \in Seq(Times)
      /\ \A j \in DOMAIN jobs : jobs[j] \in JobSet /\ jobs[j].atime \in Times /\ jobs[j].id \in Times
    BY <1>0, Values
<1>1. TypeOK'
    <2>1. row' \in [id: Times, atime: Times] /\ row'.id = row.id BY <1>b DEF CommitBaseline, JobSet
    <2>2. jobs = <<>> => FALSE BY DEF CommitBaseline
    <2> QED BY <2>1, <2>2, <1>0 DEF CommitBaseline, TypeOK
<1>2. Shapes' BY <1>0, <1>a, <1>b DEF CommitBaseline, TypeOK, Shapes, File, WatchSet, InoSet, JobSet, HitSet
<1>3. Clocked' BY <1>0, <1>a, <1>b DEF CommitBaseline, Clocked
<1>4. Atimes' BY <1>0, <1>a, <1>b DEF CommitBaseline, Atimes, ReadOf
<1>5. Baselines' BY <1>0, <1>a, <1>b DEF CommitBaseline, Baselines
<1>6. Ahead'
    <2>1. /\ jobs # <<>> /\ row'.id = row.id /\ row'.atime = Head(jobs).atime /\ jobs' = Tail(jobs)
          /\ UNCHANGED <<file, away, watch>> BY <1>b DEF CommitBaseline
    <2>2. /\ Head(jobs) = jobs[1] /\ 1 \in DOMAIN jobs
          /\ \A j \in DOMAIN Tail(jobs) : j + 1 \in DOMAIN jobs /\ Tail(jobs)[j] = jobs[j + 1]
        BY <2>1, <1>b, FewerJobs
    <2>3. \A t : Latest(t) => Latest(t)' BY <2>1, <2>2 DEF Latest
    <2> QED BY <2>1, <2>3, <1>0 DEF Ahead
<1>7. NeverReportsItself' BY <1>0, <1>a, <1>b DEF CommitBaseline, NeverReportsItself
<1> QED BY <1>1, <1>2, <1>3, <1>4, <1>5, <1>6, <1>7 DEF WatchInv

\* inotifywait has no part in baselines.
LEMMA StartInotifyInv == ASSUME CanaryWatchAssumption, WatchInv, StartInotify PROVE WatchInv'
<1> USE DEF vars, outside, memory, history, Trouble, Running, Rearming, Heard, Hit, Persist, IdentityMatches, Emit, NoFile, Down, Asleep
<1>0. TypeOK /\ Shapes /\ Clocked /\ Atimes /\ Baselines /\ Ahead /\ NeverReportsItself BY DEF WatchInv
<1>a. /\ clock \in Nat \ {0} /\ used.reads \in Nat /\ used.trouble \in Nat
      /\ used.reads < MaxReads \/ used.trouble < MaxTrouble => clock + 1 \in Times
      /\ Times \subseteq Nat \ {0} /\ clock \in Times BY <1>0, ClockType
<1>b. /\ file \in File /\ away \in File /\ row \in [id: Times, atime: Times]
      /\ watch \in WatchSet /\ jobs \in Seq(JobSet) /\ lines \in Seq(Times)
      /\ \A j \in DOMAIN jobs : jobs[j] \in JobSet /\ jobs[j].atime \in Times /\ jobs[j].id \in Times
    BY <1>0, Values
<1>1. TypeOK' BY <1>0, <1>a, <1>b DEF StartInotify, TypeOK, Shapes, File, WatchSet
<1>2. Shapes' BY <1>0, <1>a, <1>b DEF StartInotify, TypeOK, Shapes, File, WatchSet, InoSet, JobSet, HitSet
<1>3. Clocked' BY <1>0, <1>a, <1>b DEF StartInotify, Clocked
<1>4. Atimes' BY <1>0, <1>a, <1>b DEF StartInotify, Atimes, ReadOf
<1>5. Baselines' BY <1>0, <1>a, <1>b DEF StartInotify, Baselines
<1>6. Ahead' BY <1>0, <1>a, <1>b DEF StartInotify, Ahead, Latest
<1>7. NeverReportsItself' BY <1>0, <1>a, <1>b DEF StartInotify, NeverReportsItself
<1> QED BY <1>1, <1>2, <1>3, <1>4, <1>5, <1>6, <1>7 DEF WatchInv

\* Nor has its end.
LEMMA InotifyExitsInv == ASSUME CanaryWatchAssumption, WatchInv, InotifyExits PROVE WatchInv'
<1> USE DEF vars, outside, memory, history, Trouble, Running, Rearming, Heard, Hit, Persist, IdentityMatches, Emit, NoFile, Down, Asleep
<1>0. TypeOK /\ Shapes /\ Clocked /\ Atimes /\ Baselines /\ Ahead /\ NeverReportsItself BY DEF WatchInv
<1>a. /\ clock \in Nat \ {0} /\ used.reads \in Nat /\ used.trouble \in Nat
      /\ used.reads < MaxReads \/ used.trouble < MaxTrouble => clock + 1 \in Times
      /\ Times \subseteq Nat \ {0} /\ clock \in Times BY <1>0, ClockType
<1>b. /\ file \in File /\ away \in File /\ row \in [id: Times, atime: Times]
      /\ watch \in WatchSet /\ jobs \in Seq(JobSet) /\ lines \in Seq(Times)
      /\ \A j \in DOMAIN jobs : jobs[j] \in JobSet /\ jobs[j].atime \in Times /\ jobs[j].id \in Times
    BY <1>0, Values
<1>1. TypeOK' BY <1>0, <1>a, <1>b DEF InotifyExits, TypeOK, Shapes, File, WatchSet
<1>2. Shapes'
    <2>1. ino' \in InoSet /\ UNCHANGED <<watch, lines, jobs, sink>> BY <1>0, <1>a, <1>b DEF InotifyExits, Shapes, WatchSet, InoSet
    <2>2. /\ used' \in [reads: 0 .. MaxReads, trouble: 0 .. MaxTrouble]
          /\ used'.reads = used.reads /\ used'.trouble = used.trouble + 1
        <3>1. Trouble BY DEF InotifyExits
        <3> HIDE DEF Trouble
        <3> QED BY <3>1, <1>0, TroubleFacts
    <2>3. clock' = clock BY DEF InotifyExits
    <2>4. clock <= 1 + used.reads + used.trouble BY <1>0 DEF Shapes
    <2>5. clock' <= 1 + used'.reads + used'.trouble BY <2>2, <2>3, <2>4, <1>a
    <2> QED BY <2>1, <2>2, <2>5, <1>0 DEF Shapes
<1>3. Clocked' BY <1>0, <1>a, <1>b DEF InotifyExits, Clocked
<1>4. Atimes' BY <1>0, <1>a, <1>b DEF InotifyExits, Atimes, ReadOf
<1>5. Baselines' BY <1>0, <1>a, <1>b DEF InotifyExits, Baselines
<1>6. Ahead' BY <1>0, <1>a, <1>b DEF InotifyExits, Ahead, Latest
<1>7. NeverReportsItself' BY <1>0, <1>a, <1>b DEF InotifyExits, NeverReportsItself
<1> QED BY <1>1, <1>2, <1>3, <1>4, <1>5, <1>6, <1>7 DEF WatchInv

\* What inotifywait saw is no hit of the AtimeWatcher.
LEMMA HandleLineInv == ASSUME CanaryWatchAssumption, WatchInv, HandleLine PROVE WatchInv'
<1> USE DEF vars, outside, memory, history, Trouble, Running, Rearming, Heard, Hit, Persist, IdentityMatches, Emit, NoFile, Down, Asleep
<1>0. TypeOK /\ Shapes /\ Clocked /\ Atimes /\ Baselines /\ Ahead /\ NeverReportsItself BY DEF WatchInv
<1>a. /\ clock \in Nat \ {0} /\ used.reads \in Nat /\ used.trouble \in Nat
      /\ used.reads < MaxReads \/ used.trouble < MaxTrouble => clock + 1 \in Times
      /\ Times \subseteq Nat \ {0} /\ clock \in Times BY <1>0, ClockType
<1>b. /\ file \in File /\ away \in File /\ row \in [id: Times, atime: Times]
      /\ watch \in WatchSet /\ jobs \in Seq(JobSet) /\ lines \in Seq(Times)
      /\ \A j \in DOMAIN jobs : jobs[j] \in JobSet /\ jobs[j].atime \in Times /\ jobs[j].id \in Times
    BY <1>0, Values
<1>1. TypeOK' BY <1>0, <1>a, <1>b DEF HandleLine, TypeOK, Shapes, File, WatchSet
<1>2. Shapes' BY <1>0, <1>a, <1>b DEF HandleLine, TypeOK, Shapes, File, WatchSet, InoSet, JobSet, HitSet
<1>3. Clocked' BY <1>0, <1>a, <1>b DEF HandleLine, Clocked
<1>4. Atimes' BY <1>0, <1>a, <1>b DEF HandleLine, Atimes, ReadOf
<1>5. Baselines' BY <1>0, <1>a, <1>b DEF HandleLine, Baselines
<1>6. Ahead' BY <1>0, <1>a, <1>b DEF HandleLine, Ahead, Latest
<1>7. NeverReportsItself' BY <1>0, <1>a, <1>b DEF HandleLine, NeverReportsItself
<1> QED BY <1>1, <1>2, <1>3, <1>4, <1>5, <1>6, <1>7 DEF WatchInv

\* Recording removes hits.
LEMMA RecordInv == ASSUME CanaryWatchAssumption, WatchInv, Record PROVE WatchInv'
<1> USE DEF vars, outside, memory, history, Trouble, Running, Rearming, Heard, Hit, Persist, IdentityMatches, Emit, NoFile, Down, Asleep
<1>0. TypeOK /\ Shapes /\ Clocked /\ Atimes /\ Baselines /\ Ahead /\ NeverReportsItself BY DEF WatchInv
<1>a. /\ clock \in Nat \ {0} /\ used.reads \in Nat /\ used.trouble \in Nat
      /\ used.reads < MaxReads \/ used.trouble < MaxTrouble => clock + 1 \in Times
      /\ Times \subseteq Nat \ {0} /\ clock \in Times BY <1>0, ClockType
<1>b. /\ file \in File /\ away \in File /\ row \in [id: Times, atime: Times]
      /\ watch \in WatchSet /\ jobs \in Seq(JobSet) /\ lines \in Seq(Times)
      /\ \A j \in DOMAIN jobs : jobs[j] \in JobSet /\ jobs[j].atime \in Times /\ jobs[j].id \in Times
    BY <1>0, Values
<1>1. TypeOK' BY <1>0, <1>a, <1>b DEF Record, TypeOK, Shapes, File, WatchSet
<1>2. Shapes' BY <1>0, <1>a, <1>b DEF Record, TypeOK, Shapes, File, WatchSet, InoSet, JobSet, HitSet
<1>3. Clocked' BY <1>0, <1>a, <1>b DEF Record, Clocked
<1>4. Atimes' BY <1>0, <1>a, <1>b DEF Record, Atimes, ReadOf
<1>5. Baselines' BY <1>0, <1>a, <1>b DEF Record, Baselines
<1>6. Ahead' BY <1>0, <1>a, <1>b DEF Record, Ahead, Latest
<1>7. NeverReportsItself' BY <1>0, <1>a, <1>b DEF Record, NeverReportsItself
<1> QED BY <1>1, <1>2, <1>3, <1>4, <1>5, <1>6, <1>7 DEF WatchInv

\* A dead process holds nothing.
LEMMA CrashInv == ASSUME CanaryWatchAssumption, WatchInv, Crash PROVE WatchInv'
<1> USE DEF vars, outside, memory, history, Trouble, Running, Rearming, Heard, Hit, Persist, IdentityMatches, Emit, NoFile, Down, Asleep
<1>0. TypeOK /\ Shapes /\ Clocked /\ Atimes /\ Baselines /\ Ahead /\ NeverReportsItself BY DEF WatchInv
<1>a. /\ clock \in Nat \ {0} /\ used.reads \in Nat /\ used.trouble \in Nat
      /\ used.reads < MaxReads \/ used.trouble < MaxTrouble => clock + 1 \in Times
      /\ Times \subseteq Nat \ {0} /\ clock \in Times BY <1>0, ClockType
<1>b. /\ file \in File /\ away \in File /\ row \in [id: Times, atime: Times]
      /\ watch \in WatchSet /\ jobs \in Seq(JobSet) /\ lines \in Seq(Times)
      /\ \A j \in DOMAIN jobs : jobs[j] \in JobSet /\ jobs[j].atime \in Times /\ jobs[j].id \in Times
    BY <1>0, Values
<1>1. TypeOK' BY <1>0, <1>a, <1>b DEF Crash, TypeOK, Shapes, File, WatchSet
<1>2. Shapes'
    <2>1. watch' \in WatchSet /\ ino' \in InoSet /\ lines' = <<>> /\ jobs' = <<>> /\ sink' = {} BY <1>0, <1>a, <1>b DEF Crash, Shapes, WatchSet, InoSet
    <2>2. /\ used' \in [reads: 0 .. MaxReads, trouble: 0 .. MaxTrouble]
          /\ used'.reads = used.reads /\ used'.trouble = used.trouble + 1
        <3>1. Trouble BY DEF Crash
        <3> HIDE DEF Trouble
        <3> QED BY <3>1, <1>0, TroubleFacts
    <2>3. clock' = clock BY DEF Crash
    <2>4. clock <= 1 + used.reads + used.trouble BY <1>0 DEF Shapes
    <2>5. clock' <= 1 + used'.reads + used'.trouble BY <2>2, <2>3, <2>4, <1>a
    <2> QED BY <2>1, <2>2, <2>5, <1>0 DEF Shapes
<1>3. Clocked' BY <1>0, <1>a, <1>b DEF Crash, Clocked
<1>4. Atimes' BY <1>0, <1>a, <1>b DEF Crash, Atimes, ReadOf
<1>5. Baselines' BY <1>0, <1>a, <1>b DEF Crash, Baselines
<1>6. Ahead' BY <1>0, <1>a, <1>b DEF Crash, Ahead, Latest
<1>7. NeverReportsItself' BY <1>0, <1>a, <1>b DEF Crash, NeverReportsItself
<1> QED BY <1>1, <1>2, <1>3, <1>4, <1>5, <1>6, <1>7 DEF WatchInv

\* Doing nothing keeps it.
LEMMA StutterInv == ASSUME WatchInv, UNCHANGED vars PROVE WatchInv'
<1> USE DEF vars, outside, memory, history
<1>1. TypeOK' BY DEF WatchInv, TypeOK, Running
<1>2. Shapes' BY DEF WatchInv, Shapes
<1>3. Clocked' BY DEF WatchInv, Clocked, Running
<1>4. Atimes' BY DEF WatchInv, Atimes, ReadOf
<1>5. Baselines' BY DEF WatchInv, Baselines, Running
<1>6. Ahead' BY DEF WatchInv, Ahead, Latest
<1>7. NeverReportsItself' BY DEF WatchInv, NeverReportsItself
<1> QED BY <1>1, <1>2, <1>3, <1>4, <1>5, <1>6, <1>7 DEF WatchInv

\* The inductive invariant.
LEMMA AlwaysWatched == ASSUME CanaryWatchAssumption PROVE Spec => []WatchInv
<1>1. Init => WatchInv BY InitInv
<1>2. WatchInv /\ [Next]_vars => WatchInv'
    <2> SUFFICES ASSUME WatchInv, [Next]_vars PROVE WatchInv' OBVIOUS
    <2>1. CASE UNCHANGED vars BY <2>1, StutterInv
    <2>2. CASE Poll BY <2>2, PollGoneInv, PollBackInv, PollReadInv, RearmOpenInv, RearmSetInv DEF Poll
    <2>3. CASE Read \/ Remove \/ Put \/ Refresh BY <2>3, ReadInv, RemoveInv, PutInv, RefreshInv
    <2>4. CASE StartWatch \/ RearmFails \/ CommitBaseline BY <2>4, StartWatchInv, RearmFailsInv, CommitBaselineInv
    <2>5. CASE StartInotify \/ InotifyExits \/ HandleLine BY <2>5, StartInotifyInv, InotifyExitsInv, HandleLineInv
    <2>6. CASE Record \/ Crash BY <2>6, RecordInv, CrashInv
    <2> QED BY <2>1, <2>2, <2>3, <2>4, <2>5, <2>6 DEF Next
<1> QED BY <1>1, <1>2, PTL DEF Spec

\* Every variable keeps its shape, and nothing of a dead process is left.
THEOREM TypeCorrect == ASSUME CanaryWatchAssumption PROVE Spec => []TypeOK
<1>1. WatchInv => TypeOK BY DEF WatchInv
<1> QED BY <1>1, AlwaysWatched, PTL

\* The AtimeWatcher never reports Honeypath's own reads, as long as no queued
\* baseline overtook a refresh, and the baseline in the manifest is never ahead
\* of the canary it was taken from.
THEOREM BaselineHonest == ASSUME CanaryWatchAssumption PROVE Spec => []BaselineExact
<1>1. WatchInv => BaselineExact
    <2>1. SUFFICES ASSUME WatchInv PROVE BaselineNeverAhead BY DEF WatchInv, BaselineExact
    <2> QED BY <2>1 DEF WatchInv, Ahead, Latest, BaselineNeverAhead
<1> QED BY <1>1, AlwaysWatched, PTL

=============================================================================
