------------------------ MODULE WatcherScript_proofs ------------------------
(***************************************************************************)
(* Proofs about WatcherScript, for any page size, any capacity of the log  *)
(* and any number of clears, failures and deaths: what the checkpoint has  *)
(* passed is queued, sent or reported as a gap, and nothing is sent twice  *)
(* without a reason.                                                       *)
(***************************************************************************)
EXTENDS WatcherScript, FiniteSetTheorems, WellFoundedInduction, TLAPS

Positions == [epoch: 0 .. MaxClears, id: 0 .. MaxRecord]
States == {"down", "top", "oldest", "newest", "rewind", "page", "enqueue", "advance", "deliver", "send"}
LogSet == [epoch: 0 .. MaxClears, oldest: 1 .. MaxRecord, objs: Seq({"canary", "other", "system"})]
PsSet == [at: States, last: Positions \cup {Torn}, oldest: Positions,
          queued: SUBSET Records, page: SUBSET Records, more: BOOLEAN,
          pending: Seq(Records), remaining: Seq(Records)]

Lapses == {"unstarted", "between", "torn", "regrown", "full", "unread", "unasked", "unlogged", "dropped"}

\* The script has read its files and works on the log.
AtLog == ps.at \in {"oldest", "newest"} \/ Paging
Past == ps.at \in {"rewind", "page", "enqueue", "advance"}

\* The types.
Shapes ==
    /\ log \in LogSet
    /\ log.oldest <= Newest /\ Newest <= MaxRecord /\ log.objs[1] = "system"
    /\ stateFile \in Positions \cup {Torn} /\ queue \in Seq(Records) /\ ps \in PsSet
    /\ sends \in [Records -> Nat]
    /\ trouble \in 0 .. MaxTrouble
    /\ reads \subseteq Records /\ told \subseteq reads
    /\ lapse \subseteq Lapses

\* c lies in the log, as it is or was.
InLog(c) == c.epoch <= log.epoch /\ (c.epoch = log.epoch => c.id <= Newest)

Logged == \A r \in reads : InLog(r) /\ (r.epoch = log.epoch => log.objs[r.id] = "canary")

\* The script's checkpoint, the one in its file and the log.  Only a rewind into
\* a log that is gone moves the checkpoint down.
Ordered ==
    /\ InLog(stateFile) /\ InLog(ps.last)
    /\ ps.at \in {"oldest", "newest"} => ps.last = stateFile
    /\ ps.at = "newest" /\ ps.oldest # Nowhere =>
          /\ ps.last.epoch <= ps.oldest.epoch /\ ps.oldest.epoch <= log.epoch /\ ps.oldest.id > 0
          /\ ps.oldest.epoch = log.epoch => ps.oldest.id <= log.oldest
    /\ Past => /\ stateFile.epoch <= ps.last.epoch
               /\ stateFile.epoch = log.epoch => stateFile.id <= ps.last.id
               /\ ps.last = Torn => stateFile = Torn
    /\ ps.at = "rewind" => stateFile # Torn /\ ps.last # Torn
    /\ Torn \in {stateFile, ps.last} => "torn" \in lapse

\* The page is that part of one log that is still to be handled.
Paged ==
    /\ ps.page # {} => ps.at \in {"enqueue", "advance"}
    /\ ps.at = "enqueue" => ps.page # {}
    /\ ps.at = "advance" => ps.last \in ps.page
    /\ \A r, s \in ps.page : r.epoch = s.epoch
    /\ \A r \in ps.page : /\ InLog(r) /\ ps.last # Torn /\ ps.last.epoch <= r.epoch /\ ps.last.id <= r.id
                          /\ ps.at = "enqueue" => ps.last.id < r.id

Distinct(s) == \A i, j \in DOMAIN s : s[i] = s[j] => i = j

\* A read is in the queue once, and what is being sent was taken from there.
Once ==
    /\ Distinct(queue)
    /\ AtLog => ToSet(queue) \subseteq ps.queued
    /\ ps.at = "send" => /\ Distinct(ps.pending) /\ Distinct(ps.remaining)
                         /\ ToSet(ps.pending) \cap ToSet(ps.remaining) = {}
Queued ==
    /\ ToSet(queue) \subseteq reads
    /\ ps.at = "send" => ToSet(ps.pending) \cup ToSet(ps.remaining) \subseteq ToSet(queue)
    /\ lapse = {} =>
          /\ AtLog => ps.queued = ToSet(queue)
          /\ ps.at = "send" => \A r \in ToSet(queue) : r \in ToSet(ps.pending) \cup ToSet(ps.remaining) \/ sends[r] > 0
    /\ "unread" \notin lapse => Once

Noted(r) == Kept(r) \/ r \in told
Covered(c) == \A r \in reads : r.epoch = c.epoch /\ r.id <= c.id => Noted(r)
Safe(r) == Retained(r) \/ Noted(r)

\* Before the first checkpoint, the log or the page has what is not accounted for.
BeforeStart == stateFile.id = 0 => \A r \in reads : Safe(r) \/ r \in ps.page

\* What the first look at the log has seen is still there at the second.
SinceOldest ==
    ps.at = "newest" /\ ps.oldest # Nowhere => \A r \in reads :
        r.epoch > ps.oldest.epoch \/ (r.epoch = ps.oldest.epoch /\ r.id >= ps.oldest.id) => Retained(r)

\* So is what the next page has to have, and what is gone was reported.
AtRewind == ps.at = "rewind" => \A r \in reads : Safe(r)
AtPage ==
    ps.at = "page" => \A r \in reads :
        r.epoch = log.epoch /\ (ps.last.epoch = log.epoch \/ ps.last.id = 0) => Safe(r)

\* The page has all there is below its records, and all that has left the log.
InPage ==
    \A p \in ps.page, r \in reads :
        r.epoch = p.epoch /\ ((r.epoch = log.epoch /\ ~Retained(r)) \/ r.id < p.id)
            => Noted(r) \/ r \in ps.page

\* What is behind a checkpoint is accounted for, and so is what is no longer in
\* the log by the time the script pages through it.
Accounted ==
    lapse = {} => /\ Covered(stateFile) /\ Covered(ps.last)
                  /\ BeforeStart /\ SinceOldest /\ AtRewind /\ AtPage /\ InPage

Beyond(r, c) == c.id >= 0 /\ (r.epoch > c.epoch \/ (r.epoch = c.epoch /\ r.id > c.id))

\* Where the script would continue: from its file, or, as long as it is running
\* and the file is torn, from what it will write there.
Mark == IF stateFile = Torn /\ Past THEN ps.last ELSE stateFile

\* Another copy of r may still be queued, and one is waiting to be sent.
ToQueue(r) ==
    /\ ~(ps.at = "advance" /\ r = ps.last)
    /\ r \in ps.page \/ (r.epoch >= log.epoch /\ Beyond(r, Mark))
ToSend(r) ==
    IF ps.at = "send" THEN r \in ToSet(ps.pending) \cup ToSet(ps.remaining) ELSE r \in ToSet(queue)

Count(b) == IF b THEN 1 ELSE 0

\* Sent or still to be sent: more than once only after as much trouble.
Counted ==
    "unread" \notin lapse =>
        \A r \in Records : sends[r] + Count(ToSend(r)) + Count(ToQueue(r)) <= 1 + trouble

\* The inductive invariant.
ScriptInv == Shapes /\ Logged /\ Ordered /\ Paged /\ Queued /\ Accounted /\ Counted
-----------------------------------------------------------------------------
(* Types and sequences *)

\* What the types say of single values.
LEMMA Values ==
    ASSUME ScriptAssumption, Shapes
    PROVE  /\ MaxRecord \in Nat \ {0} /\ MaxClears \in Nat /\ MaxTrouble \in Nat
           /\ log.epoch \in 0 .. MaxClears /\ log.oldest \in 1 .. MaxRecord /\ Newest \in 1 .. MaxRecord
           /\ log.oldest <= Newest /\ DOMAIN log.objs = 1 .. Newest
           /\ stateFile.epoch \in 0 .. MaxClears /\ stateFile.id \in -1 .. MaxRecord
           /\ ps.last.epoch \in 0 .. MaxClears /\ ps.last.id \in -1 .. MaxRecord
           /\ ps.oldest.epoch \in 0 .. MaxClears /\ ps.oldest.id \in 0 .. MaxRecord
<1>1. /\ MaxRecord \in Nat \ {0} /\ MaxClears \in Nat /\ MaxTrouble \in Nat BY DEF ScriptAssumption
<1>2. /\ log.epoch \in 0 .. MaxClears /\ log.oldest \in 1 .. MaxRecord /\ log.objs \in Seq({"canary", "other", "system"})
      /\ log.oldest <= Newest /\ Newest <= MaxRecord BY DEF Shapes, LogSet
<1>3. Newest \in 1 .. MaxRecord /\ DOMAIN log.objs = 1 .. Newest BY <1>1, <1>2 DEF Newest
<1>4. \A c \in Positions \cup {Torn} : c.epoch \in 0 .. MaxClears /\ c.id \in -1 .. MaxRecord
    BY <1>1 DEF Positions, Torn, Record
<1>5. stateFile \in Positions \cup {Torn} /\ ps.last \in Positions \cup {Torn} /\ ps.oldest \in Positions
    BY DEF Shapes, PsSet
<1>6. ps.oldest.epoch \in 0 .. MaxClears /\ ps.oldest.id \in 0 .. MaxRecord BY <1>5 DEF Positions
<1> QED BY <1>1, <1>2, <1>3, <1>4, <1>5, <1>6

\* The same as numbers.
LEMMA Numbers ==
    ASSUME ScriptAssumption, Shapes
    PROVE  /\ log.epoch \in Nat /\ log.oldest \in Nat /\ Newest \in Nat /\ trouble \in Nat
           /\ stateFile.epoch \in Nat /\ stateFile.id \in Int /\ ps.last.epoch \in Nat /\ ps.last.id \in Int
           /\ ps.oldest.epoch \in Nat /\ ps.oldest.id \in Nat
           /\ \A r \in Records : r.epoch \in Nat /\ r.id \in Nat /\ r.id >= 2
           /\ \A r \in Records : sends[r] \in Nat
           /\ reads \subseteq Records /\ ps.page \subseteq Records
           /\ stateFile.id >= 0 \/ stateFile = Torn
           /\ ps.last.id >= 0 \/ ps.last = Torn
<1>1. \A n \in -1 .. MaxRecord : n \in Int BY Values
<1>2. \A n \in 0 .. MaxRecord : n \in Nat BY Values
<1>3. \A n \in 1 .. MaxRecord : n \in Nat BY Values
<1>4. \A n \in 0 .. MaxClears : n \in Nat BY Values
<1>5. \A r \in Records : r.epoch \in 0 .. MaxClears /\ r.id \in 2 .. MaxRecord BY DEF Records
<1>6. \A n \in 2 .. MaxRecord : n \in Nat /\ n >= 2 BY Values
<1>7. reads \subseteq Records /\ ps.page \subseteq Records /\ sends \in [Records -> Nat] BY DEF Shapes, PsSet
<1>8. trouble \in Nat BY DEF Shapes
<1>9. \A c \in Positions : c.id >= 0 BY Values DEF Positions
<1>10. stateFile \in Positions \cup {Torn} /\ ps.last \in Positions \cup {Torn} BY DEF Shapes, PsSet
<1>11. /\ log.epoch \in Nat /\ log.oldest \in Nat /\ Newest \in Nat BY <1>3, <1>4, Values
<1>12. stateFile.epoch \in Nat /\ stateFile.id \in Int /\ ps.last.epoch \in Nat /\ ps.last.id \in Int
    BY <1>1, <1>4, Values
<1>13. ps.oldest.epoch \in Nat /\ ps.oldest.id \in Nat BY <1>2, <1>4, Values
<1>14. \A r \in Records : r.epoch \in Nat /\ r.id \in Nat /\ r.id >= 2 BY <1>4, <1>5, <1>6
<1> QED BY <1>7, <1>8, <1>9, <1>10, <1>11, <1>12, <1>13, <1>14

\* A record is its epoch and its id.
LEMMA SameRecord ==
    ASSUME NEW r \in Records, NEW s \in Records, r.epoch = s.epoch, r.id = s.id
    PROVE  r = s
BY DEF Records

\* The torn state file is none of the positions.
LEMMA TornId == Torn.id = -1 /\ Torn.epoch = 0 /\ Torn \notin Positions
BY DEF Torn, Record, Positions

\* A line at the end of a queue.
LEMMA AppendLine ==
    ASSUME NEW S, NEW s \in Seq(S), NEW x \in S
    PROVE  /\ Append(s, x) \in Seq(S)
           /\ ToSet(Append(s, x)) = ToSet(s) \cup {x}
           /\ Distinct(s) /\ x \notin ToSet(s) => Distinct(Append(s, x))
<1> DEFINE t == Append(s, x)
<1>1. t \in Seq(S) /\ Len(t) = Len(s) + 1 /\ t[Len(s) + 1] = x /\ \A i \in 1 .. Len(s) : t[i] = s[i] OBVIOUS
<1>2. DOMAIN s = 1 .. Len(s) /\ DOMAIN t = 1 .. Len(s) + 1 /\ Len(s) \in Nat OBVIOUS
<1> HIDE DEF t
<1>3. \A i \in DOMAIN t : i \in DOMAIN s \/ i = Len(s) + 1 BY <1>2
<1>4. DOMAIN s \subseteq DOMAIN t /\ Len(s) + 1 \in DOMAIN t BY <1>2
<1>5. ToSet(t) \subseteq ToSet(s) \cup {x} BY <1>1, <1>2, <1>3 DEF ToSet
<1>6. ToSet(s) \cup {x} \subseteq ToSet(t)
    <2>1. ASSUME NEW i \in DOMAIN s PROVE s[i] \in ToSet(t) BY <1>1, <1>2, <1>4 DEF ToSet
    <2> QED BY <2>1, <1>1, <1>4 DEF ToSet
<1>7. Distinct(s) /\ x \notin ToSet(s) => Distinct(t)
    <2> SUFFICES ASSUME Distinct(s), x \notin ToSet(s), NEW i \in DOMAIN t, NEW j \in DOMAIN t, t[i] = t[j]
                 PROVE i = j BY DEF Distinct
    <2>1. \A k \in DOMAIN s : s[k] # x BY DEF ToSet
    <2>2. \A k \in DOMAIN s : t[k] = s[k] /\ t[k] # x BY <2>1, <1>1, <1>2
    <2>3. CASE i \in DOMAIN s /\ j \in DOMAIN s BY <2>2, <2>3 DEF Distinct
    <2>4. CASE i = Len(s) + 1 \/ j = Len(s) + 1 BY <2>2, <2>4, <1>1, <1>3
    <2> QED BY <2>3, <2>4, <1>3
<1> QED BY <1>1, <1>5, <1>6, <1>7 DEF t

\* A line less at the head of a queue.
LEMMA TailLine ==
    ASSUME NEW S, NEW s \in Seq(S), s # <<>>
    PROVE  /\ Head(s) \in S /\ Tail(s) \in Seq(S)
           /\ ToSet(s) = {Head(s)} \cup ToSet(Tail(s))
           /\ Distinct(s) => Distinct(Tail(s)) /\ Head(s) \notin ToSet(Tail(s))
<1> DEFINE t == Tail(s)
<1>1. t \in Seq(S) /\ Head(s) = s[1] /\ Head(s) \in S /\ Len(t) = Len(s) - 1
      /\ \A i \in 1 .. Len(s) - 1 : t[i] = s[i + 1] OBVIOUS
<1>2. DOMAIN s = 1 .. Len(s) /\ DOMAIN t = 1 .. Len(s) - 1 /\ Len(s) \in Nat \ {0} OBVIOUS
<1> HIDE DEF t
<1>3. \A i \in DOMAIN t : i + 1 \in DOMAIN s /\ i + 1 # 1 /\ t[i] = s[i + 1] BY <1>1, <1>2
<1>4. \A i \in DOMAIN s : i = 1 \/ (i - 1 \in DOMAIN t /\ (i - 1) + 1 = i) BY <1>2
<1>5. 1 \in DOMAIN s BY <1>2
<1>6. ToSet(s) \subseteq {s[1]} \cup ToSet(t)
    <2>1. ASSUME NEW i \in DOMAIN s, i # 1 PROVE s[i] \in ToSet(t)
        <3>1. i - 1 \in DOMAIN t /\ t[i - 1] = s[i] BY <1>3, <1>4, <2>1
        <3> QED BY <3>1 DEF ToSet
    <2> QED BY <2>1 DEF ToSet
<1>7. {s[1]} \cup ToSet(t) \subseteq ToSet(s) BY <1>3, <1>5 DEF ToSet
<1>8. Distinct(s) => Distinct(t)
    <2> SUFFICES ASSUME Distinct(s), NEW i \in DOMAIN t, NEW j \in DOMAIN t, t[i] = t[j] PROVE i = j
        BY DEF Distinct
    <2>1. i + 1 = j + 1 BY <1>3 DEF Distinct
    <2> QED BY <2>1, <1>2
<1>9. Distinct(s) => s[1] \notin ToSet(t) BY <1>3, <1>5 DEF Distinct, ToSet
<1> QED BY <1>1, <1>6, <1>7, <1>8, <1>9 DEF t

\* Nothing is in an empty queue.
LEMMA NoLine == ToSet(<<>>) = {} /\ Distinct(<<>>)
BY DEF ToSet, Distinct

\* The account of what is sent, after a step.
LEMMA CountStep ==
    ASSUME ScriptAssumption, Shapes, Shapes', Counted, lapse \subseteq lapse', NEW n \in {0, 1}, trouble' = trouble + n,
           "unread" \notin lapse' => \A r \in Records : sends'[r] + Count(ToSend(r)') + Count(ToQueue(r)')
                                 <= sends[r] + Count(ToSend(r)) + Count(ToQueue(r)) + n
    PROVE  Counted'
<1>1. \A r \in Records : sends[r] \in Nat /\ sends'[r] \in Nat BY DEF Shapes
<1>2. trouble \in Nat BY DEF Shapes, ScriptAssumption
<1>3. \A b : Count(b) \in {0, 1} BY DEF Count
<1> SUFFICES ASSUME "unread" \notin lapse', NEW r \in Records
             PROVE  sends'[r] + Count(ToSend(r)') + Count(ToQueue(r)') <= 1 + trouble' BY DEF Counted
<1> DEFINE a == Count(ToSend(r)) b == Count(ToQueue(r)) c == Count(ToSend(r)') d == Count(ToQueue(r)')
<1>4. /\ a \in Nat /\ b \in Nat /\ c \in Nat /\ d \in Nat BY <1>3
<1>5. sends[r] + a + b <= 1 + trouble /\ sends'[r] + c + d <= sends[r] + a + b + n BY DEF Counted
<1> HIDE DEF a, b, c, d
<1>6. sends'[r] + c + d <= 1 + trouble' BY <1>1, <1>2, <1>4, <1>5
<1> QED BY <1>6 DEF c, d

\* Nothing is sent and at most as much is to be sent, or to be queued instead, or
\* there was trouble.
LEMMA CountSame ==
    ASSUME ScriptAssumption, Shapes, Shapes', Counted, lapse \subseteq lapse', sends' = sends,
           NEW n \in {0, 1}, trouble' = trouble + n,
           "unread" \notin lapse' => \A r \in Records : ((ToSend(r)' => ToSend(r)) /\ (ToQueue(r)' => ToQueue(r)))
                \/ (ToQueue(r) /\ ~ToQueue(r)')
                \/ (n = 1 /\ ((ToSend(r)' => ToSend(r)) \/ (ToQueue(r)' => ToQueue(r))))
    PROVE  Counted'
<1>1. \A r \in Records : sends[r] \in Nat BY DEF Shapes
<1>2. ASSUME "unread" \notin lapse', NEW r \in Records
      PROVE  sends'[r] + Count(ToSend(r)') + Count(ToQueue(r)')
                                 <= sends[r] + Count(ToSend(r)) + Count(ToQueue(r)) + n
    <2> DEFINE a == ToSend(r) b == ToQueue(r) c == ToSend(r)' d == ToQueue(r)'
    <2>1. ((c => a) /\ (d => b)) \/ (b /\ ~d) \/ (n = 1 /\ ((c => a) \/ (d => b))) BY <1>2
    <2> HIDE DEF a, b, c, d
    <2>2. Count(c) + Count(d) <= Count(a) + Count(b) + n BY <2>1 DEF Count
    <2>3. Count(c) \in Nat /\ Count(d) \in Nat /\ Count(a) \in Nat /\ Count(b) \in Nat BY DEF Count
    <2>4. sends[r] + Count(c) + Count(d) <= sends[r] + Count(a) + Count(b) + n BY <2>2, <2>3, <1>1
    <2> QED BY <2>4 DEF a, b, c, d
<1> QED BY <1>2, CountStep
\* The script's checkpoint is not behind the mark.
LEMMA MarkMoves ==
    ASSUME ScriptAssumption, Shapes, Ordered, Past, NEW r \in Records, r.epoch >= log.epoch, Beyond(r, ps.last)
    PROVE  Beyond(r, Mark)
<1>1. CASE stateFile = Torn BY <1>1 DEF Mark
<1>2. CASE stateFile # Torn
    <2>1. /\ r.epoch \in Nat /\ r.id \in Nat /\ log.epoch \in Nat /\ stateFile.epoch \in Nat /\ stateFile.id \in Int
          /\ ps.last.epoch \in Nat /\ ps.last.id \in Int /\ stateFile.id >= 0 BY <1>2, Numbers
    <2>2. /\ stateFile.epoch <= ps.last.epoch /\ ps.last.epoch <= log.epoch
          /\ stateFile.epoch = log.epoch => stateFile.id <= ps.last.id BY DEF Ordered, InLog
    <2>3. Mark = stateFile BY <1>2 DEF Mark
    <2>4. r.epoch > ps.last.epoch \/ (r.epoch = ps.last.epoch /\ r.id > ps.last.id) BY DEF Beyond
    <2>5. r.epoch > stateFile.epoch \/ (r.epoch = stateFile.epoch /\ r.id > stateFile.id) BY <2>1, <2>2, <2>4
    <2> QED BY <2>1, <2>3, <2>5 DEF Beyond
<1> QED BY <1>1, <1>2

\* The set of what the next page may have is finite, and the page has its lowest ids.
LEMMA UnseenFacts ==
    ASSUME ScriptAssumption, Shapes
    PROVE  /\ \A i \in Unseen : /\ i \in log.oldest .. Newest /\ i > ps.last.id /\ ps.last.id >= 0
                                /\ log.objs[i] # "system"
           /\ \A i \in Unseen, j \in log.oldest .. Newest :
                 j > ps.last.id /\ log.objs[j] # "system" /\ j < i => j \in Unseen
<1> DEFINE above == {i \in log.oldest .. Newest : i > ps.last.id /\ log.objs[i] # "system"}
           below(i) == {j \in above : j < i}
<1>1. Unseen = {i \in above : ps.last.id >= 0 /\ Cardinality(below(i)) < MaxEvents} BY DEF Unseen
<1>2. \A i \in above : i \in log.oldest .. Newest /\ i > ps.last.id /\ log.objs[i] # "system" OBVIOUS
<1>3. log.oldest \in Int /\ Newest \in Int /\ MaxEvents \in Nat BY Numbers DEF ScriptAssumption
<1>4. ASSUME NEW i \in Unseen, NEW j \in log.oldest .. Newest, j > ps.last.id, log.objs[j] # "system", j < i
      PROVE  j \in Unseen
    <2>1. j \in above /\ i \in above /\ ps.last.id >= 0 /\ Cardinality(below(i)) < MaxEvents BY <1>1, <1>4
    <2>2. IsFiniteSet(log.oldest .. Newest) BY <1>3, FS_Interval
    <2>3. below(i) \subseteq log.oldest .. Newest OBVIOUS
    <2>4. i \in Int /\ j \in Int BY <1>3, <2>1
    <2>5. below(j) \subseteq below(i)
        <3> SUFFICES ASSUME NEW k \in above, k < j PROVE k < i OBVIOUS
        <3>1. k \in Int BY <1>3
        <3> QED BY <3>1, <2>4, <1>4
    <2> HIDE DEF below, above
    <2>6. IsFiniteSet(below(i)) BY <2>2, <2>3, FS_Subset
    <2>7. Cardinality(below(j)) <= Cardinality(below(i)) BY <2>5, <2>6, FS_Subset
    <2>8. Cardinality(below(i)) \in Nat /\ Cardinality(below(j)) \in Nat BY <2>5, <2>6, FS_Subset, FS_CardinalityType
    <2>9. Cardinality(below(j)) < MaxEvents BY <2>1, <2>7, <2>8, <1>3
    <2> QED BY <2>1, <2>9, <1>1
<1> HIDE DEF above, below
<1> QED BY <1>1, <1>2, <1>4

\* A page has a first record.
LEMMA FirstFacts ==
    ASSUME NEW page, page \subseteq Records, page # {}
    PROVE  FirstOf(page) \in page /\ \A s \in page : FirstOf(page).id <= s.id
<1> DEFINE ids == {r.id : r \in page}
<1>1. ids \subseteq Nat /\ ids # {} BY DEF Records
<1> HIDE DEF ids
<1>2. PICK n \in ids : \A m \in ids : <<m, n>> \notin OpToRel(<, Nat) BY <1>1, NatLessThanWellFounded, WFMin
<1>3. \A m \in ids : n <= m
    <2> SUFFICES ASSUME NEW m \in ids PROVE n <= m OBVIOUS
    <2>1. m \in Nat /\ n \in Nat BY <1>1, <1>2
    <2>2. ~(m < n) BY <1>2, <2>1 DEF OpToRel
    <2> QED BY <2>1, <2>2
<1>4. \E r \in page : \A s \in page : r.id <= s.id BY <1>3 DEF ids
<1> QED BY <1>4 DEF FirstOf

-----------------------------------------------------------------------------
(* Every step keeps the invariant *)

\* A new record is younger than all checkpoints, and one that leaves the log was
\* handled, or is in the page, or its loss is on record.
LEMMA LogAppendInv == ASSUME ScriptAssumption, ScriptInv, LogAppend PROVE ScriptInv'
<1>0. Shapes /\ Logged /\ Ordered /\ Paged /\ Queued /\ Accounted /\ Counted BY DEF ScriptInv
<1>n. /\ log.epoch \in Nat /\ log.oldest \in Nat /\ Newest \in Nat /\ trouble \in Nat
      /\ \A r \in Records : r.epoch \in Nat /\ r.id \in Nat BY <1>0, Numbers
<1>a. PICK obj \in {"canary", "other", "system"} :
          /\ log' = [log EXCEPT !.objs = Append(@, obj),
                                !.oldest = IF Newest + 1 - @ >= Capacity THEN @ + 1 ELSE @]
          /\ reads' = IF obj = "canary" THEN reads \cup {Record(log.epoch, Newest + 1)} ELSE reads BY DEF LogAppend
<1>b. UNCHANGED <<stateFile, queue, ps, trouble, sends, told>> /\ Newest < MaxRecord BY DEF LogAppend, files
<1>c. /\ log'.epoch = log.epoch /\ log'.objs = Append(log.objs, obj) /\ log' \in LogSet
      /\ log'.oldest >= log.oldest /\ log'.oldest <= Newest + 1 /\ log'.oldest \in Nat
    <2>1. log \in LogSet /\ log.oldest <= Newest /\ Newest <= MaxRecord /\ MaxRecord \in Nat
        BY <1>0 DEF Shapes, ScriptAssumption
    <2>2. log.objs \in Seq({"canary", "other", "system"}) /\ log.oldest \in 1 .. MaxRecord BY <2>1 DEF LogSet
    <2>3. Append(log.objs, obj) \in Seq({"canary", "other", "system"}) BY <2>2
    <2>4. CASE Newest + 1 - log.oldest >= Capacity
        <3>1. Newest + 1 - log.oldest >= 1 BY <2>4, <1>n DEF ScriptAssumption
        <3>2. log.oldest + 1 \in 1 .. MaxRecord /\ log.oldest + 1 <= Newest + 1 BY <2>1, <1>b, <1>n, <3>1
        <3>3. log' = [log EXCEPT !.objs = Append(@, obj), !.oldest = log.oldest + 1] BY <1>a, <2>4
        <3>4. log'.epoch = log.epoch /\ log'.objs = Append(log.objs, obj) /\ log'.oldest = log.oldest + 1 /\ log' \in LogSet
            BY <2>1, <2>3, <3>2, <3>3 DEF LogSet
        <3> QED BY <3>2, <3>4, <1>n
    <2>5. CASE ~(Newest + 1 - log.oldest >= Capacity)
        <3>1. log' = [log EXCEPT !.objs = Append(@, obj)] BY <1>a, <2>5 DEF LogSet
        <3>2. log'.epoch = log.epoch /\ log'.objs = Append(log.objs, obj) /\ log'.oldest = log.oldest /\ log' \in LogSet
            BY <2>1, <2>3, <3>1 DEF LogSet
        <3> QED BY <2>1, <3>2, <1>n
    <2> QED BY <2>4, <2>5
<1>d. /\ Newest' = Newest + 1 /\ log'.objs[Newest + 1] = obj
      /\ \A i \in 1 .. Newest : log'.objs[i] = log.objs[i]
    <2>1. log.objs \in Seq({"canary", "other", "system"}) BY <1>0 DEF Shapes, LogSet
    <2> QED BY <2>1, <1>c DEF Newest
<1>e. /\ reads \subseteq reads' /\ reads' \subseteq Records
      /\ \A r \in reads' : r \in reads \/ (r.epoch = log.epoch /\ r.id = Newest + 1 /\ obj = "canary")
    <2>1. Newest + 1 \in 2 .. MaxRecord /\ log.epoch \in 0 .. MaxClears BY <1>0, <1>b, <1>n, Values
    <2>2. Record(log.epoch, Newest + 1) \in Records BY <2>1 DEF Record, Records
    <2>3. reads \subseteq Records BY <1>0 DEF Shapes
    <2>4. Record(log.epoch, Newest + 1).epoch = log.epoch /\ Record(log.epoch, Newest + 1).id = Newest + 1 BY DEF Record
    <2> QED BY <2>2, <2>3, <2>4, <1>a
<1>f. \A c : InLog(c) /\ (c.epoch = log.epoch => c.id \in Int) => InLog(c)'
    BY <1>c, <1>d, <1>n DEF InLog
<1>g. /\ lapse \subseteq lapse' /\ lapse' \subseteq lapse \cup {"unstarted", "between"}
      /\ lapse' = {} => lapse = {}
      /\ lapse' = {} /\ (stateFile.id <= 0 \/ Paging) =>
            \A r \in reads : Retained(r) => r.id >= log'.oldest \/ r \in ps.page
    <2> DEFINE gone == {r \in reads : Retained(r) /\ r.id < log'.oldest /\ r \notin ps.page}
    <2>1. lapse' = Unstarted(gone) \cup (IF gone # {} /\ Paging THEN {"between"} ELSE {}) BY DEF LogAppend
    <2>2. \A r \in reads : r.id \in Nat BY <1>n, <1>0 DEF Shapes
    <2>3. gone = {} => \A r \in reads : Retained(r) => r.id >= log'.oldest \/ r \in ps.page BY <2>2, <1>c
    <2> HIDE DEF gone
    <2> QED BY <2>1, <2>3 DEF Unstarted
<1>h. \A r \in reads : Retained(r) /\ r.id >= log'.oldest => Retained(r)'
    <2> SUFFICES ASSUME NEW r \in reads, Retained(r), r.id >= log'.oldest PROVE Retained(r)' OBVIOUS
    <2>1. r.id \in Nat /\ r.epoch = log.epoch /\ r.id <= Newest BY <1>n, <1>0 DEF Shapes, Retained
    <2>2. r.id <= Newest + 1 BY <2>1, <1>n
    <2>3. r.id \in log'.oldest .. Newest' BY <2>1, <2>2, <1>c, <1>d, <1>n
    <2> QED BY <2>1, <2>3, <1>c DEF Retained
<1>1. Shapes'
    <2>1. 1 \in 1 .. Newest /\ Newest' <= MaxRecord /\ log'.oldest <= Newest' BY <1>0, <1>b, <1>c, <1>d, <1>n, Values
    <2>2. log'.objs[1] = "system" BY <2>1, <1>d, <1>0 DEF Shapes
    <2>3. told' \subseteq reads' BY <1>b, <1>e, <1>0 DEF Shapes
    <2>4. lapse' \subseteq Lapses BY <1>g, <1>0 DEF Shapes, Lapses
    <2> QED BY <2>1, <2>2, <2>3, <2>4, <1>b, <1>c, <1>e, <1>0 DEF Shapes
<1>2. Logged'
    <2> SUFFICES ASSUME NEW r \in reads' PROVE InLog(r)' /\ (r.epoch = log'.epoch => log'.objs[r.id] = "canary")
        BY DEF Logged
    <2>1. CASE r \in reads
        <3>1. InLog(r) /\ (r.epoch = log.epoch => log.objs[r.id] = "canary") /\ r.id \in Nat /\ r.id >= 2
            BY <2>1, <1>0, Numbers DEF Logged, Shapes
        <3>2. r.epoch = log.epoch => r.id \in 1 .. Newest BY <3>1, <1>n DEF InLog
        <3>3. InLog(r)' BY <3>1, <1>f
        <3> QED BY <3>1, <3>2, <3>3, <1>c, <1>d
    <2>2. CASE r.epoch = log.epoch /\ r.id = Newest + 1 /\ obj = "canary"
        <3>1. r.epoch <= log'.epoch /\ r.id <= Newest' BY <2>2, <1>c, <1>d, <1>n
        <3> QED BY <3>1, <2>2, <1>d DEF InLog
    <2> QED BY <2>1, <2>2, <1>e
<1>3. Ordered'
    <2>1. InLog(stateFile)' /\ InLog(ps.last)' BY <1>0, <1>b, <1>f, Numbers DEF Ordered, InLog
    <2>2. ps.at = "newest" /\ ps.oldest # Nowhere /\ ps.oldest.epoch = log.epoch => ps.oldest.id <= log'.oldest
        <3>1. ps.oldest.id \in Nat BY <1>0, Numbers
        <3> QED BY <3>1, <1>0, <1>c, <1>n DEF Ordered
    <2> QED BY <2>1, <2>2, <1>0, <1>b, <1>c, <1>g DEF Ordered, Past
<1>4. Paged'
    <2>1. \A r \in ps.page : InLog(r)' BY <1>0, <1>f, Numbers DEF Paged
    <2> QED BY <2>1, <1>0, <1>b DEF Paged
<1>5. Queued' BY <1>0, <1>b, <1>e, <1>g DEF Queued, Once, AtLog, Paging
<1>6. Accounted'
    <2> SUFFICES ASSUME lapse' = {}
                 PROVE  /\ Covered(stateFile)' /\ Covered(ps.last)'
                        /\ BeforeStart' /\ SinceOldest' /\ AtRewind' /\ AtPage' /\ InPage'
        BY DEF Accounted
    <2>0. /\ Covered(stateFile) /\ Covered(ps.last)
          /\ BeforeStart /\ SinceOldest /\ AtRewind /\ AtPage /\ InPage BY <1>0, <1>g DEF Accounted
    <2>1. \A r : Noted(r)' <=> Noted(r) BY <1>b DEF Noted, Kept
    <2>2. ASSUME NEW r \in reads', r \notin reads
          PROVE Retained(r)' /\ r.epoch = log.epoch /\ r.id = Newest + 1 /\ \A c : InLog(c) /\ c.id \in Int /\ c.epoch = log.epoch => r.id > c.id
        <3>1. r.epoch = log.epoch /\ r.id = Newest + 1 BY <2>2, <1>e
        <3>2. r.id \in log'.oldest .. Newest' BY <3>1, <1>c, <1>d, <1>n
        <3>3. Retained(r)' BY <3>1, <3>2, <1>c DEF Retained
        <3>4. \A c : InLog(c) /\ c.id \in Int /\ c.epoch = log.epoch => r.id > c.id BY <3>1, <1>n DEF InLog
        <3> QED BY <3>1, <3>3, <3>4
    <2>3. \A c : Covered(c) /\ InLog(c) /\ c.id \in Int => Covered(c)'
        <3> SUFFICES ASSUME NEW c, Covered(c), InLog(c), c.id \in Int,
                            NEW r \in reads', r.epoch = c.epoch, r.id <= c.id PROVE Noted(r)'
            BY DEF Covered
        <3>1. r.id \in Nat BY <1>e, <1>n
        <3>2. r \in reads BY <2>2, <3>1
        <3> QED BY <3>2, <2>1 DEF Covered
    <2>4. Covered(stateFile)' /\ Covered(ps.last)'
        <3>1. Covered(stateFile) /\ InLog(stateFile) /\ stateFile.id \in Int BY <2>0, <1>0, Numbers DEF Ordered
        <3>2. Covered(ps.last) /\ InLog(ps.last) /\ ps.last.id \in Int BY <2>0, <1>0, Numbers DEF Ordered
        <3>3. \A r \in reads' : r.epoch = stateFile.epoch /\ r.id <= stateFile.id => Noted(r)'
            BY <3>1, <2>3 DEF Covered
        <3>4. \A r \in reads' : r.epoch = ps.last.epoch /\ r.id <= ps.last.id => Noted(r)'
            BY <3>2, <2>3 DEF Covered
        <3> QED BY <3>3, <3>4, <1>b DEF Covered
    <2>5. BeforeStart'
        <3> SUFFICES ASSUME stateFile.id = 0, NEW r \in reads' PROVE Safe(r)' \/ r \in ps.page
            BY <1>b DEF BeforeStart
        <3>1. CASE r \in reads BY <3>1, <2>0, <2>1, <1>g, <1>h DEF BeforeStart, Safe
        <3> QED BY <3>1, <2>2 DEF Safe
    <2>6. SinceOldest'
        <3> SUFFICES ASSUME ps.at = "newest", ps.oldest # Nowhere, NEW r \in reads',
                            r.epoch > ps.oldest.epoch \/ (r.epoch = ps.oldest.epoch /\ r.id >= ps.oldest.id)
                     PROVE  Retained(r)'
            BY <1>b DEF SinceOldest
        <3>1. ps.page = {} BY <1>0 DEF Paged
        <3>2. CASE r \in reads BY <3>1, <3>2, <2>0, <1>g, <1>h DEF SinceOldest, Paging
        <3> QED BY <3>2, <2>2
    <2>7. AtRewind'
        <3> SUFFICES ASSUME ps.at = "rewind", NEW r \in reads' PROVE Safe(r)' BY <1>b DEF AtRewind
        <3>1. ps.page = {} BY <1>0 DEF Paged
        <3>2. CASE r \in reads BY <3>1, <3>2, <2>0, <2>1, <1>g, <1>h DEF AtRewind, Paging, Safe
        <3> QED BY <3>2, <2>2 DEF Safe
    <2>8. AtPage'
        <3> SUFFICES ASSUME ps.at = "page", NEW r \in reads', r.epoch = log.epoch,
                            ps.last.epoch = log.epoch \/ ps.last.id = 0 PROVE Safe(r)'
            BY <1>b, <1>c DEF AtPage
        <3>1. ps.page = {} BY <1>0 DEF Paged
        <3>2. CASE r \in reads BY <3>1, <3>2, <2>0, <2>1, <1>g, <1>h DEF AtPage, Paging, Safe
        <3> QED BY <3>2, <2>2 DEF Safe
    <2>9. InPage'
        <3> SUFFICES ASSUME NEW p \in ps.page, NEW r \in reads', r.epoch = p.epoch,
                            (r.epoch = log.epoch /\ ~Retained(r)') \/ r.id < p.id
                     PROVE  Noted(r) \/ r \in ps.page
            BY <1>b, <1>c, <2>1 DEF InPage
        <3>1. Paging BY <1>0 DEF Paged, Paging
        <3>2. CASE r \in reads BY <3>1, <3>2, <2>0, <1>g, <1>h DEF InPage
        <3>3. CASE r \notin reads
            <4>1. InLog(p) /\ p.id \in Int BY <1>0, Numbers DEF Paged
            <4> QED BY <3>3, <4>1, <2>2, Numbers, <1>0
        <3> QED BY <3>2, <3>3
    <2> QED BY <2>4, <2>5, <2>6, <2>7, <2>8, <2>9
<1>7. Counted'
    <2>1. \A r \in Records : ToSend(r)' <=> ToSend(r) BY <1>b DEF ToSend
    <2>2. \A r \in Records : ToQueue(r)' <=> ToQueue(r) BY <1>b, <1>c DEF ToQueue, Beyond, Mark, Past
    <2> QED BY <2>1, <2>2, <1>0, <1>1, <1>b, <1>n, <1>g, CountSame
<1> QED BY <1>1, <1>2, <1>3, <1>4, <1>5, <1>6, <1>7 DEF ScriptInv

\* What leaves the log was handled, or is in the page, or its loss is on record.
LEMMA LogClearInv == ASSUME ScriptAssumption, ScriptInv, LogClear PROVE ScriptInv'
<1>0. Shapes /\ Logged /\ Ordered /\ Paged /\ Queued /\ Accounted /\ Counted BY DEF ScriptInv
<1>n. /\ log.epoch \in Nat /\ log.oldest \in Nat /\ Newest \in Nat /\ trouble \in Nat
      /\ \A r \in Records : r.epoch \in Nat /\ r.id \in Nat BY <1>0, Numbers
<1>a. log' = [epoch |-> log.epoch + 1, oldest |-> 1, objs |-> <<"system">>] /\ log.epoch < MaxClears BY DEF LogClear
<1>b. UNCHANGED <<stateFile, queue, ps, trouble, reads, sends, told>> BY DEF LogClear, files
<1>c. /\ log'.epoch = log.epoch + 1 /\ log' \in LogSet /\ Newest' = 1 /\ log'.oldest = 1 /\ log'.objs[1] = "system"
    <2>1. log.epoch + 1 \in 0 .. MaxClears /\ 1 \in 1 .. MaxRecord BY <1>0, <1>a, <1>n, Values
    <2>2. <<"system">> \in Seq({"canary", "other", "system"}) OBVIOUS
    <2> QED BY <1>a, <2>1, <2>2 DEF LogSet, Newest
<1>d. \A c : c.epoch \in Nat /\ InLog(c) => InLog(c)' /\ c.epoch # log'.epoch BY <1>c, <1>n DEF InLog
<1>e. \A r \in reads : r \in Records /\ InLog(r) /\ r.epoch # log'.epoch BY <1>0, <1>d, <1>n DEF Logged, Shapes
<1>g. /\ lapse \subseteq lapse' /\ lapse' \subseteq lapse \cup {"unstarted", "between"}
      /\ lapse' = {} => lapse = {}
      /\ lapse' = {} /\ (stateFile.id <= 0 \/ Paging) => \A r \in reads : Retained(r) => r \in ps.page
    <2> DEFINE gone == {r \in reads : Retained(r) /\ r \notin ps.page}
    <2>1. lapse' = Unstarted(gone) \cup (IF gone # {} /\ Paging THEN {"between"} ELSE {}) BY DEF LogClear
    <2>2. gone = {} => \A r \in reads : Retained(r) => r \in ps.page OBVIOUS
    <2> HIDE DEF gone
    <2> QED BY <2>1, <2>2 DEF Unstarted
<1>1. Shapes'
    <2>1. lapse' \subseteq Lapses BY <1>g, <1>0 DEF Shapes, Lapses
    <2>2. log'.oldest <= Newest' /\ Newest' <= MaxRecord BY <1>c, <1>0, Values
    <2> QED BY <2>1, <2>2, <1>b, <1>c, <1>0 DEF Shapes
<1>2. Logged' BY <1>b, <1>d, <1>e, <1>n DEF Logged
<1>3. Ordered'
    <2>1. InLog(stateFile) /\ stateFile.epoch \in Nat /\ InLog(ps.last) /\ ps.last.epoch \in Nat
        BY <1>0, Numbers DEF Ordered
    <2>2. InLog(stateFile)' /\ InLog(ps.last)' /\ stateFile.epoch # log'.epoch BY <2>1, <1>b, <1>d DEF InLog
    <2>3. ps.at = "newest" /\ ps.oldest # Nowhere => ps.oldest.epoch <= log'.epoch /\ ps.oldest.epoch # log'.epoch
        <3>1. ps.oldest.epoch \in Nat BY <1>0, Numbers
        <3> QED BY <3>1, <1>0, <1>c, <1>n DEF Ordered
    <2> QED BY <2>2, <2>3, <1>0, <1>b, <1>g DEF Ordered, Past
<1>4. Paged'
    <2>1. \A r \in ps.page : InLog(r)' BY <1>0, <1>d, Numbers DEF Paged
    <2> QED BY <2>1, <1>0, <1>b DEF Paged
<1>5. Queued' BY <1>0, <1>b, <1>g DEF Queued, Once, AtLog, Paging
<1>6. Accounted'
    <2> SUFFICES ASSUME lapse' = {}
                 PROVE  /\ Covered(stateFile)' /\ Covered(ps.last)'
                        /\ BeforeStart' /\ SinceOldest' /\ AtRewind' /\ AtPage' /\ InPage'
        BY DEF Accounted
    <2>0. /\ Covered(stateFile) /\ Covered(ps.last)
          /\ BeforeStart /\ SinceOldest /\ AtRewind /\ AtPage /\ InPage BY <1>0, <1>g DEF Accounted
    <2>1. \A r : Noted(r)' <=> Noted(r) BY <1>b DEF Noted, Kept
    <2>2. Covered(stateFile)' /\ Covered(ps.last)' BY <2>0, <2>1, <1>b DEF Covered
    <2>3. BeforeStart' BY <2>0, <2>1, <1>b, <1>g DEF BeforeStart, Safe
    <2>4. SinceOldest' BY <2>0, <1>0, <1>b, <1>g DEF SinceOldest, Paging, Paged
    <2>5. AtRewind' BY <2>0, <2>1, <1>0, <1>b, <1>g DEF AtRewind, Safe, Paging, Paged
    <2>6. AtPage' BY <1>b, <1>e DEF AtPage
    <2>7. InPage' BY <2>0, <2>1, <1>b, <1>e DEF InPage
    <2> QED BY <2>2, <2>3, <2>4, <2>5, <2>6, <2>7
<1>7. Counted'
    <2>1. \A r \in Records : ToSend(r)' <=> ToSend(r) BY <1>b DEF ToSend
    <2>2. \A r \in Records : r.epoch >= log'.epoch => r.epoch >= log.epoch BY <1>c, <1>n
    <2>3. \A r \in Records : ToQueue(r)' => ToQueue(r) BY <2>2, <1>b DEF ToQueue, Beyond, Mark, Past
    <2> QED BY <2>1, <2>3, <1>0, <1>1, <1>b, <1>n, <1>g, CountSame
<1> QED BY <1>1, <1>2, <1>3, <1>4, <1>5, <1>6, <1>7 DEF ScriptInv

\* The script starts with nothing in memory.
LEMMA LogOnInv == ASSUME ScriptAssumption, ScriptInv, LogOn PROVE ScriptInv'
<1>0. Shapes /\ Logged /\ Ordered /\ Paged /\ Queued /\ Accounted /\ Counted BY DEF ScriptInv
<1>a. ps.at = "down" /\ ps' = [Down EXCEPT !.at = "top"] BY DEF LogOn
<1>b. UNCHANGED <<log, stateFile, queue, trouble, reads, sends, told, lapse>> BY DEF LogOn, files, history
<1>c. /\ ps'.at = "top" /\ ps'.last = [epoch |-> 0, id |-> 0] /\ ps'.page = {} /\ ps' \in PsSet /\ ps'.last # Torn
    <2>1. [epoch |-> 0, id |-> 0] \in Positions BY <1>0, Values DEF Positions
    <2>2. ps' = [at |-> "top", last |-> [epoch |-> 0, id |-> 0], oldest |-> [epoch |-> 0, id |-> 0], queued |-> {},
                 page |-> {}, more |-> FALSE, pending |-> <<>>, remaining |-> <<>>]
        BY <1>a DEF Down, Nowhere, Record
    <2>3. [epoch |-> 0, id |-> 0] # Torn BY TornId, <2>1
    <2> QED BY <2>1, <2>2, <2>3 DEF PsSet, States
<1>d. ps.page = {} BY <1>0, <1>a DEF Paged
<1>1. Shapes' BY <1>0, <1>b, <1>c DEF Shapes, Newest
<1>2. Logged' BY <1>0, <1>b DEF Logged, InLog, Newest
<1>3. Ordered'
    <2>1. InLog(ps.last)' BY <1>0, <1>b, <1>c, Numbers DEF InLog, Newest
    <2> QED BY <2>1, <1>0, <1>b, <1>c DEF Ordered, Past, InLog, Newest
<1>4. Paged' BY <1>c DEF Paged
<1>5. Queued' BY <1>0, <1>b, <1>c DEF Queued, Once, AtLog, Paging
<1>6. Accounted'
    <2>1. \A r : (Noted(r)' <=> Noted(r)) /\ (Retained(r)' <=> Retained(r)) BY <1>b DEF Noted, Kept, Retained, Newest
    <2>2. Covered(ps.last)'
        <3> SUFFICES ASSUME NEW r \in reads, r.id <= 0 PROVE FALSE BY <1>b, <1>c DEF Covered
        <3> QED BY <1>0, Numbers
    <2> QED BY <2>1, <2>2, <1>0, <1>b, <1>c, <1>d
        DEF Accounted, Covered, BeforeStart, SinceOldest, AtRewind, AtPage, InPage, Safe
<1>7. Counted'
    <2>1. \A r \in Records : ToSend(r)' <=> ToSend(r) BY <1>a, <1>b, <1>c DEF ToSend
    <2>2. \A r \in Records : ToQueue(r)' <=> ToQueue(r) BY <1>a, <1>b, <1>c, <1>d DEF ToQueue, Beyond, Mark, Past
    <2> QED BY <2>1, <2>2, <1>0, <1>1, <1>b, Numbers, CountSame
<1> QED BY <1>1, <1>2, <1>3, <1>4, <1>5, <1>6, <1>7 DEF ScriptInv

\* The checkpoint and the keys are those of the files, as far as they can be read.
LEMMA ReadFilesInv == ASSUME ScriptAssumption, ScriptInv, ReadFiles PROVE ScriptInv'
<1>0. Shapes /\ Logged /\ Ordered /\ Paged /\ Queued /\ Accounted /\ Counted BY DEF ScriptInv
<1>n. trouble \in Nat /\ MaxTrouble \in Nat BY <1>0, Numbers, Values
<1>a. /\ ps.at = "top"
      /\ \/ /\ ps' = [ps EXCEPT !.at = "oldest", !.last = stateFile, !.queued = UNION {Key(r) : r \in ToSet(queue)}]
            /\ trouble' = trouble /\ lapse' = lapse
         \/ /\ ps' = [ps EXCEPT !.at = "oldest", !.last = stateFile, !.queued = {}]
            /\ trouble' = trouble + 1 /\ trouble < MaxTrouble /\ lapse' = lapse \cup {"unread"}
         \/ /\ ps' = [ps EXCEPT !.at = "deliver"]
            /\ trouble' = trouble + 1 /\ trouble < MaxTrouble /\ lapse' = lapse BY DEF ReadFiles, Trouble
<1>b. UNCHANGED <<log, stateFile, queue, reads, sends, told>> BY DEF ReadFiles, files
<1>c. /\ ps' \in PsSet /\ ps'.page = {} /\ ps.page = {} /\ ps'.last \in {stateFile, ps.last}
      /\ \/ /\ ps'.at = "oldest" /\ ps'.last = stateFile /\ ps'.queued = ToSet(queue) /\ lapse' = lapse
         \/ ps'.at = "oldest" /\ ps'.last = stateFile /\ lapse' = lapse \cup {"unread"}
         \/ ps'.at = "deliver" /\ ps'.last = ps.last /\ lapse' = lapse
      /\ \/ trouble' = trouble
         \/ trouble' = trouble + 1 /\ trouble < MaxTrouble
    <2>1. UNION {Key(r) : r \in ToSet(queue)} = ToSet(queue) BY DEF Key
    <2>2. ToSet(queue) \subseteq Records BY <1>0 DEF Queued, Shapes
    <2>3. stateFile \in Positions \cup {Torn} /\ ps \in PsSet BY <1>0 DEF Shapes
    <2>4. ps.page = {} BY <1>0, <1>a DEF Paged
    <2>5. CASE ps' = [ps EXCEPT !.at = "oldest", !.last = stateFile, !.queued = UNION {Key(r) : r \in ToSet(queue)}]
               /\ trouble' = trouble /\ lapse' = lapse
        BY <2>1, <2>2, <2>3, <2>4, <2>5 DEF PsSet, States
    <2>6. CASE /\ ps' = [ps EXCEPT !.at = "oldest", !.last = stateFile, !.queued = {}]
               /\ trouble' = trouble + 1 /\ trouble < MaxTrouble /\ lapse' = lapse \cup {"unread"}
        BY <2>3, <2>4, <2>6 DEF PsSet, States
    <2>7. CASE ps' = [ps EXCEPT !.at = "deliver"] /\ trouble' = trouble + 1 /\ trouble < MaxTrouble /\ lapse' = lapse
        BY <2>3, <2>4, <2>7 DEF PsSet, States
    <2> QED BY <2>5, <2>6, <2>7, <1>a
<1>f. lapse \subseteq lapse' /\ lapse' \subseteq lapse \cup {"unread"} /\ (lapse' = {} => lapse = {}) BY <1>c
<1>1. Shapes'
    <2>1. trouble' \in 0 .. MaxTrouble BY <1>c, <1>n, <1>0 DEF Shapes
    <2>2. lapse' \subseteq Lapses BY <1>f, <1>0 DEF Shapes, Lapses
    <2> QED BY <2>1, <2>2, <1>0, <1>b, <1>c DEF Shapes, Newest
<1>2. Logged' BY <1>0, <1>b DEF Logged, InLog, Newest
<1>3. Ordered'
    <2>1. InLog(stateFile)' /\ InLog(ps.last)' BY <1>0, <1>b, <1>c DEF Ordered, InLog, Newest
    <2>2. Torn \in {stateFile, ps.last}' => "torn" \in lapse' BY <1>0, <1>b, <1>c, <1>f DEF Ordered
    <2> QED BY <2>1, <2>2, <1>b, <1>c DEF Ordered, Past
<1>4. Paged' BY <1>c DEF Paged
<1>5. Queued' BY <1>0, <1>b, <1>c DEF Queued, Once, AtLog, Paging
<1>6. Accounted'
    <2>1. \A r : (Noted(r)' <=> Noted(r)) /\ (Retained(r)' <=> Retained(r)) BY <1>b DEF Noted, Kept, Retained, Newest
    <2> QED BY <2>1, <1>0, <1>b, <1>c, <1>f
        DEF Accounted, Covered, BeforeStart, SinceOldest, AtRewind, AtPage, InPage, Safe
<1>7. Counted'
    <2>1. \A r \in Records : ToSend(r)' <=> ToSend(r) BY <1>a, <1>b, <1>c DEF ToSend
    <2>2. \A r \in Records : ToQueue(r)' <=> ToQueue(r) BY <1>a, <1>b, <1>c DEF ToQueue, Beyond, Mark, Past
    <2>3. CASE trouble' = trouble BY <2>1, <2>2, <2>3, <1>0, <1>1, <1>b, <1>f, <1>n, CountSame
    <2>4. CASE trouble' = trouble + 1 BY <2>1, <2>2, <2>4, <1>0, <1>1, <1>b, <1>f, CountSame
    <2> QED BY <2>3, <2>4, <1>c
<1> QED BY <1>1, <1>2, <1>3, <1>4, <1>5, <1>6, <1>7 DEF ScriptInv

\* All that is younger than the oldest record is in the log, if the query tells it.
LEMMA ReadOldestInv == ASSUME ScriptAssumption, ScriptInv, ReadOldest PROVE ScriptInv'
<1>0. Shapes /\ Logged /\ Ordered /\ Paged /\ Queued /\ Accounted /\ Counted BY DEF ScriptInv
<1>n. trouble \in Nat /\ MaxTrouble \in Nat BY <1>0, Numbers, Values
<1>a. /\ ps.at = "oldest"
      /\ \/ ps' = [ps EXCEPT !.at = "newest", !.oldest = Record(log.epoch, log.oldest)] /\ trouble' = trouble
         \/ ps' = [ps EXCEPT !.at = "newest", !.oldest = Nowhere] /\ trouble' = trouble + 1 /\ trouble < MaxTrouble
    BY DEF ReadOldest, Trouble
<1>b. UNCHANGED <<log, stateFile, queue, reads, sends, told, lapse>> BY DEF ReadOldest, files, history
<1>c. /\ ps'.at = "newest" /\ ps'.last = ps.last /\ ps'.page = {} /\ ps.page = {} /\ ps' \in PsSet
      /\ ps'.queued = ps.queued /\ ps.last = stateFile
      /\ ps'.oldest # Nowhere => ps'.oldest.epoch = log.epoch /\ ps'.oldest.id = log.oldest /\ log.oldest > 0
      /\ \/ trouble' = trouble
         \/ trouble' = trouble + 1 /\ trouble < MaxTrouble
    <2>1. log.epoch \in 0 .. MaxClears /\ log.oldest \in 1 .. MaxRecord /\ MaxRecord \in Nat BY <1>0, Values
    <2>2. Record(log.epoch, log.oldest) \in Positions BY <2>1 DEF Record, Positions
    <2>3. ps \in PsSet BY <1>0 DEF Shapes
    <2>4. ps.page = {} /\ ps.last = stateFile BY <1>0, <1>a DEF Paged, Ordered
    <2>5. Record(log.epoch, log.oldest).epoch = log.epoch /\ Record(log.epoch, log.oldest).id = log.oldest BY DEF Record
    <2>6. Nowhere \in Positions BY <1>0, Values DEF Nowhere, Record, Positions
    <2>7. PICK c \in Positions : /\ ps' = [ps EXCEPT !.at = "newest", !.oldest = c]
                                /\ c \in {Record(log.epoch, log.oldest), Nowhere} BY <2>2, <2>6, <1>a
    <2>8. ps' \in PsSet /\ ps'.oldest = c /\ ps'.at = "newest" /\ ps'.last = ps.last /\ ps'.page = ps.page /\ ps'.queued = ps.queued
        BY <2>3, <2>7 DEF PsSet, States
    <2> QED BY <2>1, <2>4, <2>5, <2>7, <2>8, <1>a
<1>1. Shapes'
    <2>1. trouble' \in 0 .. MaxTrouble BY <1>c, <1>n, <1>0 DEF Shapes
    <2> QED BY <2>1, <1>0, <1>b, <1>c DEF Shapes, Newest
<1>2. Logged' BY <1>0, <1>b DEF Logged, InLog, Newest
<1>3. Ordered'
    <2>1. ps.last.epoch <= log.epoch BY <1>0 DEF Ordered, InLog
    <2>2. log.epoch <= log.epoch /\ log.oldest <= log.oldest BY <1>0, Numbers
    <2> QED BY <2>1, <2>2, <1>0, <1>b, <1>c DEF Ordered, Past, InLog, Newest
<1>4. Paged' BY <1>c DEF Paged
<1>5. Queued' BY <1>0, <1>a, <1>b, <1>c DEF Queued, Once, AtLog, Paging
<1>6. Accounted'
    <2>1. \A r : (Noted(r)' <=> Noted(r)) /\ (Retained(r)' <=> Retained(r)) BY <1>b DEF Noted, Kept, Retained, Newest
    <2>2. SinceOldest'
        <3> SUFFICES ASSUME NEW r \in reads, r.epoch > log.epoch \/ (r.epoch = log.epoch /\ r.id >= log.oldest)
                     PROVE  Retained(r)'
            BY <1>b, <1>c DEF SinceOldest
        <3>1. r.epoch \in Nat /\ r.id \in Nat /\ log.epoch \in Nat /\ log.oldest \in Nat /\ Newest \in Nat BY <1>0, Numbers
        <3>2. InLog(r) BY <1>0 DEF Logged
        <3>3. r.epoch = log.epoch /\ r.id \in log.oldest .. Newest BY <3>1, <3>2 DEF InLog
        <3> QED BY <3>3, <2>1 DEF Retained
    <2> QED BY <2>1, <2>2, <1>0, <1>b, <1>c
        DEF Accounted, Covered, BeforeStart, AtRewind, AtPage, InPage, Safe
<1>7. Counted'
    <2>1. \A r \in Records : ToSend(r)' <=> ToSend(r) BY <1>a, <1>b, <1>c DEF ToSend
    <2>2. \A r \in Records : ToQueue(r)' <=> ToQueue(r) BY <1>a, <1>b, <1>c DEF ToQueue, Beyond, Mark, Past
    <2>3. CASE trouble' = trouble BY <2>1, <2>2, <2>3, <1>0, <1>1, <1>b, <1>n, CountSame
    <2>4. CASE trouble' = trouble + 1 BY <2>1, <2>2, <2>4, <1>0, <1>1, <1>b, CountSame
    <2> QED BY <2>3, <2>4, <1>c
<1> QED BY <1>1, <1>2, <1>3, <1>4, <1>5, <1>6, <1>7 DEF ScriptInv

\* Copies of one read are one more at most: it is queued again, or its line is sent
\* again.
LEMMA DieInv == ASSUME ScriptAssumption, ScriptInv, Die PROVE ScriptInv'
<1>0. Shapes /\ Logged /\ Ordered /\ Paged /\ Queued /\ Accounted /\ Counted BY DEF ScriptInv
<1>n. trouble \in Nat /\ MaxTrouble \in Nat BY <1>0, Numbers, Values
<1>a. ps.at # "down" /\ ps' = Down /\ trouble < MaxTrouble /\ trouble' = trouble + 1 BY DEF Die, Trouble
<1>b. UNCHANGED <<log, queue, reads, sends, told>> BY DEF Die
<1>c. /\ ps'.at = "down" /\ ps'.last = [epoch |-> 0, id |-> 0] /\ ps'.page = {} /\ ps' \in PsSet /\ ps'.last # Torn
    <2>1. [epoch |-> 0, id |-> 0] \in Positions BY <1>0, Values DEF Positions
    <2>2. ps' = [at |-> "down", last |-> [epoch |-> 0, id |-> 0], oldest |-> [epoch |-> 0, id |-> 0], queued |-> {},
                 page |-> {}, more |-> FALSE, pending |-> <<>>, remaining |-> <<>>]
        BY <1>a DEF Down, Nowhere, Record
    <2>3. [epoch |-> 0, id |-> 0] # Torn BY TornId, <2>1
    <2> QED BY <2>1, <2>2, <2>3 DEF PsSet, States
<1>d. /\ \/ stateFile' = stateFile
         \/ stateFile' = Torn /\ "torn" \in lapse'
      /\ lapse \subseteq lapse' /\ lapse' \subseteq lapse \cup {"torn", "unstarted"} /\ (lapse' = {} => lapse = {})
      /\ lapse' = {} => stateFile' = stateFile
      /\ lapse' = {} /\ stateFile.id <= 0 => \A r \in reads : r \in ps.page => Retained(r)
    <2> DEFINE gone == {r \in reads \cap ps.page : ~Retained(r)}
    <2>1. \/ stateFile' = stateFile /\ lapse' = Unstarted(gone)
          \/ stateFile' = Torn /\ lapse' = lapse \cup {"torn"} BY DEF Die
    <2>2. gone = {} => \A r \in reads : r \in ps.page => Retained(r) OBVIOUS
    <2> HIDE DEF gone
    <2> QED BY <2>1, <2>2 DEF Unstarted
<1>1. Shapes'
    <2>1. trouble' \in 0 .. MaxTrouble BY <1>a, <1>n
    <2>2. lapse' \subseteq Lapses BY <1>d, <1>0 DEF Shapes, Lapses
    <2>3. stateFile' \in Positions \cup {Torn} BY <1>d, <1>0 DEF Shapes
    <2> QED BY <2>1, <2>2, <2>3, <1>0, <1>b, <1>c DEF Shapes, Newest
<1>2. Logged' BY <1>0, <1>b DEF Logged, InLog, Newest
<1>3. Ordered'
    <2>1. InLog(ps.last)' BY <1>0, <1>b, <1>c, Numbers DEF InLog, Newest
    <2>2. InLog(Torn)
        <3>1. 0 <= log.epoch /\ -1 <= Newest BY <1>0, Numbers
        <3> QED BY <3>1, TornId DEF InLog
    <2>3. InLog(stateFile)' BY <2>2, <1>0, <1>b, <1>d DEF Ordered, InLog, Newest
    <2> QED BY <2>1, <2>3, <1>0, <1>c, <1>d DEF Ordered, Past
<1>4. Paged' BY <1>c DEF Paged
<1>5. Queued' BY <1>0, <1>b, <1>c, <1>d DEF Queued, Once, AtLog, Paging
<1>6. Accounted'
    <2>1. \A r : (Noted(r)' <=> Noted(r)) /\ (Retained(r)' <=> Retained(r)) BY <1>b DEF Noted, Kept, Retained, Newest
    <2>2. Covered(ps.last)'
        <3> SUFFICES ASSUME NEW r \in reads, r.id <= 0 PROVE FALSE BY <1>b, <1>c DEF Covered
        <3> QED BY <1>0, Numbers
    <2>3. ASSUME lapse' = {} PROVE BeforeStart'
        <3>1. BeforeStart /\ stateFile' = stateFile BY <2>3, <1>0, <1>d DEF Accounted
        <3>2. stateFile.id = 0 => stateFile.id <= 0 OBVIOUS
        <3> QED BY <2>1, <2>3, <3>1, <3>2, <1>b, <1>d DEF BeforeStart, Safe
    <2>4. ASSUME lapse' = {} PROVE Covered(stateFile)'
        BY <2>1, <2>4, <1>0, <1>b, <1>d DEF Accounted, Covered
    <2> QED BY <2>2, <2>3, <2>4, <1>c DEF Accounted, SinceOldest, AtRewind, AtPage, InPage
<1>7. Counted'
    <2>1. \A r : Beyond(r, Torn) => FALSE BY TornId DEF Beyond
    <2>2. ASSUME NEW r \in Records, ps.at = "send" PROVE ToQueue(r)' => ToQueue(r)
        BY <2>1, <2>2, <1>b, <1>c, <1>d DEF ToQueue, Mark, Past, Beyond
    <2>3. ASSUME NEW r \in Records, ps.at # "send" PROVE ToSend(r)' => ToSend(r)
        BY <2>3, <1>b, <1>c DEF ToSend
    <2> QED BY <2>2, <2>3, <1>0, <1>1, <1>a, <1>b, <1>d, CountSame
<1> QED BY <1>1, <1>2, <1>3, <1>4, <1>5, <1>6, <1>7 DEF ScriptInv

\* What has left the log is reported, if anything between the checkpoint and the
\* oldest record has.
LEMMA CheckGapInv == ASSUME ScriptAssumption, ScriptInv, CheckGap PROVE ScriptInv'
<1>0. Shapes /\ Logged /\ Ordered /\ Paged /\ Queued /\ Accounted /\ Counted BY DEF ScriptInv
<1>n. /\ log.epoch \in Nat /\ log.oldest \in Nat /\ Newest \in Nat /\ log.oldest <= Newest /\ Newest > 0
      /\ ps.last.epoch \in Nat /\ ps.last.id \in Int /\ ps.oldest.epoch \in Nat /\ ps.oldest.id \in Nat
      /\ trouble \in Nat /\ MaxTrouble \in Nat
      /\ \A r \in reads : r \in Records /\ r.epoch \in Nat /\ r.id \in Nat BY <1>0, Numbers, Values
<1>a. ps.at = "newest" BY DEF CheckGap
<1>b. UNCHANGED <<log, stateFile, queue, reads, sends>> BY DEF CheckGap, files
<1>q. PICK newest \in {Newest, 0}, logged \in BOOLEAN :
          /\ IF newest = Newest /\ logged THEN UNCHANGED trouble ELSE Trouble
          /\ told' = IF Gap(newest) /\ logged THEN told \cup {r \in reads : ~Retained(r)} ELSE told
          /\ ps' = IF Gap(newest) THEN [ps EXCEPT !.at = "rewind", !.last = [ps.oldest EXCEPT !.id = @ - 1]]
                                  ELSE [ps EXCEPT !.at = "page"]
          /\ lapse' = lapse \cup (IF Regrown THEN {"regrown"} ELSE {})
                            \cup (IF Gap(newest) /\ ~logged THEN {"unlogged"} ELSE {})
                            \cup (IF ps.oldest = Nowhere /\ RolledPast(log.oldest) THEN {"unasked"} ELSE {})
    BY DEF CheckGap
<1> DEFINE gap == Gap(newest)
<1>c. /\ ps.last = stateFile /\ ps.page = {} /\ InLog(stateFile)
      /\ ps.oldest # Nowhere =>
            /\ ps.last.epoch <= ps.oldest.epoch /\ ps.oldest.epoch <= log.epoch
            /\ ps.oldest.id > 0 /\ (ps.oldest.epoch = log.epoch => ps.oldest.id <= log.oldest)
    BY <1>0, <1>a DEF Ordered, Paged
<1>h. /\ gap => /\ ps.oldest # Nowhere /\ ps.last.id > 0
                /\ ps.oldest.id > ps.last.id + 1 \/ ps.last.id > Newest
      /\ ~gap => (ps.last.id > 0 => ps.oldest.id <= ps.last.id + 1)
    <2>1. Nowhere.id = 0 BY DEF Nowhere, Record
    <2>2. RolledPast(ps.oldest.id) => ps.oldest # Nowhere BY <2>1, <1>n DEF RolledPast
    <2>3. newest > 0 => newest = Newest OBVIOUS
    <2>4. gap <=> \/ RolledPast(ps.oldest.id)
                  \/ ps.last.id > 0 /\ ps.oldest # Nowhere /\ newest > 0 /\ ps.last.id > newest BY DEF gap, Gap
    <2>5. RolledPast(ps.oldest.id) <=> ps.last.id > 0 /\ ps.oldest.id > ps.last.id + 1 BY DEF RolledPast
    <2> HIDE DEF gap
    <2> QED BY <2>2, <2>3, <2>4, <2>5, <1>n
<1>d. /\ \/ trouble' = trouble
         \/ trouble' = trouble + 1 /\ trouble < MaxTrouble
      /\ \/ /\ gap /\ ps' = [ps EXCEPT !.at = "rewind", !.last = [ps.oldest EXCEPT !.id = @ - 1]]
            /\ told' \in {told, told \cup {r \in reads : ~Retained(r)}}
            /\ lapse' = {} => told' = told \cup {r \in reads : ~Retained(r)}
         \/ ~gap /\ told' = told /\ ps' = [ps EXCEPT !.at = "page"]
      /\ lapse \subseteq lapse' /\ lapse' \subseteq lapse \cup {"regrown", "unlogged", "unasked"}
      /\ lapse' = {} => lapse = {} /\ ~(ps.oldest = Nowhere /\ RolledPast(log.oldest))
    <2>1. \/ trouble' = trouble
          \/ trouble' = trouble + 1 /\ trouble < MaxTrouble BY <1>q DEF Trouble
    <2>2. gap => /\ told' = (IF logged THEN told \cup {r \in reads : ~Retained(r)} ELSE told)
                 /\ ps' = [ps EXCEPT !.at = "rewind", !.last = [ps.oldest EXCEPT !.id = @ - 1]]
                 /\ ~logged => "unlogged" \in lapse' BY <1>q
    <2>3. ~gap => told' = told /\ ps' = [ps EXCEPT !.at = "page"] BY <1>q
    <2>4. /\ lapse \subseteq lapse' /\ lapse' \subseteq lapse \cup {"regrown", "unlogged", "unasked"}
          /\ lapse' = {} => lapse = {} /\ ~(ps.oldest = Nowhere /\ RolledPast(log.oldest)) BY <1>q
    <2> HIDE DEF gap
    <2> QED BY <2>1, <2>2, <2>3, <2>4
<1> HIDE DEF gap
<1>e. /\ ps' \in PsSet /\ ps'.page = {} /\ ps'.queued = ps.queued /\ ps'.at \in {"rewind", "page"}
      /\ \/ /\ gap /\ ps.oldest # Nowhere /\ ps'.at = "rewind"
            /\ ps'.last.epoch = ps.oldest.epoch /\ ps'.last.id = ps.oldest.id - 1 /\ ps'.last # Torn
         \/ ~gap /\ told' = told /\ ps'.at = "page" /\ ps'.last = ps.last
    <2>1. ps \in PsSet /\ ps.oldest \in Positions BY <1>0 DEF Shapes, PsSet
    <2>2. ASSUME gap PROVE /\ ps' \in PsSet /\ ps'.page = {} /\ ps'.queued = ps.queued /\ ps'.at = "rewind"
                           /\ ps'.last.epoch = ps.oldest.epoch /\ ps'.last.id = ps.oldest.id - 1 /\ ps'.last # Torn
        <3> DEFINE c == [ps.oldest EXCEPT !.id = @ - 1]
        <3>1. ps.oldest.id - 1 \in 0 .. MaxRecord /\ MaxRecord \in Nat BY <2>2, <1>0, <1>c, <1>h, <1>n, Values
        <3>2. c \in Positions /\ c.epoch = ps.oldest.epoch /\ c.id = ps.oldest.id - 1 BY <2>1, <3>1 DEF Positions
        <3>3. c # Torn BY <3>2, TornId
        <3>4. ps' = [ps EXCEPT !.at = "rewind", !.last = c] BY <1>d, <2>2
        <3> HIDE DEF c
        <3> QED BY <2>1, <3>2, <3>3, <3>4, <1>c DEF PsSet, States
    <2>3. ASSUME ~gap PROVE ps' \in PsSet /\ ps'.page = {} /\ ps'.queued = ps.queued /\ ps'.at = "page" /\ ps'.last = ps.last
        BY <2>1, <2>3, <1>c, <1>d DEF PsSet, States
    <2> QED BY <2>2, <2>3, <1>d, <1>h
<1>f. lapse \subseteq lapse' /\ (lapse' = {} => lapse = {}) BY <1>d
<1>g. ps.oldest # Nowhere => \A r \in reads : r.epoch = ps.oldest.epoch /\ r.id < ps.oldest.id => ~Retained(r)
    <2> SUFFICES ASSUME ps.oldest # Nowhere, NEW r \in reads, r.epoch = ps.oldest.epoch, r.id < ps.oldest.id, Retained(r)
                 PROVE  FALSE OBVIOUS
    <2>1. r.epoch = log.epoch /\ r.id >= log.oldest BY <1>n DEF Retained
    <2>2. ps.oldest.id <= log.oldest /\ r.id \in Nat BY <2>1, <1>c, <1>n
    <2> QED BY <2>1, <2>2, <1>n
<1>1. Shapes'
    <2>1. told' \subseteq reads BY <1>d, <1>0 DEF Shapes
    <2>2. lapse' \subseteq Lapses BY <1>d, <1>0 DEF Shapes, Lapses
    <2>3. trouble' \in 0 .. MaxTrouble BY <1>d, <1>n, <1>0 DEF Shapes
    <2> QED BY <2>1, <2>2, <2>3, <1>0, <1>b, <1>e DEF Shapes, Newest
<1>2. Logged' BY <1>0, <1>b DEF Logged, InLog, Newest
<1>3. Ordered'
    <2>1. ASSUME gap PROVE /\ InLog(ps.last)' /\ ps'.last # Torn /\ stateFile # Torn /\ ps'.at = "rewind"
                           /\ stateFile.epoch <= ps'.last.epoch
                           /\ stateFile.epoch = log.epoch => stateFile.id <= ps'.last.id
        <3>1. /\ ps'.last.epoch = ps.oldest.epoch /\ ps'.last.id = ps.oldest.id - 1
              /\ ps'.last # Torn /\ ps'.at = "rewind" BY <2>1, <1>e
        <3>2. ps.oldest.epoch = log.epoch => ps.oldest.id - 1 <= Newest BY <2>1, <1>c, <1>h, <1>n
        <3>3. InLog(ps.last)' BY <2>1, <3>1, <3>2, <1>b, <1>c, <1>h DEF InLog, Newest
        <3>4. ps.oldest # Nowhere /\ ps.last.id > 0 /\ (ps.oldest.id > ps.last.id + 1 \/ ps.last.id > Newest) BY <2>1, <1>h
        <3>5. stateFile # Torn BY <3>4, <1>c, TornId
        <3>6. ps.last.epoch = log.epoch => ps.last.id <= ps.oldest.id - 1
            <4>1. ps.last.epoch = log.epoch => ps.last.id <= Newest BY <1>c DEF InLog
            <4> QED BY <4>1, <3>4, <1>n
        <3> QED BY <3>1, <3>3, <3>4, <3>5, <3>6, <1>c
    <2>2. ASSUME ~gap PROVE /\ InLog(ps.last)' /\ ps'.last = stateFile /\ ps'.at = "page"
                            /\ stateFile.epoch <= ps'.last.epoch
                            /\ stateFile.epoch = log.epoch => stateFile.id <= ps'.last.id
        <3>1. ps'.at = "page" /\ ps'.last = ps.last BY <2>2, <1>e
        <3>2. InLog(ps.last)' BY <3>1, <1>b, <1>c DEF InLog, Newest
        <3> QED BY <3>1, <3>2, <1>c, <1>n
    <2>3. InLog(stateFile)' BY <1>b, <1>c DEF InLog, Newest
    <2>4. Torn \in {stateFile, ps.last}' => "torn" \in lapse' BY <2>1, <2>2, <1>0, <1>b, <1>f DEF Ordered
    <2> QED BY <2>1, <2>2, <2>3, <2>4, <1>b, <1>e DEF Ordered, Past
<1>4. Paged' BY <1>e DEF Paged
<1>5. Queued'
    <2>1. AtLog BY <1>a DEF AtLog
    <2> QED BY <2>1, <1>0, <1>a, <1>b, <1>e, <1>f DEF Queued, Once, AtLog
<1>6. Accounted'
    <2> SUFFICES ASSUME lapse' = {}
                 PROVE  /\ Covered(stateFile)' /\ Covered(ps.last)'
                        /\ BeforeStart' /\ SinceOldest' /\ AtRewind' /\ AtPage' /\ InPage'
        BY DEF Accounted
    <2>0. Covered(stateFile) /\ BeforeStart /\ SinceOldest BY <1>0, <1>f DEF Accounted
    <2>1. \A r : (Noted(r) => Noted(r)') /\ (Retained(r)' <=> Retained(r))
        BY <1>b, <1>d DEF Noted, Kept, Retained, Newest
    <2>2. Covered(stateFile)' BY <2>0, <2>1, <1>b DEF Covered
    <2>3. BeforeStart' BY <2>0, <2>1, <1>b, <1>c DEF BeforeStart, Safe
    <2>4. gap => \A r \in reads : Retained(r) \/ Noted(r)' BY <1>b, <1>d DEF Noted
    <2>5. Covered(ps.last)'
        <3>1. CASE gap
            <4> SUFFICES ASSUME NEW r \in reads, r.epoch = ps.oldest.epoch, r.id <= ps.oldest.id - 1 PROVE Noted(r)'
                BY <3>1, <1>b, <1>e DEF Covered
            <4>1. r.id < ps.oldest.id BY <1>n
            <4> QED BY <4>1, <3>1, <2>4, <1>g, <1>h
        <3>2. CASE ~gap BY <3>2, <2>2, <1>b, <1>c, <1>e DEF Covered
        <3> QED BY <3>1, <3>2
    <2>6. AtRewind' BY <2>1, <2>4, <1>b, <1>e DEF AtRewind, Safe
    <2>7. AtPage'
        <3> SUFFICES ASSUME ~gap, NEW r \in reads, r.epoch = log.epoch, ps.last.epoch = log.epoch \/ ps.last.id = 0
                     PROVE  Safe(r)
            BY <2>1, <1>b, <1>e DEF AtPage, Safe
        <3>1. CASE ps.last.id = 0 BY <3>1, <2>0, <1>c DEF BeforeStart
        <3>2. CASE ps.last.id # 0 /\ ps.last.epoch = log.epoch
            <4>1. ps.last # Torn BY <1>0, <1>f DEF Ordered
            <4>2. ps.last.id > 0 BY <3>2, <4>1, <1>0, <1>n, Numbers
            <4>3. CASE ps.oldest # Nowhere
                <5>1. ps.oldest.id <= ps.last.id + 1 BY <4>2, <1>h
                <5>2. ps.oldest.epoch = log.epoch BY <3>2, <4>3, <1>c, <1>n
                <5>3. CASE r.id >= ps.oldest.id BY <4>3, <5>2, <5>3, <2>0, <1>a DEF SinceOldest, Safe
                <5>4. CASE ~(r.id >= ps.oldest.id)
                    <6>1. r.id <= ps.last.id BY <5>1, <5>4, <1>n
                    <6> QED BY <6>1, <3>2, <2>0, <1>c DEF Covered, Safe
                <5> QED BY <5>3, <5>4
            <4>4. CASE ps.oldest = Nowhere
                <5>1. log.oldest <= ps.last.id + 1 BY <4>2, <4>4, <1>d, <1>n DEF RolledPast
                <5>2. CASE r.id >= log.oldest
                    <6>1. r.id <= Newest BY <1>0 DEF Logged, InLog
                    <6>2. r.id \in log.oldest .. Newest BY <5>2, <6>1, <1>n
                    <6> QED BY <6>2 DEF Retained, Safe
                <5>3. CASE ~(r.id >= log.oldest)
                    <6>1. r.id <= ps.last.id BY <5>1, <5>3, <1>n
                    <6> QED BY <6>1, <3>2, <2>0, <1>c DEF Covered, Safe
                <5> QED BY <5>2, <5>3
            <4> QED BY <4>3, <4>4
        <3> QED BY <3>1, <3>2
    <2> QED BY <2>2, <2>3, <2>5, <2>6, <2>7, <1>e DEF SinceOldest, InPage
<1>7. Counted'
    <2>1. \A r \in Records : ToSend(r)' <=> ToSend(r) BY <1>a, <1>b, <1>e DEF ToSend
    <2>2. Mark' = stateFile /\ Mark = stateFile
        <3>1. gap => stateFile # Torn BY <1>c, <1>h, TornId
        <3> QED BY <3>1, <1>a, <1>b, <1>c, <1>e DEF Mark, Past
    <2>3. \A r \in Records : ToQueue(r)' <=> ToQueue(r) BY <2>2, <1>a, <1>b, <1>c, <1>e DEF ToQueue, Beyond
    <2>4. CASE trouble' = trouble BY <2>1, <2>3, <2>4, <1>0, <1>1, <1>b, <1>f, <1>n, CountSame
    <2>5. CASE trouble' = trouble + 1 BY <2>1, <2>3, <2>5, <1>0, <1>1, <1>b, <1>f, CountSame
    <2> QED BY <2>4, <2>5, <1>d
<1> QED BY <1>1, <1>2, <1>3, <1>4, <1>5, <1>6, <1>7 DEF ScriptInv

\* All that has left the log was reported, and the script continues with the rest.
LEMMA RewindInv == ASSUME ScriptAssumption, ScriptInv, Rewind PROVE ScriptInv'
<1>0. Shapes /\ Logged /\ Ordered /\ Paged /\ Queued /\ Accounted /\ Counted BY DEF ScriptInv
<1>a. ps.at = "rewind" /\ ps' = [ps EXCEPT !.at = "page"] BY DEF Rewind
<1>b. UNCHANGED <<log, queue, reads, sends, told>> BY DEF Rewind
<1>c. /\ ps' \in PsSet /\ ps'.at = "page" /\ ps'.last = ps.last /\ ps'.page = {} /\ ps.page = {} /\ ps'.queued = ps.queued
      /\ ps.last # Torn
    <2>1. ps \in PsSet /\ ps.page = {} /\ ps.last # Torn BY <1>0, <1>a DEF Shapes, Paged, Ordered
    <2> QED BY <2>1, <1>a DEF PsSet, States
<1>w. \/ stateFile' = ps.last /\ trouble' = trouble /\ lapse' = lapse
      \/ trouble' = trouble + 1 /\ trouble < MaxTrouble /\ stateFile' = stateFile /\ lapse' = lapse
      \/ trouble' = trouble + 1 /\ trouble < MaxTrouble /\ stateFile' = Torn /\ lapse' = lapse \cup {"torn"}
    BY DEF Rewind, WriteState, Trouble
<1>x. /\ stateFile' \in {stateFile, ps.last, Torn} /\ (lapse' = {} => lapse = {} /\ stateFile' \in {stateFile, ps.last})
      /\ lapse \subseteq lapse' /\ lapse' \subseteq lapse \cup {"torn"} /\ (stateFile' = Torn => "torn" \in lapse')
    BY <1>w, <1>0 DEF Ordered
<1>1. Shapes'
    <2>1. trouble' \in 0 .. MaxTrouble BY <1>w, <1>0, Numbers, Values DEF Shapes
    <2>2. lapse' \subseteq Lapses BY <1>x, <1>0 DEF Shapes, Lapses
    <2>3. stateFile' \in Positions \cup {Torn} BY <1>x, <1>0 DEF Shapes, PsSet
    <2> QED BY <2>1, <2>2, <2>3, <1>0, <1>b, <1>c DEF Shapes, Newest
<1>2. Logged' BY <1>0, <1>b DEF Logged, InLog, Newest
<1>3. Ordered'
    <2>1. InLog(Torn)
        <3>1. 0 <= log.epoch /\ -1 <= Newest BY <1>0, Numbers
        <3> QED BY <3>1, TornId DEF InLog
    <2>2. InLog(stateFile)' BY <2>1, <1>0, <1>b, <1>x DEF Ordered, InLog, Newest
    <2>3. /\ Torn.epoch <= ps.last.epoch /\ (Torn.epoch = log.epoch => Torn.id <= ps.last.id)
          /\ ps.last.epoch <= ps.last.epoch /\ ps.last.id <= ps.last.id
        <3>1. ps.last.epoch \in Nat /\ ps.last.id \in Int /\ -1 <= ps.last.id BY <1>0, Numbers, Values
        <3> QED BY <3>1, TornId
    <2>4. /\ stateFile'.epoch <= ps.last.epoch
          /\ stateFile'.epoch = log.epoch => stateFile'.id <= ps.last.id
        BY <2>3, <1>0, <1>a, <1>x DEF Ordered, Past
    <2>5. InLog(ps.last)' BY <1>0, <1>b, <1>c DEF Ordered, InLog, Newest
    <2> QED BY <2>2, <2>4, <2>5, <1>0, <1>a, <1>b, <1>c, <1>x DEF Ordered, Past
<1>4. Paged' BY <1>c DEF Paged
<1>5. Queued' BY <1>0, <1>a, <1>b, <1>c, <1>x DEF Queued, Once, AtLog, Paging
<1>6. Accounted'
    <2> SUFFICES ASSUME lapse' = {}
                 PROVE  /\ Covered(stateFile)' /\ Covered(ps.last)'
                        /\ BeforeStart' /\ SinceOldest' /\ AtRewind' /\ AtPage' /\ InPage'
        BY DEF Accounted
    <2>0. Covered(stateFile) /\ Covered(ps.last) /\ \A r \in reads : Safe(r)
        BY <1>0, <1>a, <1>x DEF Accounted, AtRewind
    <2>1. \A r : (Noted(r)' <=> Noted(r)) /\ (Retained(r)' <=> Retained(r)) BY <1>b DEF Noted, Kept, Retained, Newest
    <2>2. Covered(stateFile)' /\ Covered(ps.last)' BY <2>0, <2>1, <1>b, <1>c, <1>x DEF Covered
    <2>3. \A r \in reads : Safe(r)' BY <2>0, <2>1 DEF Safe
    <2> QED BY <2>2, <2>3, <1>b, <1>c DEF BeforeStart, SinceOldest, AtRewind, AtPage, InPage
<1>7. Counted'
    <2>1. \A r \in Records : ToSend(r)' <=> ToSend(r) BY <1>a, <1>b, <1>c DEF ToSend
    <2>2. CASE trouble' = trouble
        <3>1. Mark' = ps.last BY <2>2, <1>0, <1>c, <1>w, Numbers DEF Mark
        <3>2. \A r \in Records : ToQueue(r)' => ToQueue(r)
            BY <3>1, <1>0, <1>a, <1>b, <1>c, MarkMoves DEF ToQueue, Past
        <3> QED BY <2>1, <2>2, <3>2, <1>0, <1>1, <1>b, Numbers, <1>x, CountSame
    <2>3. CASE trouble' = trouble + 1 BY <2>1, <2>3, <1>0, <1>1, <1>b, <1>x, CountSame
    <2> QED BY <2>2, <2>3, <1>w
<1> QED BY <1>1, <1>2, <1>3, <1>4, <1>5, <1>6, <1>7 DEF ScriptInv

\* The page has what follows the checkpoint without a hole.
LEMMA FetchPageInv == ASSUME ScriptAssumption, ScriptInv, FetchPage PROVE ScriptInv'
<1>0. Shapes /\ Logged /\ Ordered /\ Paged /\ Queued /\ Accounted /\ Counted BY DEF ScriptInv
<1>n. /\ log.epoch \in Nat /\ log.oldest \in Nat /\ Newest \in Nat /\ trouble \in Nat /\ MaxTrouble \in Nat
      /\ ps.last.epoch \in Nat /\ ps.last.id \in Int
      /\ \A r \in Records : r.epoch \in Nat /\ r.id \in Nat /\ r.id >= 2 BY <1>0, Numbers, Values
<1>a. ps.at = "page" /\ ps.page = {} BY <1>0 DEF FetchPage, Paged
<1>b. UNCHANGED <<log, stateFile, queue, reads, sends, told>> BY DEF FetchPage, files
<1>c. \A i \in Unseen : /\ i \in Nat /\ i <= Newest /\ i > ps.last.id /\ ps.last.id >= 0 /\ Record(log.epoch, i) \in Records
                        /\ Record(log.epoch, i).epoch = log.epoch /\ Record(log.epoch, i).id = i
    <2> SUFFICES ASSUME NEW i \in Unseen
                 PROVE /\ i \in Nat /\ i <= Newest /\ i > ps.last.id /\ ps.last.id >= 0 /\ Record(log.epoch, i) \in Records
                       /\ Record(log.epoch, i).epoch = log.epoch /\ Record(log.epoch, i).id = i OBVIOUS
    <2>1. i \in log.oldest .. Newest /\ i > ps.last.id /\ ps.last.id >= 0 /\ log.objs[i] # "system"
        BY <1>0, UnseenFacts
    <2>2. log.objs[1] = "system" /\ Newest <= MaxRecord /\ MaxRecord \in Nat BY <1>0, Values DEF Shapes
    <2>3. i \in Nat /\ i <= Newest BY <2>1, <1>n
    <2>4. i # 1 BY <2>1, <2>2
    <2>5. i # 0 BY <2>1, <1>n
    <2>6. i \in 2 .. MaxRecord BY <2>2, <2>3, <2>4, <2>5, <1>n
    <2>7. log.epoch \in 0 .. MaxClears BY <1>0, Values
    <2> QED BY <2>1, <2>3, <2>6, <2>7 DEF Record, Records
<1>d. /\ ps' \in PsSet /\ ps'.last = ps.last /\ ps'.queued = ps.queued
      /\ \/ /\ ps'.page = {Record(log.epoch, i) : i \in Unseen} /\ trouble' = trouble
            /\ ps'.at = IF Unseen = {} THEN "deliver" ELSE "enqueue"
            /\ lapse' = IF Regrown THEN lapse \cup {"regrown"} ELSE lapse
         \/ /\ ps'.page = {} /\ trouble' = trouble + 1 /\ trouble < MaxTrouble
            /\ ps'.at = "deliver" /\ lapse' = lapse
    <2>1. ps \in PsSet BY <1>0 DEF Shapes
    <2>2. CASE /\ ps' = [ps EXCEPT !.at = IF Unseen = {} THEN "deliver" ELSE "enqueue",
                                   !.page = {Record(log.epoch, i) : i \in Unseen},
                                   !.more = Cardinality(Unseen) = MaxEvents]
               /\ lapse' = IF Regrown THEN lapse \cup {"regrown"} ELSE lapse
               /\ UNCHANGED trouble
        <3>1. {Record(log.epoch, i) : i \in Unseen} \subseteq Records BY <1>c
        <3>2. (Cardinality(Unseen) = MaxEvents) \in BOOLEAN OBVIOUS
        <3> QED BY <2>1, <2>2, <3>1, <3>2 DEF PsSet, States
    <2>3. CASE Trouble /\ ps' = [ps EXCEPT !.at = "deliver"] /\ UNCHANGED lapse
        BY <2>1, <2>3, <1>a DEF PsSet, States, Trouble
    <2> QED BY <2>2, <2>3 DEF FetchPage
<1>e. /\ \A p \in ps'.page : p \in Records /\ p.epoch = log.epoch /\ p.id > ps.last.id /\ p.id <= Newest
                                /\ p.id \in Unseen /\ ps.last.id >= 0
      /\ ps'.page # {} => ps'.at = "enqueue"
      /\ ps'.at = "enqueue" => ps'.page # {}
      /\ ps'.at \in {"deliver", "enqueue"}
    <2>1. CASE ps'.page = {} /\ ps'.at = "deliver" BY <2>1
    <2>2. CASE ps'.page = {Record(log.epoch, i) : i \in Unseen} /\ ps'.at = IF Unseen = {} THEN "deliver" ELSE "enqueue"
        BY <2>2, <1>c
    <2> QED BY <2>1, <2>2, <1>d
<1>f. lapse \subseteq lapse' /\ lapse' \subseteq lapse \cup {"regrown"} /\ (lapse' = {} => lapse = {}) BY <1>d
<1>1. Shapes'
    <2>1. trouble' \in 0 .. MaxTrouble BY <1>0, <1>d, <1>n DEF Shapes
    <2>2. lapse' \subseteq Lapses BY <1>f, <1>0 DEF Shapes, Lapses
    <2>3. ps' \in PsSet BY <1>d
    <2> QED BY <2>1, <2>2, <2>3, <1>0, <1>b DEF Shapes, Newest
<1>2. Logged' BY <1>0, <1>b DEF Logged, InLog, Newest
<1>3. Ordered'
    <2>1. ps'.last = ps.last /\ Past BY <1>a, <1>d DEF Past
    <2> QED BY <2>1, <1>0, <1>b, <1>e, <1>f DEF Ordered, Past, InLog, Newest
<1>4. Paged'
    <2>1. \A p \in ps'.page : InLog(p)' /\ ps'.last # Torn /\ ps'.last.epoch <= p.epoch /\ ps'.last.id < p.id /\ ps'.last.id <= p.id
        <3> SUFFICES ASSUME NEW p \in ps'.page
                     PROVE  InLog(p)' /\ ps'.last # Torn /\ ps'.last.epoch <= p.epoch /\ ps'.last.id < p.id /\ ps'.last.id <= p.id OBVIOUS
        <3>1. p \in Records /\ p.epoch = log.epoch /\ p.id > ps.last.id /\ p.id <= Newest /\ ps.last.id >= 0 BY <1>e
        <3>2. p.id \in Nat /\ log.epoch <= log.epoch BY <3>1, <1>n
        <3>3. InLog(p)' BY <3>1, <3>2, <1>b DEF InLog, Newest
        <3>4. ps.last # Torn BY <3>1, TornId
        <3>5. ps.last.epoch <= log.epoch BY <1>0 DEF Ordered, InLog
        <3>6. ps.last.id < p.id /\ ps.last.id <= p.id BY <3>1, <3>2, <1>n
        <3> QED BY <3>1, <3>3, <3>4, <3>5, <3>6, <1>d
    <2>2. \A p, q \in ps'.page : p.epoch = q.epoch BY <1>e
    <2> QED BY <2>1, <2>2, <1>e DEF Paged
<1>5. Queued'
    <2>1. AtLog BY <1>a DEF AtLog, Paging
    <2> QED BY <2>1, <1>0, <1>b, <1>d, <1>e, <1>f DEF Queued, Once, AtLog
<1>6. Accounted'
    <2> SUFFICES ASSUME lapse' = {}
                 PROVE  /\ Covered(stateFile)' /\ Covered(ps.last)'
                        /\ BeforeStart' /\ SinceOldest' /\ AtRewind' /\ AtPage' /\ InPage'
        BY DEF Accounted
    <2>0. Covered(stateFile) /\ Covered(ps.last) /\ BeforeStart /\ AtPage BY <1>0, <1>f DEF Accounted
    <2>1. \A r : (Noted(r)' <=> Noted(r)) /\ (Retained(r)' <=> Retained(r)) BY <1>b DEF Noted, Kept, Retained, Newest
    <2>2. Covered(stateFile)' /\ Covered(ps.last)' BY <2>0, <2>1, <1>b, <1>d DEF Covered
    <2>3. BeforeStart' BY <2>0, <2>1, <1>a, <1>b DEF BeforeStart, Safe
    <2>4. InPage'
        <3> SUFFICES ASSUME NEW p \in ps'.page, NEW r \in reads, r.epoch = p.epoch,
                            (r.epoch = log.epoch /\ ~Retained(r)) \/ r.id < p.id, ~Noted(r)
                     PROVE  r \in ps'.page
            BY <2>1, <1>b DEF InPage
        <3>1. p.id > ps.last.id /\ p.id <= Newest /\ p.id \in Unseen /\ r.epoch = log.epoch /\ ps.last.id >= 0 BY <1>e
        <3>2. r \in Records /\ r.id \in Nat /\ r.id >= 2 /\ p.id \in Nat BY <1>0, <1>c, <1>n, <3>1 DEF Shapes
        <3>3. ps.last.epoch = log.epoch \/ ps.last.id = 0
            <4>1. ~Regrown
                <5>1. ps'.page # {} OBVIOUS
                <5> QED BY <5>1, <1>d
            <4>2. Newest >= ps.last.id BY <3>1, <3>2, <1>n
            <4>3. ps.last.id > 0 \/ ps.last.id = 0 BY <3>1, <1>n
            <4> QED BY <4>1, <4>2, <4>3 DEF Regrown
        <3>4. Retained(r) BY <3>1, <3>3, <2>0, <1>a DEF AtPage, Safe
        <3>5. r.id < p.id BY <3>4
        <3>6. r.id > ps.last.id
            <4>1. CASE ps.last.id = 0 BY <4>1, <3>2
            <4>2. CASE ps.last.epoch = log.epoch
                <5>1. ~(r.id <= ps.last.id) BY <4>2, <3>1, <2>0 DEF Covered
                <5> QED BY <5>1, <3>2, <1>n
            <4> QED BY <4>1, <4>2, <3>3
        <3>7. r.id \in log.oldest .. Newest /\ log.objs[r.id] # "system" BY <3>1, <3>4, <1>0 DEF Retained, Logged
        <3>8. r.id \in Unseen BY <3>1, <3>5, <3>6, <3>7, <1>0, UnseenFacts
        <3>9. r = Record(log.epoch, r.id) BY <3>1, <3>2, <3>8, <1>c, SameRecord
        <3>10. ps'.page = {Record(log.epoch, i) : i \in Unseen} BY <1>d
        <3> QED BY <3>8, <3>9, <3>10
    <2> QED BY <2>2, <2>3, <2>4, <1>e DEF SinceOldest, AtRewind, AtPage
<1>7. Counted'
    <2>1. \A r \in Records : ToSend(r)' <=> ToSend(r) BY <1>a, <1>b, <1>e DEF ToSend
    <2>2. CASE trouble' = trouble
        <3> SUFFICES ASSUME NEW r \in Records, ToQueue(r)' PROVE ToQueue(r)
            BY <2>1, <2>2, <1>0, <1>1, <1>b, <1>n, <1>f, CountSame
        <3>1. CASE r \in ps'.page
            <4>1. r.epoch = log.epoch /\ r.id > ps.last.id /\ ps.last.id >= 0 BY <3>1, <1>e
            <4>2. ps.last.epoch <= log.epoch BY <1>0 DEF Ordered, InLog
            <4>3. Beyond(r, ps.last) BY <4>1, <4>2, <1>n DEF Beyond
            <4>4. r.epoch >= log.epoch BY <4>1, <1>n
            <4>5. Beyond(r, Mark) BY <4>3, <4>4, <1>0, <1>a, MarkMoves DEF Past
            <4> QED BY <4>4, <4>5, <1>a DEF ToQueue
        <3>2. CASE r.epoch >= log.epoch /\ Beyond(r, Mark)'
            <4>1. Beyond(r, Mark)
                <5>1. CASE stateFile = Torn
                    <6>1. Mark' = ps.last \/ Mark' = Torn BY <5>1, <1>b, <1>d DEF Mark
                    <6>2. Mark = ps.last BY <5>1, <1>a DEF Mark, Past
                    <6> QED BY <6>1, <6>2, <3>2, TornId DEF Beyond
                <5>2. CASE stateFile # Torn BY <5>2, <3>2, <1>b DEF Mark, Beyond
                <5> QED BY <5>1, <5>2
            <4> QED BY <4>1, <3>2, <1>a DEF ToQueue
        <3> QED BY <3>1, <3>2, <1>b DEF ToQueue
    <2>3. CASE trouble' = trouble + 1 BY <2>1, <2>3, <1>0, <1>1, <1>b, <1>f, CountSame
    <2> QED BY <2>2, <2>3, <1>d
<1> QED BY <1>1, <1>2, <1>3, <1>4, <1>5, <1>6, <1>7 DEF ScriptInv

\* A read takes its place in the queue, and what is below it in the log is there
\* already.
LEMMA EnqueueInv == ASSUME ScriptAssumption, ScriptInv, Enqueue PROVE ScriptInv'
<1>0. Shapes /\ Logged /\ Ordered /\ Paged /\ Queued /\ Accounted /\ Counted BY DEF ScriptInv
<1>n. /\ trouble \in Nat /\ MaxTrouble \in Nat /\ ps.last.epoch \in Nat /\ ps.last.id \in Int
      /\ stateFile.epoch \in Nat /\ stateFile.id \in Int
      /\ \A r \in Records : r.epoch \in Nat /\ r.id \in Nat /\ r.id >= 2 BY <1>0, Numbers, Values
<1>p. ps.at = "enqueue" /\ ps.page # {} /\ ps.page \subseteq Records BY <1>0, Numbers DEF Enqueue, Paged
<1>r. PICK r \in Records : r = FirstOf(ps.page) BY <1>p, FirstFacts
<1> DEFINE new == r \in reads /\ r \notin ps.queued
<1>a. /\ ps.at = "enqueue" /\ ps.page # {} /\ r \in ps.page /\ r \in Records /\ \A s \in ps.page : s \in Records /\ r.id <= s.id
    BY <1>p, <1>r, FirstFacts
<1>b. UNCHANGED <<log, stateFile, reads, sends, told>> BY DEF Enqueue
<1>d. /\ \/ /\ queue' = IF new THEN Append(queue, r) ELSE queue
            /\ trouble' = trouble /\ lapse' = lapse
         \/ new /\ trouble < MaxTrouble /\ trouble' = trouble + 1 /\ lapse' = lapse \cup {"full"} /\ queue' = queue
      /\ ps' = [ps EXCEPT !.at = "advance", !.last = r, !.queued = IF new THEN @ \cup {r} ELSE @]
    BY <1>r DEF Enqueue, Trouble
<1>c. /\ ps' \in PsSet /\ ps'.at = "advance" /\ ps'.last = r /\ ps'.page = ps.page
      /\ ps'.queued = IF new THEN ps.queued \cup {r} ELSE ps.queued
    <2>1. ps \in PsSet BY <1>0 DEF Shapes
    <2>2. r.epoch \in 0 .. MaxClears /\ r.id \in 0 .. MaxRecord /\ r = Record(r.epoch, r.id)
        <3>1. r.epoch \in 0 .. MaxClears /\ r.id \in 2 .. MaxRecord /\ MaxRecord \in Nat BY <1>0, <1>a, Values DEF Records
        <3>2. r = Record(r.epoch, r.id) BY <1>a DEF Record, Records
        <3> QED BY <3>1, <3>2, <1>n, <1>a
    <2>3. r \in Positions BY <2>2 DEF Record, Positions
    <2>4. (IF new THEN ps.queued \cup {r} ELSE ps.queued) \subseteq Records BY <2>1, <1>a DEF PsSet
    <2> HIDE DEF new
    <2> QED BY <2>1, <2>3, <2>4, <1>d DEF PsSet, States
<1>e. /\ queue' \in Seq(Records)
      /\ \/ queue' = queue
         \/ new /\ ToSet(queue)' = ToSet(queue) \cup {r} /\ (Distinct(queue) /\ r \notin ToSet(queue) => Distinct(queue)')
    <2>1. queue \in Seq(Records) BY <1>0 DEF Shapes
    <2>2. CASE queue' = queue BY <2>1, <2>2
    <2>3. CASE queue' = Append(queue, r) /\ new BY <2>1, <2>3, <1>a, AppendLine
    <2> QED BY <2>2, <2>3, <1>d
<1>f. /\ lapse \subseteq lapse' /\ lapse' \subseteq lapse \cup {"full"} /\ (lapse' = {} => lapse = {})
      /\ lapse' = {} /\ new => ToSet(queue)' = ToSet(queue) \cup {r}
    <2>1. queue \in Seq(Records) BY <1>0 DEF Shapes
    <2>2. queue' = Append(queue, r) => ToSet(queue)' = ToSet(queue) \cup {r} BY <2>1, <1>a, AppendLine
    <2> QED BY <2>2, <1>d
<1>g. /\ InLog(r) /\ ps.last # Torn /\ ps.last.epoch <= r.epoch /\ ps.last.id < r.id /\ r # Torn
      /\ \A s \in ps.page : s.epoch = r.epoch
    <2>1. r # Torn BY <1>a, <1>n, TornId
    <2> QED BY <2>1, <1>0, <1>a DEF Paged
<1>1. Shapes'
    <2>1. trouble' \in 0 .. MaxTrouble BY <1>0, <1>d, <1>n DEF Shapes
    <2>2. lapse' \subseteq Lapses BY <1>f, <1>0 DEF Shapes, Lapses
    <2>3. ps' \in PsSet /\ queue' \in Seq(Records) BY <1>c, <1>e
    <2> QED BY <2>1, <2>2, <2>3, <1>0, <1>b DEF Shapes, Newest
<1>2. Logged' BY <1>0, <1>b DEF Logged, InLog, Newest
<1>3. Ordered'
    <2>1. /\ stateFile.epoch <= ps.last.epoch /\ (stateFile.epoch = log.epoch => stateFile.id <= ps.last.id)
        BY <1>0, <1>a DEF Ordered, Past
    <2>2. /\ stateFile.epoch <= r.epoch /\ (stateFile.epoch = log.epoch => stateFile.id <= r.id)
        BY <2>1, <1>a, <1>g, <1>n
    <2>3. InLog(stateFile)' /\ InLog(ps.last)' BY <1>0, <1>b, <1>c, <1>g DEF Ordered, InLog, Newest
    <2>4. Torn \in {stateFile, ps.last}' => "torn" \in lapse' BY <1>0, <1>b, <1>c, <1>f, <1>g DEF Ordered
    <2> QED BY <2>2, <2>3, <2>4, <1>b, <1>c, <1>g DEF Ordered, Past
<1>4. Paged'
    <2>1. \A s \in ps.page : InLog(s)' BY <1>0, <1>b DEF Paged, InLog, Newest
    <2>2. \A s \in ps.page : r.epoch <= s.epoch
        <3> SUFFICES ASSUME NEW s \in ps.page PROVE r.epoch <= s.epoch OBVIOUS
        <3>1. s.epoch = r.epoch /\ r.epoch \in Nat BY <1>a, <1>g, <1>n
        <3> QED BY <3>1
    <2> QED BY <2>1, <2>2, <1>0, <1>a, <1>c, <1>g DEF Paged
<1>5. Queued'
    <2>1. ToSet(queue)' \subseteq reads
        <3>1. CASE queue' = queue BY <3>1, <1>0 DEF Queued
        <3>2. CASE queue' # queue BY <3>2, <1>0, <1>e DEF Queued
        <3> QED BY <3>1, <3>2
    <2>2. ASSUME lapse' = {} PROVE ps'.queued = ToSet(queue)'
        <3>1. ps.queued = ToSet(queue) BY <2>2, <1>0, <1>a, <1>f DEF Queued, AtLog, Paging
        <3>2. CASE new BY <2>2, <3>1, <3>2, <1>c, <1>f
        <3>3. CASE ~new BY <3>1, <3>3, <1>c, <1>d
        <3> QED BY <3>2, <3>3
    <2>3. ASSUME "unread" \notin lapse' PROVE Distinct(queue)' /\ ToSet(queue)' \subseteq ps'.queued
        <3>1. ToSet(queue) \subseteq ps.queued /\ Distinct(queue)
            BY <2>3, <1>0, <1>a, <1>f DEF Queued, Once, AtLog, Paging
        <3>2. CASE queue' = queue BY <3>1, <3>2, <1>c
        <3>3. CASE queue' # queue BY <3>1, <3>3, <1>c, <1>e
        <3> QED BY <3>2, <3>3
    <2> QED BY <2>1, <2>2, <2>3, <1>b, <1>c DEF Queued, Once
<1>6. Accounted'
    <2> SUFFICES ASSUME lapse' = {}
                 PROVE  /\ Covered(stateFile)' /\ Covered(ps.last)'
                        /\ BeforeStart' /\ SinceOldest' /\ AtRewind' /\ AtPage' /\ InPage'
        BY DEF Accounted
    <2>0. Covered(stateFile) /\ BeforeStart /\ InPage BY <1>0, <1>f DEF Accounted
    <2>1. \A s : (Noted(s) => Noted(s)') /\ (Retained(s)' <=> Retained(s))
        <3>1. ToSet(queue) \subseteq ToSet(queue)' BY <1>e
        <3> QED BY <3>1, <1>b DEF Noted, Kept, Retained, Newest
    <2>2. Covered(stateFile)' BY <2>0, <2>1, <1>b DEF Covered
    <2>3. BeforeStart' BY <2>0, <2>1, <1>b, <1>c DEF BeforeStart, Safe
    <2>4. InPage' BY <2>0, <2>1, <1>b, <1>c DEF InPage
    <2>5. r \in reads => Noted(r)'
        <3>1. CASE new BY <3>1, <1>f DEF Noted, Kept
        <3>2. CASE ~new
            <4>1. lapse = {} /\ ps.queued = ToSet(queue) BY <1>0, <1>a, <1>f DEF Queued, AtLog, Paging
            <4> QED BY <4>1, <3>2, <2>1 DEF Noted, Kept
        <3> QED BY <3>1, <3>2
    <2>6. Covered(ps.last)'
        <3> SUFFICES ASSUME NEW s \in reads, s.epoch = r.epoch, s.id <= r.id PROVE Noted(s)'
            BY <1>b, <1>c DEF Covered
        <3>1. s \in Records /\ s.id \in Nat /\ r.id \in Nat BY <1>0, <1>a, <1>n DEF Shapes
        <3>2. CASE s.id = r.id
            <4>1. s = r BY <3>1, <3>2, <1>a, SameRecord
            <4> QED BY <4>1, <2>5
        <3>3. CASE s.id # r.id
            <4>1. s.id < r.id BY <3>1, <3>3
            <4>2. s \notin ps.page
                <5> SUFFICES ASSUME s \in ps.page PROVE FALSE OBVIOUS
                <5>1. r.id <= s.id BY <1>a
                <5> QED BY <5>1, <4>1, <3>1
            <4> QED BY <4>1, <4>2, <2>0, <2>1, <1>a DEF InPage
        <3> QED BY <3>2, <3>3
    <2> QED BY <2>2, <2>3, <2>4, <2>6, <1>c DEF SinceOldest, AtRewind, AtPage
<1>7. Counted'
    <2>1. \A s \in Records : s # r => (ToSend(s)' <=> ToSend(s))
        <3>1. CASE queue' = queue BY <3>1, <1>a, <1>c DEF ToSend
        <3>2. CASE queue' # queue BY <3>2, <1>a, <1>c, <1>e DEF ToSend
        <3> QED BY <3>1, <3>2
    <2>2. ToQueue(r) /\ ~ToQueue(r)' BY <1>a, <1>c DEF ToQueue
    <2>3. ASSUME NEW s \in Records, ToQueue(s)' PROVE ToQueue(s)
        <3>1. CASE s \in ps.page BY <3>1, <1>a DEF ToQueue
        <3>2. CASE s.epoch >= log.epoch /\ Beyond(s, Mark)'
            <4>1. CASE stateFile # Torn BY <4>1, <3>2, <1>a, <1>b DEF ToQueue, Mark, Beyond
            <4>2. CASE stateFile = Torn
                <5>1. Mark' = r /\ Mark = ps.last BY <4>2, <1>a, <1>b, <1>c DEF Mark, Past
                <5>2. s.epoch > r.epoch \/ (s.epoch = r.epoch /\ s.id > r.id) BY <5>1, <3>2 DEF Beyond
                <5>3. s.epoch > ps.last.epoch \/ (s.epoch = ps.last.epoch /\ s.id > ps.last.id)
                    BY <5>2, <1>a, <1>g, <1>n
                <5>4. ps.last.id >= 0 BY <1>0, <1>g, Numbers
                <5>5. Beyond(s, Mark) BY <5>1, <5>3, <5>4 DEF Beyond
                <5> QED BY <5>5, <3>2, <1>a DEF ToQueue
            <4> QED BY <4>1, <4>2
        <3>3. s \in ps.page \/ (s.epoch >= log.epoch /\ Beyond(s, Mark)') BY <2>3, <1>b, <1>c DEF ToQueue
        <3> QED BY <3>1, <3>2, <3>3
    <2>4. \A s \in Records : ((ToSend(s)' => ToSend(s)) /\ (ToQueue(s)' => ToQueue(s))) \/ (ToQueue(s) /\ ~ToQueue(s)')
        BY <2>1, <2>2, <2>3
    <2>5. CASE trouble' = trouble BY <2>4, <2>5, <1>0, <1>1, <1>b, <1>n, <1>f, CountSame
    <2>6. CASE trouble' = trouble + 1 BY <2>4, <2>6, <1>0, <1>1, <1>b, <1>f, CountSame
    <2> QED BY <2>5, <2>6, <1>d
<1> QED BY <1>1, <1>2, <1>3, <1>4, <1>5, <1>6, <1>7 DEF ScriptInv

\* The checkpoint passes what has just been handled.
LEMMA AdvanceInv == ASSUME ScriptAssumption, ScriptInv, Advance PROVE ScriptInv'
<1>0. Shapes /\ Logged /\ Ordered /\ Paged /\ Queued /\ Accounted /\ Counted BY DEF ScriptInv
<1>n. /\ ps.last.epoch \in Nat /\ ps.last.id \in Int
      /\ \A r \in Records : r.epoch \in Nat /\ r.id \in Nat /\ r.id >= 2 BY <1>0, Numbers
<1>a. /\ ps.at = "advance" /\ ps.last \in ps.page /\ ps.last \in Records /\ ps.last # Torn /\ ps.last.id >= 2
      /\ \A s \in ps.page : s \in Records /\ s.epoch = ps.last.epoch /\ ps.last.id <= s.id
    <2>1. ps.at = "advance" /\ ps.last \in ps.page /\ ps.page \subseteq Records BY <1>0, Numbers DEF Advance, Paged
    <2> QED BY <2>1, <1>0, <1>n DEF Paged
<1>b. UNCHANGED <<log, queue, reads, sends, told>> BY DEF Advance
<1>c. /\ ps' \in PsSet /\ ps'.last = ps.last /\ ps'.page = ps.page \ {ps.last} /\ ps'.queued = ps.queued
      /\ ps'.at \in {"enqueue", "page", "deliver"} /\ (ps'.at = "enqueue" <=> ps'.page # {})
    <2>1. ps \in PsSet BY <1>0 DEF Shapes
    <2>2. ps' = [ps EXCEPT !.page = ps.page \ {ps.last},
                           !.at = IF ps.page \ {ps.last} # {} THEN "enqueue"
                                  ELSE IF ps.more THEN "page" ELSE "deliver"] BY DEF Advance
    <2>3. ps.page \ {ps.last} \subseteq Records BY <1>a
    <2> QED BY <2>1, <2>2, <2>3 DEF PsSet, States
<1>w. \/ stateFile' = ps.last /\ trouble' = trouble /\ lapse' = lapse
      \/ trouble' = trouble + 1 /\ trouble < MaxTrouble /\ stateFile' = stateFile /\ lapse' = lapse
      \/ trouble' = trouble + 1 /\ trouble < MaxTrouble /\ stateFile' = Torn /\ lapse' = lapse \cup {"torn"}
    BY DEF Advance, WriteState, Trouble
<1>x. /\ stateFile' \in {stateFile, ps.last, Torn} /\ (lapse' = {} => lapse = {} /\ stateFile' \in {stateFile, ps.last})
      /\ lapse \subseteq lapse' /\ lapse' \subseteq lapse \cup {"torn"} /\ (stateFile' = Torn => "torn" \in lapse')
    BY <1>w, <1>0 DEF Ordered
<1>1. Shapes'
    <2>1. trouble' \in 0 .. MaxTrouble BY <1>w, <1>0, Numbers, Values DEF Shapes
    <2>2. lapse' \subseteq Lapses BY <1>x, <1>0 DEF Shapes, Lapses
    <2>3. stateFile' \in Positions \cup {Torn} BY <1>x, <1>0 DEF Shapes, PsSet
    <2> QED BY <2>1, <2>2, <2>3, <1>0, <1>b, <1>c DEF Shapes, Newest
<1>2. Logged' BY <1>0, <1>b DEF Logged, InLog, Newest
<1>3. Ordered'
    <2>1. InLog(Torn)
        <3>1. 0 <= log.epoch /\ -1 <= Newest BY <1>0, Numbers
        <3> QED BY <3>1, TornId DEF InLog
    <2>2. InLog(stateFile)' BY <2>1, <1>0, <1>b, <1>x DEF Ordered, InLog, Newest
    <2>3. /\ Torn.epoch <= ps.last.epoch /\ (Torn.epoch = log.epoch => Torn.id <= ps.last.id)
          /\ ps.last.epoch <= ps.last.epoch /\ ps.last.id <= ps.last.id
        <3>1. ps.last.epoch \in Nat /\ ps.last.id \in Int /\ -1 <= ps.last.id BY <1>0, Numbers, Values
        <3> QED BY <3>1, TornId
    <2>4. /\ stateFile'.epoch <= ps.last.epoch
          /\ stateFile'.epoch = log.epoch => stateFile'.id <= ps.last.id
        BY <2>3, <1>0, <1>a, <1>x DEF Ordered, Past
    <2>5. InLog(ps.last)' BY <1>0, <1>b, <1>c DEF Ordered, InLog, Newest
    <2> QED BY <2>2, <2>4, <2>5, <1>0, <1>a, <1>b, <1>c, <1>x DEF Ordered, Past
<1>4. Paged'
    <2>1. ASSUME NEW s \in ps'.page
          PROVE /\ InLog(s)' /\ ps'.last # Torn /\ ps'.last.epoch <= s.epoch /\ ps'.last.id <= s.id /\ ps'.last.id < s.id
        <3>1. s \in ps.page /\ s # ps.last /\ s \in Records BY <1>a, <1>c
        <3>2. InLog(s) /\ ps.last.epoch <= s.epoch /\ ps.last.id <= s.id BY <3>1, <1>0 DEF Paged
        <3>3. ps.last.id # s.id BY <3>1, <1>a, SameRecord
        <3>4. ps.last.id < s.id BY <3>1, <3>2, <3>3, <1>n
        <3> QED BY <3>2, <3>4, <1>a, <1>b, <1>c DEF InLog, Newest
    <2>2. \A r, s \in ps'.page : r.epoch = s.epoch BY <1>a, <1>c
    <2> QED BY <2>1, <2>2, <1>c DEF Paged
<1>5. Queued' BY <1>0, <1>a, <1>b, <1>c, <1>x DEF Queued, Once, AtLog, Paging
<1>6. Accounted'
    <2> SUFFICES ASSUME lapse' = {}
                 PROVE  /\ Covered(stateFile)' /\ Covered(ps.last)'
                        /\ BeforeStart' /\ SinceOldest' /\ AtRewind' /\ AtPage' /\ InPage'
        BY DEF Accounted
    <2>0. Covered(stateFile) /\ Covered(ps.last) /\ BeforeStart /\ InPage BY <1>0, <1>x DEF Accounted
    <2>1. \A r : (Noted(r)' <=> Noted(r)) /\ (Retained(r)' <=> Retained(r)) BY <1>b DEF Noted, Kept, Retained, Newest
    <2>2. Covered(stateFile)' /\ Covered(ps.last)' BY <2>0, <2>1, <1>b, <1>c, <1>x DEF Covered
    <2>3. ps.last \in reads => Noted(ps.last) BY <2>0, <1>n DEF Covered
    <2>4. BeforeStart'
        <3>1. stateFile'.id = 0 => stateFile' = stateFile BY <1>a, <1>x
        <3> QED BY <3>1, <2>0, <2>1, <2>3, <1>b, <1>c DEF BeforeStart, Safe
    <2>5. InPage' BY <2>0, <2>1, <2>3, <1>b, <1>c DEF InPage
    <2>6. AtPage'
        <3> SUFFICES ASSUME ps'.page = {}, NEW r \in reads, r.epoch = log.epoch, ps.last.epoch = log.epoch \/ ps.last.id = 0
                     PROVE  Safe(r)
            BY <2>1, <1>b, <1>c DEF AtPage, Safe
        <3>1. ps.last.epoch = log.epoch BY <1>a
        <3>2. \A s \in ps.page : s = ps.last BY <1>c
        <3>3. Retained(r) \/ Noted(r) \/ r \in ps.page BY <3>1, <2>0, <1>a DEF InPage
        <3> QED BY <3>2, <3>3, <2>3 DEF Safe
    <2> QED BY <2>2, <2>4, <2>5, <2>6, <1>c DEF SinceOldest, AtRewind
<1>7. Counted'
    <2>1. \A r \in Records : ToSend(r)' <=> ToSend(r) BY <1>a, <1>b, <1>c DEF ToSend
    <2>2. CASE trouble' = trouble
        <3>1. Mark' = ps.last BY <2>2, <1>0, <1>c, <1>w, Numbers DEF Mark
        <3> SUFFICES ASSUME NEW r \in Records, ToQueue(r)' PROVE ToQueue(r)
            BY <2>1, <2>2, <1>0, <1>1, <1>b, Numbers, <1>x, CountSame
        <3>2. CASE r \in ps'.page BY <3>2, <1>c DEF ToQueue
        <3>3. CASE r.epoch >= log.epoch /\ Beyond(r, ps.last)
            <4>1. Beyond(r, Mark) BY <3>3, <1>0, <1>a, MarkMoves DEF Past
            <4>2. r # ps.last BY <3>3, <1>n DEF Beyond
            <4> QED BY <4>1, <4>2, <3>3 DEF ToQueue
        <3> QED BY <3>1, <3>2, <3>3, <1>b DEF ToQueue, Beyond
    <2>3. CASE trouble' = trouble + 1 BY <2>1, <2>3, <1>0, <1>1, <1>b, <1>x, CountSame
    <2> QED BY <2>2, <2>3, <1>w
<1> QED BY <1>1, <1>2, <1>3, <1>4, <1>5, <1>6, <1>7 DEF ScriptInv

\* All of the queue is to be sent, if it can be read.
LEMMA ReadQueueInv == ASSUME ScriptAssumption, ScriptInv, ReadQueue PROVE ScriptInv'
<1>0. Shapes /\ Logged /\ Ordered /\ Paged /\ Queued /\ Accounted /\ Counted BY DEF ScriptInv
<1>n. trouble \in Nat /\ MaxTrouble \in Nat BY <1>0, Numbers, Values
<1>a. /\ ps.at = "deliver"
      /\ \/ /\ ps' = [ps EXCEPT !.at = IF queue = <<>> THEN "top" ELSE "send", !.pending = queue, !.remaining = <<>>]
            /\ trouble' = trouble /\ lapse' = lapse
         \/ /\ ps' = [ps EXCEPT !.at = "send", !.pending = <<>>, !.remaining = <<>>]
            /\ trouble' = trouble + 1 /\ trouble < MaxTrouble /\ lapse' = lapse \cup {"dropped"} BY DEF ReadQueue, Trouble
<1>b. UNCHANGED <<log, stateFile, queue, reads, sends, told>> BY DEF ReadQueue, files
<1>c. /\ ps' \in PsSet /\ ps'.at \in {"top", "send"} /\ ps'.last = ps.last /\ ps'.page = {} /\ ps.page = {}
      /\ ps'.remaining = <<>>
      /\ \/ ps'.pending = queue /\ trouble' = trouble /\ lapse' = lapse
         \/ /\ ps'.pending = <<>> /\ ps'.at = "send" /\ lapse' = lapse \cup {"dropped"}
            /\ trouble' = trouble + 1 /\ trouble < MaxTrouble
    <2>1. ps \in PsSet /\ ps.page = {} BY <1>0, <1>a DEF Shapes, Paged
    <2>2. queue \in Seq(Records) /\ <<>> \in Seq(Records) BY <1>0 DEF Shapes
    <2> QED BY <2>1, <2>2, <1>a DEF PsSet, States
<1>f. lapse \subseteq lapse' /\ lapse' \subseteq lapse \cup {"dropped"} /\ (lapse' = {} => lapse = {} /\ ps'.pending = queue)
    BY <1>c
<1>1. Shapes'
    <2>1. trouble' \in 0 .. MaxTrouble BY <1>c, <1>n, <1>0 DEF Shapes
    <2>2. lapse' \subseteq Lapses BY <1>f, <1>0 DEF Shapes, Lapses
    <2> QED BY <2>1, <2>2, <1>0, <1>b, <1>c DEF Shapes, Newest
<1>2. Logged' BY <1>0, <1>b DEF Logged, InLog, Newest
<1>3. Ordered' BY <1>0, <1>b, <1>c, <1>f DEF Ordered, Past, InLog, Newest
<1>4. Paged' BY <1>c DEF Paged
<1>5. Queued' BY <1>0, <1>b, <1>c, <1>f, NoLine DEF Queued, Once, AtLog, Paging
<1>6. Accounted'
    <2>1. \A r : (Noted(r)' <=> Noted(r)) /\ (Retained(r)' <=> Retained(r)) BY <1>b DEF Noted, Kept, Retained, Newest
    <2> QED BY <2>1, <1>0, <1>b, <1>c, <1>f
        DEF Accounted, Covered, BeforeStart, SinceOldest, AtRewind, AtPage, InPage, Safe
<1>7. Counted'
    <2>1. \A r \in Records : ToSend(r)' => ToSend(r) BY <1>a, <1>b, <1>c, NoLine DEF ToSend
    <2>2. \A r \in Records : ToQueue(r)' <=> ToQueue(r) BY <1>a, <1>b, <1>c DEF ToQueue, Beyond, Mark, Past
    <2>3. CASE trouble' = trouble BY <2>1, <2>2, <2>3, <1>0, <1>1, <1>b, <1>f, <1>n, CountSame
    <2>4. CASE trouble' = trouble + 1 BY <2>1, <2>2, <2>4, <1>0, <1>1, <1>b, <1>f, CountSame
    <2> QED BY <2>3, <2>4, <1>c
<1> QED BY <1>1, <1>2, <1>3, <1>4, <1>5, <1>6, <1>7 DEF ScriptInv

\* The line that was accepted is not sent again.
LEMMA SendInv == ASSUME ScriptAssumption, ScriptInv, Send PROVE ScriptInv'
<1>0. Shapes /\ Logged /\ Ordered /\ Paged /\ Queued /\ Accounted /\ Counted BY DEF ScriptInv
<1>l. PICK line : line = Head(ps.pending) OBVIOUS
<1>a. /\ ps.at = "send" /\ ps.pending # <<>> /\ sends' = [sends EXCEPT ![line] = @ + 1]
      /\ ps' = [ps EXCEPT !.pending = Tail(@), !.remaining = Delivered(line)] BY <1>l DEF Send
<1>b. UNCHANGED <<log, stateFile, queue, trouble, reads, told, lapse>> BY DEF Send, files
<1>d. /\ line \in Records /\ Tail(ps.pending) \in Seq(Records) /\ line \in ToSet(queue)
      /\ ToSet(ps.pending) = {line} \cup ToSet(Tail(ps.pending))
      /\ "unread" \notin lapse => /\ Distinct(Tail(ps.pending)) /\ line \notin ToSet(Tail(ps.pending))
                                 /\ line \notin ToSet(ps.remaining) /\ Distinct(ps.remaining)
                                 /\ ToSet(Tail(ps.pending)) \cap ToSet(ps.remaining) = {}
    <2>1. ps.pending \in Seq(Records) BY <1>0 DEF Shapes, PsSet
    <2>2. "unread" \notin lapse => /\ Distinct(ps.pending) /\ Distinct(ps.remaining)
                                   /\ ToSet(ps.pending) \cap ToSet(ps.remaining) = {} BY <1>0, <1>a DEF Queued, Once
    <2>3. /\ line \in Records /\ Tail(ps.pending) \in Seq(Records)
          /\ ToSet(ps.pending) = {line} \cup ToSet(Tail(ps.pending))
          /\ Distinct(ps.pending) => Distinct(Tail(ps.pending)) /\ line \notin ToSet(Tail(ps.pending))
        BY <2>1, <1>a, <1>l, TailLine
    <2>4. line \in ToSet(queue) BY <2>3, <1>0, <1>a DEF Queued
    <2> QED BY <2>2, <2>3, <2>4
<1>c. /\ ps' \in PsSet /\ ps'.at = "send" /\ ps'.last = ps.last /\ ps'.page = {} /\ ps.page = {}
      /\ ps'.pending = Tail(ps.pending) /\ ps'.remaining = ps.remaining
    <2>1. ps \in PsSet /\ ps.page = {} BY <1>0, <1>a DEF Shapes, Paged
    <2> QED BY <2>1, <1>a, <1>d DEF PsSet, States, Delivered
<1>e. /\ sends' \in [Records -> Nat] /\ sends'[line] = sends[line] + 1
      /\ \A r \in Records : r # line => sends'[r] = sends[r]
    <2>1. sends \in [Records -> Nat] BY <1>0 DEF Shapes
    <2> QED BY <2>1, <1>a, <1>d
<1>f. \A r \in reads : r \in Records /\ (sends[r] > 0 => sends'[r] > 0)
    <2>1. reads \subseteq Records /\ \A r \in Records : sends[r] \in Nat BY <1>0, Numbers
    <2>2. sends'[line] > 0 BY <2>1, <1>d, <1>e
    <2> QED BY <2>1, <2>2, <1>e
<1>1. Shapes' BY <1>0, <1>b, <1>c, <1>e DEF Shapes, Newest
<1>2. Logged' BY <1>0, <1>b DEF Logged, InLog, Newest
<1>3. Ordered' BY <1>0, <1>b, <1>c DEF Ordered, Past, InLog, Newest
<1>4. Paged' BY <1>c DEF Paged
<1>5. Queued'
    <2>1. sends'[line] > 0
        <3>1. sends[line] \in Nat BY <1>0, <1>d, Numbers
        <3> QED BY <3>1, <1>e
    <2>2. ToSet(queue) \subseteq reads BY <1>0 DEF Queued
    <2>3. lapse = {} => \A r \in ToSet(queue) : r \in ToSet(Tail(ps.pending)) \cup ToSet(ps.remaining) \/ sends'[r] > 0
        BY <2>1, <2>2, <1>0, <1>a, <1>d, <1>f DEF Queued
    <2>4. ToSet(Tail(ps.pending)) \cup ToSet(ps.remaining) \subseteq ToSet(queue) BY <1>0, <1>a, <1>d DEF Queued
    <2>5. "unread" \notin lapse => Distinct(queue) BY <1>0 DEF Queued, Once
    <2> QED BY <2>2, <2>3, <2>4, <2>5, <1>b, <1>c, <1>d DEF Queued, Once, AtLog, Paging
<1>6. Accounted'
    <2>1. \A r \in reads : Noted(r) => Noted(r)' BY <1>b, <1>f DEF Noted, Kept
    <2>2. \A r : Retained(r)' <=> Retained(r) BY <1>b DEF Retained, Newest
    <2> QED BY <2>1, <2>2, <1>0, <1>b, <1>c
        DEF Accounted, Covered, BeforeStart, SinceOldest, AtRewind, AtPage, InPage, Safe
<1>7. Counted'
    <2>1. \A r \in Records : ToQueue(r)' <=> ToQueue(r) BY <1>a, <1>b, <1>c DEF ToQueue, Beyond, Mark, Past
    <2>2. "unread" \notin lapse => ToSend(line) /\ ~ToSend(line)' BY <1>a, <1>c, <1>d DEF ToSend
    <2>3. \A r \in Records : r # line => (ToSend(r)' <=> ToSend(r)) BY <1>a, <1>c, <1>d DEF ToSend
    <2>4. ASSUME "unread" \notin lapse, NEW r \in Records
          PROVE  sends'[r] + Count(ToSend(r)') + Count(ToQueue(r)') <= sends[r] + Count(ToSend(r)) + Count(ToQueue(r)) + 0
        <3> DEFINE a == ToSend(r) b == ToQueue(r) c == ToSend(r)' d == ToQueue(r)'
        <3>1. /\ sends[r] \in Nat /\ sends'[r] \in Nat /\ Count(a) \in Nat /\ Count(b) \in Nat /\ Count(c) \in Nat
              /\ d <=> b BY <2>1, <1>0, <1>1 DEF Count, Shapes
        <3>2. CASE r = line
            <4>1. a /\ ~c /\ sends'[r] = sends[r] + 1 BY <3>2, <2>2, <2>4, <1>e
            <4> HIDE DEF a, b, c, d
            <4>2. Count(a) = 1 /\ Count(c) = 0 /\ Count(d) = Count(b) BY <3>1, <4>1 DEF Count
            <4>3. sends'[r] + Count(c) + Count(d) = sends[r] + 1 + Count(b)
                <5>1. sends'[r] + Count(c) + Count(d) = sends[r] + 1 + 0 + Count(b) BY <4>1, <4>2
                <5>2. \A m, n \in Nat : m + 1 + 0 + n = m + 1 + n OBVIOUS
                <5> QED BY <5>1, <5>2, <3>1
            <4>4. sends[r] + Count(a) + Count(b) + 0 = sends[r] + 1 + Count(b)
                <5>1. sends[r] + Count(a) + Count(b) + 0 = sends[r] + 1 + Count(b) + 0 BY <4>2
                <5>2. \A m, n \in Nat : m + 1 + n + 0 = m + 1 + n OBVIOUS
                <5> QED BY <5>1, <5>2, <3>1
            <4>5. sends[r] + 1 + Count(b) \in Nat BY <3>1
            <4>6. sends'[r] + Count(c) + Count(d) <= sends[r] + Count(a) + Count(b) + 0 BY <4>3, <4>4, <4>5
            <4> QED BY <4>6 DEF a, b, c, d
        <3>3. CASE r # line
            <4>1. (c <=> a) /\ sends'[r] = sends[r] BY <3>3, <2>3, <1>e
            <4> HIDE DEF a, b, c, d
            <4>2. Count(c) = Count(a) /\ Count(d) = Count(b) BY <3>1, <4>1 DEF Count
            <4>3. sends'[r] + Count(c) + Count(d) <= sends[r] + Count(a) + Count(b) + 0 BY <4>1, <4>2, <3>1
            <4> QED BY <4>3 DEF a, b, c, d
        <3> QED BY <3>2, <3>3
    <2>5. trouble' = trouble + 0 BY <1>0, <1>b, Numbers
    <2> QED BY <2>4, <2>5, <1>0, <1>1, <1>b, CountStep
<1> QED BY <1>1, <1>2, <1>3, <1>4, <1>5, <1>6, <1>7 DEF ScriptInv

\* A line that was refused stays; one whose answer is lost is sent once more for it.
LEMMA SendFailsInv == ASSUME ScriptAssumption, ScriptInv, SendFails PROVE ScriptInv'
<1>0. Shapes /\ Logged /\ Ordered /\ Paged /\ Queued /\ Accounted /\ Counted BY DEF ScriptInv
<1>l. PICK line : line = Head(ps.pending) OBVIOUS
<1>a. /\ ps.at = "send" /\ ps.pending # <<>>
      /\ ps' = [ps EXCEPT !.pending = Tail(@), !.remaining = Append(@, line)]
      /\ \/ sends' = sends /\ trouble' = trouble
         \/ trouble < MaxTrouble /\ trouble' = trouble + 1 /\ sends' = [sends EXCEPT ![line] = @ + 1] BY <1>l DEF SendFails, Trouble
<1>b. UNCHANGED <<log, stateFile, queue, reads, told, lapse>> BY DEF SendFails, files
<1>d. /\ line \in Records /\ Tail(ps.pending) \in Seq(Records) /\ line \in ToSet(queue)
      /\ ToSet(ps.pending) = {line} \cup ToSet(Tail(ps.pending))
      /\ "unread" \notin lapse => /\ Distinct(Tail(ps.pending)) /\ line \notin ToSet(Tail(ps.pending))
                                 /\ line \notin ToSet(ps.remaining) /\ Distinct(ps.remaining)
                                 /\ ToSet(Tail(ps.pending)) \cap ToSet(ps.remaining) = {}
    <2>1. ps.pending \in Seq(Records) BY <1>0 DEF Shapes, PsSet
    <2>2. "unread" \notin lapse => /\ Distinct(ps.pending) /\ Distinct(ps.remaining)
                                   /\ ToSet(ps.pending) \cap ToSet(ps.remaining) = {} BY <1>0, <1>a DEF Queued, Once
    <2>3. /\ line \in Records /\ Tail(ps.pending) \in Seq(Records)
          /\ ToSet(ps.pending) = {line} \cup ToSet(Tail(ps.pending))
          /\ Distinct(ps.pending) => Distinct(Tail(ps.pending)) /\ line \notin ToSet(Tail(ps.pending))
        BY <2>1, <1>a, <1>l, TailLine
    <2>4. line \in ToSet(queue) BY <2>3, <1>0, <1>a DEF Queued
    <2> QED BY <2>2, <2>3, <2>4
<1>g. /\ Append(ps.remaining, line) \in Seq(Records)
      /\ ToSet(Append(ps.remaining, line)) = ToSet(ps.remaining) \cup {line}
      /\ "unread" \notin lapse => Distinct(Append(ps.remaining, line))
    <2>1. ps.remaining \in Seq(Records) BY <1>0 DEF Shapes, PsSet
    <2> QED BY <2>1, <1>d, AppendLine
<1>c. /\ ps' \in PsSet /\ ps'.at = "send" /\ ps'.last = ps.last /\ ps'.page = {} /\ ps.page = {}
      /\ ps'.pending = Tail(ps.pending) /\ ps'.remaining = Append(ps.remaining, line)
    <2>1. ps \in PsSet /\ ps.page = {} BY <1>0, <1>a DEF Shapes, Paged
    <2> QED BY <2>1, <1>a, <1>d, <1>g DEF PsSet, States
<1>e. /\ sends' \in [Records -> Nat] /\ trouble' \in 0 .. MaxTrouble
      /\ \/ sends' = sends /\ trouble' = trouble
         \/ trouble' = trouble + 1 /\ sends'[line] = sends[line] + 1 /\ \A r \in Records : r # line => sends'[r] = sends[r]
    <2>1. sends \in [Records -> Nat] /\ trouble \in 0 .. MaxTrouble /\ MaxTrouble \in Nat BY <1>0, Values DEF Shapes
    <2> QED BY <2>1, <1>a, <1>d
<1>f. \A r \in reads : r \in Records /\ (sends[r] > 0 => sends'[r] > 0)
    <2>1. reads \subseteq Records /\ \A r \in Records : sends[r] \in Nat BY <1>0, Numbers
    <2>2. sends'[line] > 0 \/ sends' = sends BY <2>1, <1>d, <1>e
    <2> QED BY <2>1, <2>2, <1>e
<1>1. Shapes' BY <1>0, <1>b, <1>c, <1>e DEF Shapes, Newest
<1>2. Logged' BY <1>0, <1>b DEF Logged, InLog, Newest
<1>3. Ordered' BY <1>0, <1>b, <1>c DEF Ordered, Past, InLog, Newest
<1>4. Paged' BY <1>c DEF Paged
<1>5. Queued'
    <2>1. ToSet(queue) \subseteq reads BY <1>0 DEF Queued
    <2>2. lapse = {} => \A r \in ToSet(queue) : r \in ToSet(ps'.pending) \cup ToSet(ps'.remaining) \/ sends'[r] > 0
        BY <2>1, <1>0, <1>a, <1>c, <1>d, <1>f, <1>g DEF Queued
    <2>3. ToSet(ps'.pending) \cup ToSet(ps'.remaining) \subseteq ToSet(queue) BY <1>0, <1>a, <1>c, <1>d, <1>g DEF Queued
    <2>4. "unread" \notin lapse => /\ Distinct(ps'.pending) /\ Distinct(ps'.remaining)
                                   /\ ToSet(ps'.pending) \cap ToSet(ps'.remaining) = {} BY <1>c, <1>d, <1>g
    <2>5. "unread" \notin lapse => Distinct(queue) BY <1>0 DEF Queued, Once
    <2> QED BY <2>1, <2>2, <2>3, <2>4, <2>5, <1>b, <1>c DEF Queued, Once, AtLog, Paging
<1>6. Accounted'
    <2>1. \A r \in reads : Noted(r) => Noted(r)' BY <1>b, <1>f DEF Noted, Kept
    <2>2. \A r : Retained(r)' <=> Retained(r) BY <1>b DEF Retained, Newest
    <2> QED BY <2>1, <2>2, <1>0, <1>b, <1>c
        DEF Accounted, Covered, BeforeStart, SinceOldest, AtRewind, AtPage, InPage, Safe
<1>7. Counted'
    <2>1. \A r \in Records : ToQueue(r)' <=> ToQueue(r) BY <1>a, <1>b, <1>c DEF ToQueue, Beyond, Mark, Past
    <2>2. \A r \in Records : ToSend(r)' <=> ToSend(r) BY <1>a, <1>c, <1>d, <1>g DEF ToSend
    <2>3. CASE sends' = sends /\ trouble' = trouble
        BY <2>1, <2>2, <2>3, <1>0, <1>1, <1>b, Numbers, CountSame
    <2>4. CASE trouble' = trouble + 1 /\ sends'[line] = sends[line] + 1 /\ \A r \in Records : r # line => sends'[r] = sends[r]
        <3>1. ASSUME NEW r \in Records
              PROVE  sends'[r] + Count(ToSend(r)') + Count(ToQueue(r)') <= sends[r] + Count(ToSend(r)) + Count(ToQueue(r)) + 1
            <4>1. sends[r] \in Nat /\ (sends'[r] = sends[r] \/ sends'[r] = sends[r] + 1)
                BY <2>4, <1>0, Numbers
            <4>2. Count(ToSend(r)') = Count(ToSend(r)) /\ Count(ToQueue(r)') = Count(ToQueue(r)) BY <2>1, <2>2 DEF Count
            <4> DEFINE a == Count(ToSend(r)) b == Count(ToQueue(r))
            <4>3. a \in Nat /\ b \in Nat BY DEF Count
            <4> HIDE DEF a, b
            <4>4. sends'[r] + a + b <= sends[r] + a + b + 1 BY <4>1, <4>3
            <4> QED BY <4>2, <4>4 DEF a, b
        <3> QED BY <3>1, <2>4, <1>0, <1>1, <1>b, CountStep
    <2> QED BY <2>3, <2>4, <1>e
<1> QED BY <1>1, <1>2, <1>3, <1>4, <1>5, <1>6, <1>7 DEF ScriptInv

\* What leaves the queue was sent.
LEMMA RewriteQueueInv == ASSUME ScriptAssumption, ScriptInv, RewriteQueue PROVE ScriptInv'
<1>0. Shapes /\ Logged /\ Ordered /\ Paged /\ Queued /\ Accounted /\ Counted BY DEF ScriptInv
<1>n. trouble \in Nat /\ MaxTrouble \in Nat BY <1>0, Numbers, Values
<1>a. /\ ps.at = "send" /\ ps.pending = <<>> /\ ps' = [ps EXCEPT !.at = "top", !.remaining = <<>>]
      /\ \/ queue' = ps.remaining /\ trouble' = trouble
         \/ queue' = queue /\ trouble < MaxTrouble /\ trouble' = trouble + 1 BY DEF RewriteQueue, Trouble
<1>b. UNCHANGED <<log, stateFile, reads, sends, told, lapse>> BY DEF RewriteQueue, history
<1>c. ps' \in PsSet /\ ps'.at = "top" /\ ps'.last = ps.last /\ ps'.page = {} /\ ps.page = {}
    <2>1. ps \in PsSet /\ ps.page = {} /\ <<>> \in Seq(Records) BY <1>0, <1>a DEF Shapes, Paged
    <2> QED BY <2>1, <1>a DEF PsSet, States
<1>d. /\ ToSet(ps.pending) = {} /\ ToSet(ps.remaining) \subseteq ToSet(queue) /\ ps.remaining \in Seq(Records)
      /\ lapse = {} => \A r \in ToSet(queue) : r \in ToSet(ps.remaining) \/ sends[r] > 0
      /\ "unread" \notin lapse => Distinct(ps.remaining) BY <1>0, <1>a, NoLine DEF Queued, Once, Shapes, PsSet
<1>1. Shapes'
    <2>1. trouble' \in 0 .. MaxTrouble BY <1>0, <1>a, <1>n DEF Shapes
    <2>2. queue' \in Seq(Records) BY <1>0, <1>a, <1>d DEF Shapes
    <2> QED BY <2>1, <2>2, <1>0, <1>b, <1>c DEF Shapes, Newest
<1>2. Logged' BY <1>0, <1>b DEF Logged, InLog, Newest
<1>3. Ordered' BY <1>0, <1>b, <1>c DEF Ordered, Past, InLog, Newest
<1>4. Paged' BY <1>c DEF Paged
<1>5. Queued' BY <1>0, <1>a, <1>b, <1>c, <1>d DEF Queued, Once, AtLog, Paging
<1>6. Accounted'
    <2>1. lapse = {} => \A r : Noted(r) => Noted(r)' BY <1>a, <1>b, <1>d DEF Noted, Kept
    <2>2. \A r : Retained(r)' <=> Retained(r) BY <1>b DEF Retained, Newest
    <2> QED BY <2>1, <2>2, <1>0, <1>b, <1>c
        DEF Accounted, Covered, BeforeStart, SinceOldest, AtRewind, AtPage, InPage, Safe
<1>7. Counted'
    <2>1. \A r \in Records : ToQueue(r)' <=> ToQueue(r) BY <1>a, <1>b, <1>c DEF ToQueue, Beyond, Mark, Past
    <2>2. CASE queue' = ps.remaining /\ trouble' = trouble
        <3>1. \A r \in Records : ToSend(r)' <=> ToSend(r) BY <2>2, <1>a, <1>c, <1>d DEF ToSend
        <3> QED BY <3>1, <2>1, <2>2, <1>0, <1>1, <1>b, <1>n, CountSame
    <2>3. CASE trouble' = trouble + 1 BY <2>1, <2>3, <1>0, <1>1, <1>b, CountSame
    <2> QED BY <2>2, <2>3, <1>a
<1> QED BY <1>1, <1>2, <1>3, <1>4, <1>5, <1>6, <1>7 DEF ScriptInv

-----------------------------------------------------------------------------
(* The invariant, and what it is for *)

\* The script has not run yet.
LEMMA InitInv == ASSUME ScriptAssumption, Init PROVE ScriptInv
<1>a. /\ MaxRecord \in Nat \ {0} /\ MaxClears \in Nat /\ MaxTrouble \in Nat BY DEF ScriptAssumption
<1>b. /\ log = [epoch |-> 0, oldest |-> 1, objs |-> <<"system">>]
      /\ stateFile = [epoch |-> 0, id |-> 0] /\ queue = <<>> /\ trouble = 0
      /\ reads = {} /\ told = {} /\ lapse = {} /\ sends = [r \in Records |-> 0]
      /\ ps = [at |-> "down", last |-> [epoch |-> 0, id |-> 0], oldest |-> [epoch |-> 0, id |-> 0], queued |-> {},
               page |-> {}, more |-> FALSE, pending |-> <<>>, remaining |-> <<>>]
    BY DEF Init, Down, Nowhere, Record
<1>c. [epoch |-> 0, id |-> 0] \in Positions /\ [epoch |-> 0, id |-> 0] # Torn
    <2>1. [epoch |-> 0, id |-> 0] \in Positions BY <1>a DEF Positions
    <2> QED BY <2>1, TornId
<1>d. log \in LogSet /\ Newest = 1 /\ log.objs[1] = "system"
    <2>1. <<"system">> \in Seq({"canary", "other", "system"}) OBVIOUS
    <2> QED BY <2>1, <1>a, <1>b DEF LogSet, Newest
<1>e. ps \in PsSet BY <1>b, <1>c DEF PsSet, States
<1>1. Shapes
    <2>1. log.oldest <= Newest /\ Newest <= MaxRecord /\ trouble \in 0 .. MaxTrouble BY <1>a, <1>b, <1>d
    <2>2. sends \in [Records -> Nat] BY <1>b
    <2> QED BY <2>1, <2>2, <1>b, <1>c, <1>d, <1>e DEF Shapes
<1>2. Logged BY <1>b DEF Logged
<1>3. Ordered BY <1>b, <1>c, <1>d DEF Ordered, InLog, Past
<1>4. Paged BY <1>b DEF Paged
<1>5. Queued BY <1>b, NoLine DEF Queued, Once, AtLog, Paging
<1>6. Accounted BY <1>b DEF Accounted, Covered, BeforeStart, SinceOldest, AtRewind, AtPage, InPage
<1>7. Counted
    <2> SUFFICES ASSUME NEW r \in Records PROVE sends[r] + Count(ToSend(r)) + Count(ToQueue(r)) <= 1 + trouble
        BY DEF Counted
    <2>1. sends[r] = 0 /\ ~ToSend(r) BY <1>b, NoLine DEF ToSend
    <2>2. Count(ToSend(r)) = 0 /\ Count(ToQueue(r)) \in {0, 1} BY <2>1 DEF Count
    <2> QED BY <2>1, <2>2, <1>b
<1> QED BY <1>1, <1>2, <1>3, <1>4, <1>5, <1>6, <1>7 DEF ScriptInv

\* Doing nothing keeps it.
LEMMA StutterInv == ASSUME ScriptInv, UNCHANGED vars PROVE ScriptInv'
<1> USE DEF vars, files, history
<1>1. Shapes' BY DEF ScriptInv, Shapes, Newest
<1>2. Logged' BY DEF ScriptInv, Logged, InLog, Newest
<1>3. Ordered' BY DEF ScriptInv, Ordered, Past, InLog, Newest
<1>4. Paged' BY DEF ScriptInv, Paged, InLog, Newest
<1>5. Queued' BY DEF ScriptInv, Queued, Once, AtLog, Paging
<1>6. Accounted'
    <2>1. \A r : (Noted(r)' <=> Noted(r)) /\ (Retained(r)' <=> Retained(r)) BY DEF Noted, Kept, Retained, Newest
    <2> QED BY <2>1 DEF ScriptInv, Accounted, Covered, BeforeStart, SinceOldest, AtRewind, AtPage, InPage, Safe
<1>7. Counted'
    <2>1. \A r : (ToSend(r)' <=> ToSend(r)) /\ (ToQueue(r)' <=> ToQueue(r)) BY DEF ToSend, ToQueue, Beyond, Mark, Past
    <2>2. \A r : Count(ToSend(r)') = Count(ToSend(r)) /\ Count(ToQueue(r)') = Count(ToQueue(r)) BY <2>1 DEF Count
    <2> QED BY <2>2 DEF ScriptInv, Counted
<1> QED BY <1>1, <1>2, <1>3, <1>4, <1>5, <1>6, <1>7 DEF ScriptInv

\* The inductive invariant.
LEMMA AlwaysAccounted == ASSUME ScriptAssumption PROVE Spec => []ScriptInv
<1>1. Init => ScriptInv BY InitInv
<1>2. ScriptInv /\ [Next]_vars => ScriptInv'
    <2> SUFFICES ASSUME ScriptInv, [Next]_vars PROVE ScriptInv' OBVIOUS
    <2>1. CASE UNCHANGED vars BY <2>1, StutterInv
    <2>2. CASE LogAppend \/ LogClear \/ LogOn \/ Die BY <2>2, LogAppendInv, LogClearInv, LogOnInv, DieInv
    <2>3. CASE ReadFiles \/ ReadOldest \/ CheckGap \/ Rewind BY <2>3, ReadFilesInv, ReadOldestInv, CheckGapInv, RewindInv
    <2>4. CASE FetchPage \/ Enqueue \/ Advance BY <2>4, FetchPageInv, EnqueueInv, AdvanceInv
    <2>5. CASE ReadQueue \/ Send \/ SendFails \/ RewriteQueue
        BY <2>5, ReadQueueInv, SendInv, SendFailsInv, RewriteQueueInv
    <2> QED BY <2>1, <2>2, <2>3, <2>4, <2>5 DEF Next, Round
<1> QED BY <1>1, <1>2, PTL DEF Spec

\* Every variable keeps its type, and the queue holds nothing but reads.
THEOREM TypeCorrect == ASSUME ScriptAssumption PROVE Spec => []TypeOK
<1>1. ScriptInv => TypeOK
    <2> SUFFICES ASSUME ScriptInv PROVE TypeOK OBVIOUS
    <2>1. log \in LogSet /\ ps \in PsSet BY DEF ScriptInv, Shapes
    <2>2. log.epoch \in 0 .. MaxClears /\ log.oldest \in 1 .. MaxRecord
          /\ log.objs \in Seq({"canary", "other", "system"}) BY <2>1 DEF LogSet
    <2>3. ps.last \in Positions \cup {Torn} BY <2>1 DEF PsSet
    <2> QED BY <2>2, <2>3 DEF ScriptInv, Shapes, Lapses, Queued, TypeOK, Positions
<1> QED BY <1>1, AlwaysAccounted, PTL

\* What lies at or below the stored checkpoint is in the queue or was sent, or a
\* gap was logged (CheckpointCovered): for any log, also one that is cleared and
\* counts its records anew, and through deaths at any step, pages that cannot be
\* fetched, a rewrite of the queue that fails and lost answers.  It is not claimed
\* after one of the lapses: a read that left the log before there was a checkpoint
\* or behind the script's back, a log that has grown past the checkpoint again, or
\* a cmdlet that failed silently on the state file, the queue, the gap log or the
\* oldest record of a log that had rolled over.
THEOREM CheckpointHonest == ASSUME ScriptAssumption PROVE Spec => []CheckpointCovered
<1>1. ScriptInv => CheckpointCovered BY DEF ScriptInv, Accounted, Covered, Noted, CheckpointCovered
<1> QED BY <1>1, AlwaysAccounted, PTL

\* A read is sent once, and once more at most for every death, failing cmdlet or
\* lost answer (SentOncePerTrouble): a refused send, a cleared log or a rewound
\* checkpoint is no reason.  A queue that could not be read before a page was taken
\* may hold a read twice, and then nothing is claimed.
THEOREM RepeatsHaveReasons == ASSUME ScriptAssumption PROVE Spec => []SentOncePerTrouble
<1>1. ScriptInv => SentOncePerTrouble
    <2> SUFFICES ASSUME ScriptInv, "unread" \notin lapse, NEW r \in Records PROVE sends[r] <= 1 + trouble
        BY DEF SentOncePerTrouble
    <2> DEFINE a == Count(ToSend(r)) b == Count(ToQueue(r))
    <2>1. sends[r] + a + b <= 1 + trouble BY DEF ScriptInv, Counted
    <2>2. a \in Nat /\ b \in Nat BY DEF Count
    <2>3. sends[r] \in Nat /\ trouble \in Nat BY Numbers DEF ScriptInv
    <2> HIDE DEF a, b
    <2> QED BY <2>1, <2>2, <2>3
<1> QED BY <1>1, AlwaysAccounted, PTL

=============================================================================
