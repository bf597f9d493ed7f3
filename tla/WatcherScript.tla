--------------------------- MODULE WatcherScript ----------------------------
(***************************************************************************)
(* The optional Windows-resident watcher: the PowerShell script that       *)
(* Honeypath writes and a logon task runs (WATCHER_SCRIPT in               *)
(* windows_audit.py).  It pages through the Security log, appends canary   *)
(* reads to a queue file, keeps its checkpoint in a state file and posts   *)
(* the queue to Pushover.                                                  *)
(*                                                                         *)
(* A record is [epoch, id]: ids restart when the log is cleared, and the   *)
(* epoch stands for TimeCreated, which tells two records with one id       *)
(* apart.  The script runs under SilentlyContinue: a cmdlet that fails     *)
(* does nothing and the script goes on.                                    *)
(***************************************************************************)
EXTENDS Integers, Sequences, FiniteSets, SequencesExt

CONSTANTS
    MaxEvents,    \* records fetched at a time, 400 in the script
    Capacity,     \* how many records the Security log retains
    MaxRecord,    \* bound: records between two clears of the log
    MaxClears,    \* bound: clears of the log
    MaxTrouble    \* bound: cmdlets that fail, lost answers, deaths

ASSUME ScriptAssumption ==
    /\ MaxEvents \in Nat \ {0} /\ Capacity \in Nat \ {0}
    /\ MaxRecord \in Nat \ {0} /\ MaxClears \in Nat /\ MaxTrouble \in Nat

VARIABLES
    log,        \* the Security log
    stateFile,  \* honeypath-watcher.state; its epoch is history
    queue,      \* honeypath-watcher.pending.jsonl
    ps,         \* the running script
    trouble,    \* how much of MaxTrouble is used
    reads,      \* history: every canary read that was logged
    sends,      \* history: how often Pushover accepted each
    told,       \* history: reads a coverage gap was logged for
    lapse       \* history: why a read may go unnoticed

files == <<stateFile, queue>>
history == <<reads, sends, told, lapse>>
vars == <<log, files, ps, trouble, history>>

-----------------------------------------------------------------------------
(* The state. *)

Record(epoch, id) == [epoch |-> epoch, id |-> id]

\* The first record of a log is never a read: it says that the log was cleared.
Records == [epoch: 0 .. MaxClears, id: 2 .. MaxRecord]

\* A state file that does not exist counts as 0.  One that was truncated is
\* read as $null, which makes every query for newer records invalid.
Nowhere == Record(0, 0)
Torn == Record(0, -1)

Down == [at |-> "down", last |-> Nowhere, oldest |-> Nowhere, queued |-> {},
         page |-> {}, more |-> FALSE, pending |-> <<>>, remaining |-> <<>>]

Init ==
    /\ log = [epoch |-> 0, oldest |-> 1, objs |-> <<"system">>]
    /\ stateFile = Nowhere /\ queue = <<>>
    /\ ps = Down
    /\ trouble = 0
    /\ reads = {} /\ told = {} /\ lapse = {}
    /\ sends = [r \in Records |-> 0]

Newest == Len(log.objs)
Retained(r) == r.epoch = log.epoch /\ r.id \in log.oldest .. Newest
Trouble == trouble < MaxTrouble /\ trouble' = trouble + 1
\* Reads that are gone are reported against a checkpoint, if there is one.
Unstarted(gone) == lapse \cup (IF gone # {} /\ stateFile.id <= 0 THEN {"unstarted"} ELSE {})
Paging == ps.at \in {"newest", "rewind", "page", "enqueue", "advance"}

-----------------------------------------------------------------------------
(* Windows. *)

\* A record is added, and the oldest one may have to go.  Reads that leave the
\* log before there is a checkpoint, or between the look at the oldest record
\* and the page that should have had them, are lost without a word.
LogAppend ==
    /\ Newest < MaxRecord
    /\ \E obj \in {"canary", "other", "system"} :
          /\ log' = [log EXCEPT !.objs = Append(@, obj),
                                !.oldest = IF Newest + 1 - @ >= Capacity THEN @ + 1 ELSE @]
          /\ reads' = IF obj = "canary" THEN reads \cup {Record(log.epoch, Newest + 1)} ELSE reads
    /\ LET gone == {r \in reads : Retained(r) /\ r.id < log'.oldest /\ r \notin ps.page} IN
          lapse' = Unstarted(gone) \cup (IF gone # {} /\ Paging THEN {"between"} ELSE {})
    /\ UNCHANGED <<files, ps, trouble, sends, told>>

\* An administrator clears the log; its first record says so.
LogClear ==
    /\ log.epoch < MaxClears
    /\ log' = [epoch |-> log.epoch + 1, oldest |-> 1, objs |-> <<"system">>]
    /\ LET gone == {r \in reads : Retained(r) /\ r \notin ps.page} IN
          lapse' = Unstarted(gone) \cup (IF gone # {} /\ Paging THEN {"between"} ELSE {})
    /\ UNCHANGED <<files, ps, trouble, reads, sends, told>>

\* The user logs on.
LogOn ==
    /\ ps.at = "down"
    /\ ps' = [Down EXCEPT !.at = "top"]
    /\ UNCHANGED <<log, files, trouble, history>>

\* The script dies or the machine goes down, perhaps while Set-Content, which
\* truncates first, writes the state file.
Die ==
    /\ ps.at # "down" /\ Trouble
    /\ ps' = Down
    /\ LET gone == {r \in reads \cap ps.page : ~Retained(r)} IN
          \/ /\ stateFile' = stateFile
             /\ lapse' = Unstarted(gone)
          \/ /\ ps.at \in {"rewind", "advance"}
             /\ stateFile' = Torn
             /\ lapse' = lapse \cup {"torn"}
    /\ UNCHANGED <<log, queue, reads, sends, told>>

-----------------------------------------------------------------------------
(* One round of the script's loop. *)

\* Mutant: entries of the queue are known by their RecordId only.
KeyById(r) == {Record(epoch, r.id) : epoch \in 0 .. MaxClears}

\* Entries of the queue are known by TimeCreated and RecordId.
Key(r) == {r}

\* The checkpoint and the keys of what is still queued.  Without the queue's lines
\* nothing counts as queued; without a checkpoint, as with a torn one, the round
\* compares and queries nothing and comes to its deliveries.
ReadFiles ==
    /\ ps.at = "top"
    /\ \/ /\ ps' = [ps EXCEPT !.at = "oldest", !.last = stateFile,
                               !.queued = UNION {Key(r) : r \in ToSet(queue)}]
          /\ UNCHANGED <<trouble, lapse>>
       \/ /\ Trouble
          /\ ps' = [ps EXCEPT !.at = "oldest", !.last = stateFile, !.queued = {}]
          /\ lapse' = lapse \cup {"unread"}
       \/ /\ Trouble
          /\ ps' = [ps EXCEPT !.at = "deliver"]
          /\ UNCHANGED lapse
    /\ UNCHANGED <<log, files, reads, sends, told>>

\* The first look at the log.
ReadOldest ==
    /\ ps.at = "oldest"
    /\ \/ ps' = [ps EXCEPT !.at = "newest", !.oldest = Record(log.epoch, log.oldest)] /\ UNCHANGED trouble
       \/ ps' = [ps EXCEPT !.at = "newest", !.oldest = Nowhere] /\ Trouble
    /\ UNCHANGED <<log, files, history>>

\* The log has rolled over past the checkpoint ...
RolledPast(oldest) == ps.last.id > 0 /\ oldest > ps.last.id + 1

\* Mutant: a cleared log is not noticed.
GapRolloverOnly(newest) == RolledPast(ps.oldest.id)

\* ... or starts anew below it, as far as the two queries tell.
Gap(newest) ==
    \/ RolledPast(ps.oldest.id)
    \/ ps.last.id > 0 /\ ps.oldest # Nowhere /\ newest > 0 /\ ps.last.id > newest

\* A cleared log that has grown past the checkpoint again looks like the old one.
Regrown == ps.last.id > 0 /\ ps.last.epoch # log.epoch /\ Newest >= ps.last.id

\* The second look at the log, and the line in the gap log.  Either may fail; so may
\* the first look have, and then what has rolled off is stepped over.
CheckGap ==
    /\ ps.at = "newest"
    /\ \E newest \in {Newest, 0}, logged \in BOOLEAN :
          /\ IF newest = Newest /\ logged THEN UNCHANGED trouble ELSE Trouble
          /\ told' = IF Gap(newest) /\ logged THEN told \cup {r \in reads : ~Retained(r)} ELSE told
          /\ ps' = IF Gap(newest) THEN [ps EXCEPT !.at = "rewind", !.last = [ps.oldest EXCEPT !.id = @ - 1]]
                                  ELSE [ps EXCEPT !.at = "page"]
          /\ lapse' = lapse \cup (IF Regrown THEN {"regrown"} ELSE {})
                            \cup (IF Gap(newest) /\ ~logged THEN {"unlogged"} ELSE {})
                            \cup (IF ps.oldest = Nowhere /\ RolledPast(log.oldest) THEN {"unasked"} ELSE {})
    /\ UNCHANGED <<log, files, reads, sends>>

\* Set-Content $StateFile.  When it fails, the old file or an empty one stays.
WriteState ==
    \/ stateFile' = ps.last /\ UNCHANGED <<trouble, lapse>>
    \/ Trouble /\ UNCHANGED <<stateFile, lapse>>
    \/ Trouble /\ stateFile' = Torn /\ lapse' = lapse \cup {"torn"}

\* Continue from the oldest record that is left.
Rewind ==
    /\ ps.at = "rewind"
    /\ WriteState
    /\ ps' = [ps EXCEPT !.at = "page"]
    /\ UNCHANGED <<log, queue, reads, sends, told>>

\* The first MaxEvents 4663 records above the checkpoint.
Unseen ==
    LET above == {i \in log.oldest .. Newest : i > ps.last.id /\ log.objs[i] # "system"}
    IN  {i \in above : ps.last.id >= 0 /\ Cardinality({j \in above : j < i}) < MaxEvents}

\* Get-WinEvent; a failing one returns nothing.
FetchPage ==
    /\ ps.at = "page"
    /\ \/ /\ ps' = [ps EXCEPT !.at = IF Unseen = {} THEN "deliver" ELSE "enqueue",
                              !.page = {Record(log.epoch, i) : i \in Unseen},
                              !.more = Cardinality(Unseen) = MaxEvents]
          /\ lapse' = IF Regrown THEN lapse \cup {"regrown"} ELSE lapse
          /\ UNCHANGED trouble
       \/ /\ Trouble
          /\ ps' = [ps EXCEPT !.at = "deliver"]
          /\ UNCHANGED lapse
    /\ UNCHANGED <<log, files, reads, sends, told>>

\* The page is in the order of the log.
FirstOf(page) == CHOOSE r \in page : \A s \in page : r.id <= s.id

\* "Durable local queue first": a canary read that is not queued yet is
\* appended to the file.  Add-Content may fail on a full disk.
Enqueue ==
    /\ ps.at = "enqueue"
    /\ LET r == FirstOf(ps.page)
           new == r \in reads /\ r \notin ps.queued
       IN  /\ \/ /\ queue' = IF new THEN Append(queue, r) ELSE queue
                 /\ UNCHANGED <<trouble, lapse>>
              \/ /\ new /\ Trouble
                 /\ lapse' = lapse \cup {"full"}
                 /\ UNCHANGED queue
           /\ ps' = [ps EXCEPT !.at = "advance", !.last = r,
                               !.queued = IF new THEN @ \cup {r} ELSE @]
    /\ UNCHANGED <<log, stateFile, reads, sends, told>>

\* The checkpoint follows record by record; a full page is not the last.
Advance ==
    /\ ps.at = "advance"
    /\ WriteState
    /\ LET rest == ps.page \ {ps.last} IN
          ps' = [ps EXCEPT !.page = rest,
                           !.at = IF rest # {} THEN "enqueue"
                                  ELSE IF ps.more THEN "page" ELSE "deliver"]
    /\ UNCHANGED <<log, queue, reads, sends, told>>

\* Everything in the queue is tried, in order.  A Get-Content that fails gives no
\* line to try and none that remains.
ReadQueue ==
    /\ ps.at = "deliver"
    /\ \/ /\ ps' = [ps EXCEPT !.at = IF queue = <<>> THEN "top" ELSE "send",
                               !.pending = queue, !.remaining = <<>>]
          /\ UNCHANGED <<trouble, lapse>>
       \/ /\ queue # <<>> /\ Trouble
          /\ ps' = [ps EXCEPT !.at = "send", !.pending = <<>>, !.remaining = <<>>]
          /\ lapse' = lapse \cup {"dropped"}
    /\ UNCHANGED <<log, files, reads, sends, told>>

\* Mutant: a line stays in the queue when an earlier one does.
DeliveredFrom(line) == IF ps.remaining # <<>> THEN Append(ps.remaining, line) ELSE <<>>

\* A line that was accepted is not among those that remain.
Delivered(line) == ps.remaining

\* Invoke-RestMethod: accepted; ...
Send ==
    /\ ps.at = "send" /\ ps.pending # <<>>
    /\ LET line == Head(ps.pending) IN
          /\ sends' = [sends EXCEPT ![line] = @ + 1]
          /\ ps' = [ps EXCEPT !.pending = Tail(@), !.remaining = Delivered(line)]
    /\ UNCHANGED <<log, files, trouble, reads, told, lapse>>

\* ... refused or unreachable, or accepted with the answer lost.
SendFails ==
    /\ ps.at = "send" /\ ps.pending # <<>>
    /\ LET line == Head(ps.pending) IN
          /\ \/ UNCHANGED <<sends, trouble>>
             \/ Trouble /\ sends' = [sends EXCEPT ![line] = @ + 1]
          /\ ps' = [ps EXCEPT !.pending = Tail(@), !.remaining = Append(@, line)]
    /\ UNCHANGED <<log, files, reads, told, lapse>>

\* The queue is replaced through a temporary file, or removed; either may fail
\* and leaves it as it was.  Then the script sleeps.
RewriteQueue ==
    /\ ps.at = "send" /\ ps.pending = <<>>
    /\ \/ queue' = ps.remaining /\ UNCHANGED trouble
       \/ UNCHANGED queue /\ Trouble
    /\ ps' = [ps EXCEPT !.at = "top", !.remaining = <<>>]
    /\ UNCHANGED <<log, stateFile, history>>

Round ==
    \/ ReadFiles \/ ReadOldest \/ CheckGap \/ Rewind \/ FetchPage \/ Enqueue \/ Advance
    \/ ReadQueue \/ Send \/ SendFails \/ RewriteQueue

Next == LogAppend \/ LogClear \/ LogOn \/ Die \/ Round

Spec == Init /\ [][Next]_vars

\* The user logs on again, the script runs, and Pushover does not refuse for ever.
LiveSpec == Spec /\ WF_vars(LogOn) /\ WF_vars(Round) /\ SF_vars(Send)

-----------------------------------------------------------------------------
(* Properties. *)

\* Every variable keeps its type; the checkpoint is never below what an empty
\* log starts from, unless the file was torn.
TypeOK ==
    /\ log.epoch \in 0 .. MaxClears /\ log.oldest \in 1 .. MaxRecord
    /\ log.objs \in Seq({"canary", "other", "system"}) /\ Newest <= MaxRecord
    /\ stateFile \in [epoch: 0 .. MaxClears, id: 0 .. MaxRecord] \cup {Torn}
    /\ ps.last \in [epoch: 0 .. MaxClears, id: 0 .. MaxRecord] \cup {Torn}
    /\ ToSet(queue) \subseteq reads /\ reads \subseteq Records /\ told \subseteq reads
    /\ DOMAIN sends = Records
    /\ trouble \in 0 .. MaxTrouble
    /\ lapse \subseteq {"unstarted", "between", "torn", "regrown", "full",
                      "unread", "unasked", "unlogged", "dropped"}

Kept(r) == r \in ToSet(queue) \/ sends[r] > 0

\* What lies at or below the stored checkpoint is in the queue or was sent, or
\* a gap was logged: also after a clear that reuses the ids of queued reads, a
\* death at any step and a rewrite that fails.  What may go unnoticed leaves the
\* log before there is a checkpoint ("unstarted") or while the script looks at it
\* ("between"), is behind a log that has grown past the checkpoint again
\* ("regrown"), or meets a write that fails: of the state file ("torn"), the queue
\* ("full") or the gap log ("unlogged"); or a read that does: of the oldest record
\* when the log had rolled over ("unasked"), of the queue before a page ("unread")
\* or before it is delivered and rewritten ("dropped").
CheckpointCovered ==
    lapse = {} => \A r \in reads :
        r.epoch = stateFile.epoch /\ r.id <= stateFile.id => Kept(r) \/ r \in told

\* Nobody gets the same read twice in quiet times: every repetition is due to
\* a death, a failing cmdlet or a lost answer, a refused send is no reason.  Only
\* when the queue could not be read before a page may a read be queued twice.
SentOncePerTrouble == "unread" \notin lapse => \A r \in Records : sends[r] <= 1 + trouble

\* A read is sent in the end, or a gap is logged for it.
EveryReadSent == \A r \in Records :
    r \in reads ~> (sends[r] > 0 \/ r \in told \/ lapse # {})

=============================================================================
