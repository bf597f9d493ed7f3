------------------------------ MODULE Delivery ------------------------------
(***************************************************************************)
(* What happens to a detection after a watcher queued it (monitor.py):     *)
(* Monitor.pump coalesces hits, _dispatch decides whether the item may be  *)
(* alerted on, records it and offers it to the SweepAggregator, and the    *)
(* alert thread sends the jobs that come out.                              *)
(*                                                                         *)
(* Time is kept as ages that grow with Tick and stop at the bound they are *)
(* compared with.  Timestamps and ages then answer every comparison of the *)
(* code alike, and time itself needs no bound.                             *)
(***************************************************************************)
EXTENDS Integers, FiniteSets, Sequences

CONSTANTS
    Paths,        \* canary paths
    EventTypes,   \* the event types hits take
    DedupWindow, Cooldown, SweepWindow, SweepMax, Threshold,
    MaxHits,      \* bound: hits the watchers emit
    MaxFaults,    \* bound: inserts that fail, time out or find nothing to do
    MaxMutes,     \* bound: times the mute window opens or closes
    AlertMayDie   \* whether a send may raise out of the alert thread

\* The event types _dispatch may alert on.
Alertable == {"read", "removed", "replaced"}

ASSUME DeliveryAssumption ==
    /\ EventTypes \subseteq Alertable \cup {"recreated"}
    /\ \A n \in {DedupWindow, Cooldown, SweepWindow, SweepMax, Threshold,
                 MaxHits, MaxFaults, MaxMutes} : n \in Nat
    /\ AlertMayDie \in BOOLEAN

VARIABLES
    hitq,      \* Monitor.hits
    pend,      \* Coalescer._pending, in the order of first sightings
    ready,     \* items taken by due() and not dispatched yet
    pc,        \* main thread: pump, drain, decide, insert, release
    verdict,   \* what _dispatch decided for the item at the head of ready
    slot,      \* CooldownTracker._last, as the age of the last slot taken
    sweep,     \* SweepAggregator: [open, held, age, quiet]
    alertq,    \* jobs for the alert thread, each a sequence of entries
    events,    \* the events table; note is pushover_error / pushover_sent
    muted,     \* whether is_muted() would answer yes
    alive,     \* whether the alert thread still runs
    emitted, advisories,  \* history: hits so far, and those that were advisory
    since,     \* history: age of the last alert of a path handed on
    faults, mutes

mainVars == <<pend, ready, pc, verdict, slot>>
histVars == <<emitted, advisories, since, faults, mutes>>
vars == <<hitq, mainVars, sweep, alertq, events, muted, alive, histVars>>

Closed == [open |-> FALSE, held |-> <<>>, age |-> 0, quiet |-> 0]

Init ==
    /\ hitq = <<>> /\ pend = <<>> /\ ready = <<>> /\ pc = "pump" /\ verdict = "quiet"
    /\ slot = [p \in Paths |-> Cooldown]
    /\ sweep = Closed /\ alertq = <<>> /\ events = <<>> /\ muted = FALSE
    /\ alive = TRUE
    /\ emitted = 0 /\ advisories = {} /\ since = [p \in Paths |-> Cooldown]
    /\ faults = 0 /\ mutes = 0
-----------------------------------------------------------------------------
(* The surroundings: time, watchers, `honeypath mute` *)

Older(age, bound) == IF age < bound THEN age + 1 ELSE age

Tick ==
    /\ hitq' = [i \in DOMAIN hitq |-> [hitq[i] EXCEPT !.age = Older(@, DedupWindow)]]
    /\ pend' = [i \in DOMAIN pend |-> [pend[i] EXCEPT !.age = Older(@, DedupWindow)]]
    /\ slot' = [p \in Paths |-> Older(slot[p], Cooldown)]
    /\ since' = [p \in Paths |-> Older(since[p], Cooldown)]
    /\ sweep' = IF sweep.open
                THEN [sweep EXCEPT !.age = Older(@, SweepMax), !.quiet = Older(@, SweepWindow)]
                ELSE sweep
    /\ UNCHANGED <<ready, pc, verdict, alertq, events, muted, alive, emitted, advisories, faults,
                   mutes>>

\* A watcher emits a hit.  Only reads are advisory or backed by inbox rows.
Emit(p, t) == \E advisory, durable \in BOOLEAN :
    /\ emitted < MaxHits
    /\ t # "read" => ~advisory /\ ~durable
    /\ emitted' = emitted + 1
    /\ hitq' = Append(hitq, [n |-> emitted + 1, path |-> p, type |-> t, age |-> 0,
                             advisory |-> advisory, durable |-> durable])
    /\ advisories' = IF advisory THEN advisories \cup {emitted + 1} ELSE advisories
    /\ UNCHANGED <<mainVars, sweep, alertq, events, muted, alive, since, faults, mutes>>

\* The mute window opens, is closed by hand, or runs out.
SetMute ==
    /\ mutes < MaxMutes /\ mutes' = mutes + 1
    /\ muted' = ~muted
    /\ UNCHANGED <<hitq, mainVars, sweep, alertq, events, alive, emitted, advisories, since, faults>>
-----------------------------------------------------------------------------
(* Coalescer *)

SameBurst(item, h) == item.path = h.path /\ item.type = h.type

\* Mutant: the newest sighting decides.
MergeLast(items, h) ==
    IF \E i \in DOMAIN items : SameBurst(items[i], h)
    THEN [i \in DOMAIN items |->
            IF SameBurst(items[i], h)
            THEN [items[i] EXCEPT !.hits = @ \cup {h.n}, !.advisory = h.advisory,
                                  !.durable = @ \/ h.durable]
            ELSE items[i]]
    ELSE Append(items, [path |-> h.path, type |-> h.type, age |-> h.age, hits |-> {h.n},
                        advisory |-> h.advisory, durable |-> h.durable])

\* An item is as old as its first sighting, which may have waited in the queue;
\* one attributable sighting promotes the whole item.
Merge(items, h) ==
    IF \E i \in DOMAIN items : SameBurst(items[i], h)
    THEN [i \in DOMAIN items |->
            IF SameBurst(items[i], h)
            THEN [items[i] EXCEPT !.hits = @ \cup {h.n}, !.advisory = @ /\ h.advisory,
                                  !.durable = @ \/ h.durable]
            ELSE items[i]]
    ELSE Append(items, [path |-> h.path, type |-> h.type, age |-> h.age, hits |-> {h.n},
                        advisory |-> h.advisory, durable |-> h.durable])

\* pump waits for one hit, then takes what else there is until the tick is over.
TakeHit ==
    /\ pc \in {"pump", "drain"} /\ hitq # <<>>
    /\ pend' = Merge(pend, Head(hitq))
    /\ hitq' = Tail(hitq)
    /\ pc' = "drain"
    /\ UNCHANGED <<ready, verdict, slot, sweep, alertq, events, muted, alive, histVars>>

\* The items at the positions in S, in their order.
Ascending(S) == CHOOSE f \in [1 .. Cardinality(S) -> S] :
                    \A i, j \in DOMAIN f : i < j => f[i] < f[j]
Chosen(items, S) == [i \in 1 .. Cardinality(S) |-> items[Ascending(S)[i]]]

Ripe == {i \in DOMAIN pend : pend[i].age >= DedupWindow}

\* Mutant: items that are due stay pending as well.
DueAndKept ==
    /\ pc = "drain" \/ (pc = "pump" /\ hitq = <<>>)
    /\ ready' = Chosen(pend, Ripe)
    /\ pc' = IF ready' = <<>> THEN "release" ELSE "decide"
    /\ UNCHANGED <<hitq, pend, verdict, slot, sweep, alertq, events, muted, alive, histVars>>

\* Mutant: the coalescer is emptied when something is due.
DueDropsRest ==
    /\ pc = "drain" \/ (pc = "pump" /\ hitq = <<>>)
    /\ ready' = Chosen(pend, Ripe)
    /\ pend' = IF ready' = <<>> THEN pend ELSE <<>>
    /\ pc' = IF ready' = <<>> THEN "release" ELSE "decide"
    /\ UNCHANGED <<hitq, verdict, slot, sweep, alertq, events, muted, alive, histVars>>

\* The tick is over: the items whose dedup window has passed are dispatched.
Due ==
    /\ pc = "drain" \/ (pc = "pump" /\ hitq = <<>>)
    /\ ready' = Chosen(pend, Ripe)
    /\ pend' = Chosen(pend, DOMAIN pend \ Ripe)
    /\ pc' = IF ready' = <<>> THEN "release" ELSE "decide"
    /\ UNCHANGED <<hitq, verdict, slot, sweep, alertq, events, muted, alive, histVars>>
-----------------------------------------------------------------------------
(* _dispatch, first half: mute, then advisory, then the path's cooldown *)

Current == Head(ready)
Allowed(p) == slot[p] >= Cooldown

\* Mutant: the cooldown slot is asked for before the item is known to be advisory.
DecideCooldownFirst ==
    /\ pc = "decide" /\ pc' = "insert"
    /\ verdict' = CASE Current.type \notin Alertable -> "quiet"
                    [] Current.type \in Alertable /\ muted -> "muted"
                    [] Current.type \in Alertable /\ ~muted /\ ~Allowed(Current.path) -> "cooldown"
                    [] OTHER -> IF Current.advisory THEN "advisory" ELSE "alert"
    /\ slot' = IF verdict' \in {"alert", "advisory"} THEN [slot EXCEPT ![Current.path] = 0] ELSE slot
    /\ UNCHANGED <<hitq, pend, ready, sweep, alertq, events, muted, alive, histVars>>

\* Only an item that is to be alerted on takes the cooldown slot.
Decide ==
    /\ pc = "decide" /\ pc' = "insert"
    /\ verdict' = CASE Current.type \notin Alertable -> "quiet"
                    [] Current.type \in Alertable /\ muted -> "muted"
                    [] Current.type \in Alertable /\ ~muted /\ Current.advisory -> "advisory"
                    [] OTHER -> IF Allowed(Current.path) THEN "alert" ELSE "cooldown"
    /\ slot' = IF verdict' = "alert" THEN [slot EXCEPT ![Current.path] = 0] ELSE slot
    /\ UNCHANGED <<hitq, pend, ready, sweep, alertq, events, muted, alive, histVars>>
-----------------------------------------------------------------------------
(* SweepAggregator: entries are [id, hits], id 0 for an event without a row *)

\* A few stragglers go out one by one, a sweep as one message.
Jobs(held) ==
    IF Len(held) < Threshold THEN [i \in DOMAIN held |-> <<held[i]>>] ELSE <<held>>

\* Mutant: after a quiet window the next detection goes out at once, and what
\* the earlier burst still holds stays held.
OfferOvertaking(entry) ==
    \/ /\ ~sweep.open \/ sweep.quiet >= SweepWindow
       /\ alertq' = Append(alertq, <<entry>>)
       /\ sweep' = [sweep EXCEPT !.open = TRUE, !.quiet = 0]
    \/ /\ sweep.open /\ sweep.quiet < SweepWindow
       /\ UNCHANGED alertq
       /\ sweep' = [sweep EXCEPT !.held = Append(@, entry), !.quiet = 0]

\* The first alert of a burst goes out, the others are held; a burst that has
\* been open for too long is closed.  SweepWindow = 0 turns aggregation off.
Offer(entry) ==
    \/ /\ ~sweep.open
       /\ alertq' = Append(alertq, <<entry>>)
       /\ sweep' = [Closed EXCEPT !.open = SweepWindow > 0]
    \/ /\ sweep.open /\ sweep.age < SweepMax
       /\ UNCHANGED alertq
       /\ sweep' = [sweep EXCEPT !.held = Append(@, entry), !.quiet = 0]
    \/ /\ sweep.open /\ sweep.age >= SweepMax
       /\ alertq' = alertq \o Jobs(Append(sweep.held, entry))
       /\ sweep' = Closed

\* _release_sweep at the end of a pump: the burst went quiet or on for too long.
Release ==
    LET over == sweep.open /\ (sweep.quiet >= SweepWindow \/ sweep.age >= SweepMax) IN
    /\ pc = "release" /\ pc' = "pump"
    /\ sweep' = IF over THEN Closed ELSE sweep
    /\ alertq' = IF over THEN alertq \o Jobs(sweep.held) ELSE alertq
    /\ UNCHANGED <<hitq, pend, ready, verdict, slot, events, muted, alive, histVars>>
-----------------------------------------------------------------------------
(* _dispatch, second half *)

NextItem ==
    /\ ready' = Tail(ready)
    /\ pc' = IF ready' = <<>> THEN "release" ELSE "decide"
    /\ UNCHANGED <<hitq, pend, verdict, slot, muted, alive, emitted, advisories, mutes>>

HandOn(id) ==
    /\ Offer([id |-> id, hits |-> Current.hits])
    /\ since' = [since EXCEPT ![Current.path] = 0]

KeepBack == UNCHANGED <<sweep, alertq, since>>

InsertRow ==
    events' = Append(events,
        [path |-> Current.path, type |-> Current.type, hits |-> Current.hits,
         note |-> IF verdict \in {"muted", "advisory", "cooldown"} THEN verdict ELSE "none"])

\* The event is committed and its id comes back.
Stored ==
    /\ pc = "insert" /\ NextItem /\ InsertRow
    /\ IF verdict = "alert" THEN HandOn(Len(events) + 1) ELSE KeepBack
    /\ UNCHANGED faults

\* The insert raises, or times out and is committed later.  An item with inbox
\* rows is withheld, any other is handed on without an event id.
NotStored == \E late \in BOOLEAN :
    /\ pc = "insert" /\ faults < MaxFaults /\ faults' = faults + 1
    /\ NextItem
    /\ IF late THEN InsertRow ELSE UNCHANGED events
    /\ IF verdict = "alert" /\ ~Current.durable THEN HandOn(0) ELSE KeepBack

\* All inbox rows of the item were consumed before.
AlreadyConsumed ==
    /\ pc = "insert" /\ Current.durable /\ faults < MaxFaults /\ faults' = faults + 1
    /\ NextItem /\ KeepBack
    /\ UNCHANGED events
-----------------------------------------------------------------------------
\* Mutant: only the first event of a summary gets a delivery record.
DeliverFirst == \E sent \in BOOLEAN :
    /\ alive /\ alertq # <<>> /\ alertq' = Tail(alertq)
    /\ events' = [e \in DOMAIN events |->
          IF e = Head(alertq)[1].id
          THEN [events[e] EXCEPT !.note = IF sent THEN "sent" ELSE "failed"] ELSE events[e]]
    /\ UNCHANGED <<hitq, mainVars, sweep, muted, alive, histVars>>

\* The alert thread sends a job and settles every event in it.
Deliver == \E sent \in BOOLEAN :
    /\ alive /\ alertq # <<>> /\ alertq' = Tail(alertq)
    /\ LET settled == {Head(alertq)[k].id : k \in DOMAIN Head(alertq)} IN
       events' = [e \in DOMAIN events |->
          IF e \in settled
          THEN [events[e] EXCEPT !.note = IF sent THEN "sent" ELSE "failed"] ELSE events[e]]
    /\ UNCHANGED <<hitq, mainVars, sweep, muted, alive, histVars>>

\* The send raises what Pushover.send does not catch.  _alert_loop has no handler: the
\* thread ends, the job's events keep what they say, and the queue is read no more.
SendRaises ==
    /\ AlertMayDie /\ alive /\ alertq # <<>>
    /\ alertq' = Tail(alertq) /\ alive' = FALSE
    /\ UNCHANGED <<hitq, mainVars, sweep, events, muted, histVars>>

MainStep == TakeHit \/ Due \/ Decide \/ Stored \/ Release

Next ==
    \/ Tick \/ SetMute \/ MainStep \/ NotStored \/ AlreadyConsumed \/ Deliver \/ SendRaises
    \/ \E p \in Paths, t \in EventTypes : Emit(p, t)

Spec == Init /\ [][Next]_vars

\* Time passes, and the main and alert threads keep being scheduled.
LiveSpec == Spec /\ WF_vars(MainStep) /\ WF_vars(Deliver) /\ WF_vars(Tick)
-----------------------------------------------------------------------------
(* Properties *)

HitNo == 1 .. MaxHits
Item == [path : Paths, type : EventTypes, age : 0 .. DedupWindow, hits : SUBSET HitNo,
         advisory : BOOLEAN, durable : BOOLEAN]
Entry == [id : Nat, hits : SUBSET HitNo]

\* Every variable stays in its type.
TypeOK ==
    /\ hitq \in Seq([n : HitNo, path : Paths, type : EventTypes, age : 0 .. DedupWindow,
                     advisory : BOOLEAN, durable : BOOLEAN])
    /\ pend \in Seq(Item) /\ ready \in Seq(Item)
    /\ pc \in {"pump", "drain", "decide", "insert", "release"}
    /\ pc \in {"decide", "insert"} <=> ready # <<>>
    /\ verdict \in {"quiet", "muted", "advisory", "cooldown", "alert"}
    /\ slot \in [Paths -> 0 .. Cooldown] /\ since \in [Paths -> 0 .. Cooldown]
    /\ sweep \in [open : BOOLEAN, held : Seq(Entry), age : 0 .. SweepMax, quiet : 0 .. SweepWindow]
    /\ alertq \in Seq(Seq(Entry))
    /\ events \in Seq([path : Paths, type : EventTypes, hits : SUBSET HitNo,
                       note : {"none", "muted", "advisory", "cooldown", "sent", "failed"}])
    /\ muted \in BOOLEAN /\ alive \in BOOLEAN
    /\ emitted \in 0 .. MaxHits /\ advisories \subseteq HitNo
    /\ faults \in 0 .. MaxFaults /\ mutes \in 0 .. MaxMutes

\* "Honeypath collapses everything for one path within a short window into one
\* event" (README): a hit is pending, being dispatched or recorded, but never
\* two of these, and never part of two events.
OneEventPerHit ==
    LET places == pend \o ready \o events
    IN  \A i, j \in DOMAIN places : places[i].hits \cap places[j].hits # {} => i = j

\* What has been accepted for an alert and not been sent yet, each entry at its
\* spot: number k of batch j, and the batch that is still held comes last.
Batches == Append(alertq, sweep.held)
Before(s, t) == s[1] < t[1] \/ (s[1] = t[1] /\ s[2] < t[2])
InFlight == UNION {{<<j, k>> : k \in DOMAIN Batches[j]} : j \in DOMAIN Batches}
At(s) == Batches[s[1]][s[2]]

\* No detection is part of two messages, and one that still waits for its
\* message has neither been settled nor been suppressed: whichever way a burst
\* is closed, its buffer goes out once.
AlertedOnce ==
    /\ \A s, t \in InFlight : At(s).hits \cap At(t).hits # {} => s = t
    /\ \A s \in InFlight : At(s).id # 0 =>
          events[At(s).id].note = "none" /\ events[At(s).id].hits = At(s).hits

\* Holding a burst back never lets a later detection's alert overtake an
\* earlier one's.
AlertsInOrder == \A s, t \in InFlight :
    Before(s, t) /\ At(s).id # 0 /\ At(t).id # 0 => At(s).id < At(t).id

\* "A burst smaller than the threshold is sent as individual alerts rather than
\* summarised" (README).
SummaryOnlyForSweeps == \A j \in DOMAIN alertq :
    Len(alertq[j]) = 1 \/ Len(alertq[j]) >= Threshold

\* Whichever way a burst is closed, what it held goes out once, in order, and
\* summarised only when it is large enough.
BurstsReleased == AlertedOnce /\ AlertsInOrder /\ SummaryOnlyForSweeps

\* "If SACL auditing or inotify sees the same read inside the coalescing window,
\* the event is delivered" (README): only items made of advisory hits alone are
\* suppressed as advisory, and no such item is ever alerted on.
AdvisoryExact ==
    /\ \A e \in DOMAIN events :
          /\ events[e].note = "advisory" => events[e].hits \subseteq advisories
          /\ events[e].note \in {"sent", "failed"} => ~(events[e].hits \subseteq advisories)
    /\ \A s \in InFlight : ~(At(s).hits \subseteq advisories)

\* While inserts succeed, a detection is suppressed by the per-path cooldown only
\* if an alert for that path was handed on less than a cooldown ago: neither
\* advisory nor muted detections use up the slot of a real read (_dispatch).
CooldownMeansAlerted ==
    [][Decide /\ verdict' = "cooldown" /\ faults = 0 => since[Current.path] < Cooldown]_vars

\* While inserts succeed, every hit that was queued ends up in an event, also
\* those that arrive faster than one pump takes them.
EveryHitRecorded == \A n \in HitNo :
    (emitted >= n) ~> \E e \in DOMAIN events : n \in events[e].hits

\* "A sweep that never goes quiet must still report" (offer): every alert that
\* was accepted is sent or fails, and its event says which, until a send raises and
\* takes the alert thread with it: then nothing settles what is queued or comes later.
EveryAlertSettled == \A e \in HitNo :
    (\E s \in InFlight : At(s).id = e)
        ~> ~alive \/ (e \in DOMAIN events /\ events[e].note \in {"sent", "failed"})
=============================================================================
