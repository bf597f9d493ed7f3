----------------------------- MODULE ReadLedger -----------------------------
(***************************************************************************)
(* What the durable Windows inbox promises, without polling, checkpoints,  *)
(* queues or processes: a canary read that was accepted waits until one    *)
(* event takes it, and no accepted read is forgotten, taken twice, or put  *)
(* into an event of another path.                                          *)
(***************************************************************************)
CONSTANTS Canaries   \* the paths that have a canary

VARIABLES waiting,   \* accepted reads no event has taken: {[read, path]}
          taken      \* one [reads, path] for each event that took reads

ledgerVars == <<waiting, taken>>

LedgerInit == waiting = {} /\ taken = {}

Settled == UNION {e.reads : e \in taken}

\* A read of a canary that was never seen before is accepted.
Accept(w) ==
    /\ w.path \in Canaries
    /\ w.read \notin {v.read : v \in waiting} \cup Settled
    /\ waiting' = waiting \cup {w}
    /\ UNCHANGED taken

\* One event takes some of the waiting reads of one path.
Record(batch, path) ==
    /\ batch # {} /\ batch \subseteq waiting
    /\ \A w \in batch : w.path = path
    /\ waiting' = waiting \ batch
    /\ taken' = taken \cup {[reads |-> {w.read : w \in batch}, path |-> path]}

LedgerNext ==
    \/ \E w \in waiting' : Accept(w)
    \/ \E path \in Canaries, batch \in SUBSET waiting : Record(batch, path)

LedgerSpec == LedgerInit /\ [][LedgerNext]_ledgerVars
=============================================================================
