--------------------------- MODULE Delivery_proofs ---------------------------
(***************************************************************************)
(* Proofs about Delivery: types, one event per hit, what is suppressed as  *)
(* advisory, how bursts are released, and what the cooldown means.         *)
(*                                                                         *)
(* The invariants are about who holds a hit.  A hit waits in hitq, then in *)
(* an item of pend, then in one of ready, then in an event; HitsOf says    *)
(* what a sequence of these holds, Queued and Sent say it of the queue and *)
(* of the messages in flight, and Ledger says that they are apart.         *)
(***************************************************************************)
EXTENDS Delivery, FiniteSetTheorems, WellFoundedInduction, TLAPS

Hit == [n : HitNo, path : Paths, type : EventTypes, age : 0 .. DedupWindow,
        advisory : BOOLEAN, durable : BOOLEAN]

HitsOf(s) == UNION {s[i].hits : i \in DOMAIN s}
Disjoint(s) == \A i, j \in DOMAIN s : s[i].hits \cap s[j].hits # {} => i = j
Numbers(q) == {q[i].n : i \in DOMAIN q}

Spots(b) == UNION {{<<j, k>> : k \in DOMAIN b[j]} : j \in DOMAIN b}
Put(b, s) == b[s[1]][s[2]]
SentOf(b) == UNION {Put(b, s).hits : s \in Spots(b)}

\* One item per path and type.
OneKey(s) == \A i, j \in DOMAIN s : SameBurst(s[i], s[j]) => i = j

\* What is marked advisory consists of advisory hits, and nothing else does.
Exact(s, adv) == \A i \in DOMAIN s : s[i].advisory <=> s[i].hits \subseteq adv

\* Hits that are queued, pending, ready, recorded and sent are apart: only what
\* is recorded may also be in flight.
Apart(Q, P, R, E, S, n) ==
    /\ Q \cup P \cup R \cup E \cup S \subseteq 1 .. n
    /\ Q \cap (P \cup R \cup E \cup S) = {}
    /\ P \cap (R \cup E \cup S) = {}
    /\ R \cap (E \cup S) = {}

Ledger ==
    /\ OneKey(pend)
    /\ \A i, j \in DOMAIN hitq : hitq[i].n = hitq[j].n => i = j
    /\ Disjoint(pend) /\ Disjoint(ready) /\ Disjoint(events)
    /\ advisories \subseteq 1 .. emitted
    /\ Apart(Numbers(hitq), HitsOf(pend), HitsOf(ready), HitsOf(events), SentOf(Batches), emitted)

\* What is said of an item or of an event about its being advisory is true.
Honest ==
    /\ \A i \in DOMAIN hitq : hitq[i].advisory <=> hitq[i].n \in advisories
    /\ Exact(pend, advisories) /\ Exact(ready, advisories)
    /\ pc = "insert" => /\ verdict = "alert" => ~Current.advisory
                        /\ verdict = "advisory" => Current.advisory
    /\ \A e \in DOMAIN events :
          /\ events[e].note = "advisory" => events[e].hits \subseteq advisories
          /\ events[e].note \in {"sent", "failed"} => ~(events[e].hits \subseteq advisories)

\* The entries of b wait for their message: each hit once, in order, not yet
\* settled, and none that had to be suppressed.
Flight(b, ev, adv) ==
    /\ \A s, t \in Spots(b) : Put(b, s).hits \cap Put(b, t).hits # {} => s = t
    /\ \A s \in Spots(b) : Put(b, s).id # 0 =>
          /\ Put(b, s).id \in DOMAIN ev
          /\ ev[Put(b, s).id].note = "none" /\ ev[Put(b, s).id].hits = Put(b, s).hits
    /\ \A s, t \in Spots(b) : Before(s, t) /\ Put(b, s).id # 0 /\ Put(b, t).id # 0
          => Put(b, s).id < Put(b, t).id
    /\ \A s \in Spots(b) : ~(Put(b, s).hits \subseteq adv)

Burst ==
    /\ ~sweep.open => sweep.held = <<>>
    /\ SummaryOnlyForSweeps
    /\ Flight(Batches, events, advisories)

\* While inserts succeed, a path's slot is no younger than its last alert,
\* except between the decision and the insert.
Slots == faults = 0 => \A p \in Paths :
    since[p] <= slot[p] \/ (pc = "insert" /\ verdict = "alert" /\ p = Current.path)

\* The inductive invariant.
DeliveryInv == TypeOK /\ Ledger /\ Honest /\ Burst /\ Slots
-----------------------------------------------------------------------------
(* Operators of the model *)

\* Induction over the natural numbers, for a set instead of a predicate.
LEMMA NatInductive ==
    ASSUME NEW T \in SUBSET Nat, 0 \in T, \A n \in T : n + 1 \in T
    PROVE  T = Nat
<1> SUFFICES ASSUME T # Nat PROVE FALSE OBVIOUS
<1> DEFINE U == Nat \ T
<1>1. PICK x \in U : \A y \in U : ~(<<y, x>> \in OpToRel(<, Nat))
    <2>1. U \subseteq Nat /\ U # {} OBVIOUS
    <2> QED BY <2>1, WFMin, NatLessThanWellFounded, Zenon
<1>2. x \in Nat /\ x # 0 /\ x - 1 \in Nat /\ x - 1 < x BY SMT
<1>3. x - 1 \notin T
    <2>1. (x - 1) + 1 = x BY <1>2
    <2> QED BY <2>1
<1>4. <<x - 1, x>> \in Nat \X Nat BY <1>2
<1>5. <<x - 1, x>> \in OpToRel(<, Nat)
    <2>1. <<x - 1, x>>[1] < <<x - 1, x>>[2] BY <1>2
    <2> QED BY <1>4, <2>1 DEF OpToRel
<1> QED BY <1>1, <1>2, <1>3, <1>5

\* Every finite set of positive numbers can be counted in ascending order.
LEMMA AscendingExists ==
    ASSUME NEW m \in Nat, NEW S \in SUBSET (1 .. m)
    PROVE  \E f \in [1 .. Cardinality(S) -> S] : \A i, j \in DOMAIN f : i < j => f[i] < f[j]
<1> DEFINE Counted(R) == \E f \in [1 .. Cardinality(R) -> R] :
                            \A i, j \in DOMAIN f : i < j => f[i] < f[j]
           T == {n \in Nat : \A R \in SUBSET (1 .. n) : Counted(R)}
<1>1. 0 \in T
    <2>1. SUFFICES ASSUME NEW R \in SUBSET (1 .. 0) PROVE Counted(R) OBVIOUS
    <2>2. R = {} /\ Cardinality(R) = 0
        <3>1. R = {} OBVIOUS
        <3> QED BY <3>1, FS_EmptySet
    <2> DEFINE none == [k \in 1 .. 0 |-> 0]
    <2>3. none \in [1 .. Cardinality(R) -> R] BY <2>2
    <2>4. \A i, j \in DOMAIN none : i < j => none[i] < none[j] OBVIOUS
    <2> HIDE DEF none
    <2> QED BY <2>3, <2>4
<1>2. ASSUME NEW n \in T PROVE n + 1 \in T
    <2>1. SUFFICES ASSUME NEW R \in SUBSET (1 .. n + 1) PROVE Counted(R) OBVIOUS
    <2>2. CASE n + 1 \notin R
        <3>1. R \in SUBSET (1 .. n) BY <2>2
        <3> QED BY <3>1
    <2>3. CASE n + 1 \in R
        <3> DEFINE Q == R \ {n + 1}
                   c == Cardinality(Q)
        <3>1. Q \in SUBSET (1 .. n) OBVIOUS
        <3>2. IsFiniteSet(Q)
            <4>1. IsFiniteSet(1 .. n) BY FS_Interval
            <4> QED BY <4>1, <3>1, FS_Subset
        <3>3. c \in Nat BY <3>2, FS_CardinalityType
        <3>4. Cardinality(R) = c + 1
            <4>1. Q \cup {n + 1} = R BY <2>3
            <4>2. Cardinality(Q \cup {n + 1}) = c + 1 BY <3>2, FS_AddElement
            <4> QED BY <4>1, <4>2
        <3>5. Counted(Q) BY <3>1
        <3>6. PICK f \in [1 .. c -> Q] : \A i, j \in DOMAIN f : i < j => f[i] < f[j] BY <3>5
        <3> HIDE DEF c
        <3> DEFINE g == [i \in 1 .. c + 1 |-> IF i = c + 1 THEN n + 1 ELSE f[i]]
        <3>7. g \in [1 .. Cardinality(R) -> R] BY <2>3, <3>3, <3>4, <3>6
        <3>8. \A i, j \in DOMAIN g : i < j => g[i] < g[j]
            <4>1. SUFFICES ASSUME NEW i \in 1 .. c + 1, NEW j \in 1 .. c + 1, i < j
                           PROVE  g[i] < g[j] OBVIOUS
            <4>2. i \in 1 .. c /\ g[i] = f[i] /\ f[i] \in 1 .. n
                <5>1. i \in 1 .. c /\ i # c + 1 BY <3>3, <4>1
                <5>2. f[i] \in Q BY <5>1, <3>6
                <5>3. g[i] = f[i] BY <5>1, <4>1
                <5> QED BY <5>1, <5>2, <5>3, <3>1
            <4>3. CASE j = c + 1 BY <4>2, <4>3
            <4>4. CASE j # c + 1
                <5>1. j \in 1 .. c BY <3>3, <4>4
                <5> QED BY <5>1, <4>1, <4>2, <3>6
            <4> QED BY <4>3, <4>4
        <3> HIDE DEF g
        <3> QED BY <3>7, <3>8
    <2> QED BY <2>2, <2>3
<1>3. T = Nat
    <2> HIDE DEF T
    <2>1. T \in SUBSET Nat BY DEF T
    <2> QED BY <1>1, <1>2, <2>1, NatInductive
<1> QED BY <1>3

\* The chosen items are the items at positions in S, each at most once.
LEMMA ChosenFacts ==
    ASSUME NEW I, NEW s \in Seq(I), NEW S \in SUBSET DOMAIN s
    PROVE  /\ Chosen(s, S) \in Seq(I)
           /\ \E f \in [DOMAIN Chosen(s, S) -> S] :
                 /\ \A i \in DOMAIN Chosen(s, S) : Chosen(s, S)[i] = s[f[i]]
                 /\ \A i, j \in DOMAIN Chosen(s, S) : f[i] = f[j] => i = j
<1> DEFINE c == Cardinality(S)
<1>1. Len(s) \in Nat /\ DOMAIN s = 1 .. Len(s) /\ S \in SUBSET (1 .. Len(s)) OBVIOUS
<1>2. c \in Nat
    <2>1. IsFiniteSet(1 .. Len(s)) BY <1>1, FS_Interval
    <2> QED BY <2>1, <1>1, FS_Subset, FS_CardinalityType
<1>3. /\ Ascending(S) \in [1 .. c -> S]
      /\ \A i, j \in DOMAIN Ascending(S) : i < j => Ascending(S)[i] < Ascending(S)[j]
    <2>1. \E f \in [1 .. c -> S] : \A i, j \in DOMAIN f : i < j => f[i] < f[j]
        BY <1>1, AscendingExists
    <2> QED BY <2>1 DEF Ascending
<1> HIDE DEF c
<1>4. Chosen(s, S) = [i \in 1 .. c |-> s[Ascending(S)[i]]] BY DEF Chosen, c
<1>5. \A i \in 1 .. c : Ascending(S)[i] \in S /\ s[Ascending(S)[i]] \in I BY <1>3, <1>1
<1>6. Chosen(s, S) \in Seq(I) BY <1>2, <1>4, <1>5
<1>7. \A i, j \in 1 .. c : Ascending(S)[i] = Ascending(S)[j] => i = j
    <2>1. SUFFICES ASSUME NEW i \in 1 .. c, NEW j \in 1 .. c, Ascending(S)[i] = Ascending(S)[j]
                   PROVE  i = j OBVIOUS
    <2>2. Ascending(S)[i] \in Nat /\ Ascending(S)[j] \in Nat BY <1>1, <1>5
    <2>3. i < j \/ j < i \/ i = j BY <1>2
    <2> QED BY <1>3, <2>1, <2>2, <2>3
<1>8. DOMAIN Chosen(s, S) = 1 .. c BY <1>4
<1>9. /\ Ascending(S) \in [DOMAIN Chosen(s, S) -> S]
      /\ \A i \in DOMAIN Chosen(s, S) : Chosen(s, S)[i] = s[Ascending(S)[i]]
      /\ \A i, j \in DOMAIN Chosen(s, S) : Ascending(S)[i] = Ascending(S)[j] => i = j
    BY <1>3, <1>4, <1>7, <1>8
<1> QED BY <1>6, <1>9

\* What the chosen items hold was held before, by the same rules, and disjoint
\* choices hold nothing in common.
LEMMA ChosenHolds ==
    ASSUME NEW I, NEW s \in Seq(I), NEW S \in SUBSET DOMAIN s, NEW adv
    PROVE  /\ HitsOf(Chosen(s, S)) \subseteq UNION {s[i].hits : i \in S}
           /\ OneKey(s) => OneKey(Chosen(s, S))
           /\ Disjoint(s) => Disjoint(Chosen(s, S))
           /\ Exact(s, adv) => Exact(Chosen(s, S), adv)
<1> DEFINE c == Chosen(s, S)
<1>1. PICK f \in [DOMAIN c -> S] :
         /\ \A i \in DOMAIN c : c[i] = s[f[i]]
         /\ \A i, j \in DOMAIN c : f[i] = f[j] => i = j BY ChosenFacts
<1> HIDE DEF c
<1>2. \A i \in DOMAIN c : f[i] \in S /\ f[i] \in DOMAIN s BY <1>1
<1>3. HitsOf(c) \subseteq UNION {s[i].hits : i \in S} BY <1>1, <1>2 DEF HitsOf
<1>4. OneKey(s) => OneKey(c) BY <1>1, <1>2 DEF OneKey
<1>5. Disjoint(s) => Disjoint(c) BY <1>1, <1>2 DEF Disjoint
<1>6. Exact(s, adv) => Exact(c, adv) BY <1>1, <1>2 DEF Exact
<1> QED BY <1>3, <1>4, <1>5, <1>6 DEF c

\* The parts of a sequence that are chosen by disjoint sets share no hit.
LEMMA ChosenApart ==
    ASSUME NEW I, NEW s \in Seq(I), NEW S \in SUBSET DOMAIN s, Disjoint(s)
    PROVE  /\ HitsOf(Chosen(s, S)) \subseteq HitsOf(s)
           /\ HitsOf(Chosen(s, DOMAIN s \ S)) \subseteq HitsOf(s)
           /\ HitsOf(Chosen(s, DOMAIN s \ S)) \cap HitsOf(Chosen(s, S)) = {}
<1> DEFINE R == DOMAIN s \ S
           InR == UNION {s[i].hits : i \in R}
           InS == UNION {s[i].hits : i \in S}
<1>1. HitsOf(Chosen(s, S)) \subseteq InS BY ChosenHolds
<1>2. HitsOf(Chosen(s, R)) \subseteq InR BY ChosenHolds
<1>3. InR \cap InS = {}
    <2>1. SUFFICES ASSUME NEW x \in InR, x \in InS PROVE FALSE OBVIOUS
    <2>2. PICK i \in R : x \in s[i].hits OBVIOUS
    <2>3. PICK j \in S : x \in s[j].hits BY <2>1
    <2>4. i = j BY <2>2, <2>3 DEF Disjoint
    <2> QED BY <2>4
<1>4. InR \subseteq HitsOf(s) /\ InS \subseteq HitsOf(s) BY DEF HitsOf
<1> HIDE DEF InR, InS
<1> QED BY <1>1, <1>2, <1>3, <1>4

\* Merging a hit adds its number to what is pending, in one item.
LEMMA MergeFacts ==
    ASSUME NEW s \in Seq(Item), NEW h \in Hit, NEW adv,
           OneKey(s), Disjoint(s), Exact(s, adv),
           h.n \notin HitsOf(s), h.advisory <=> h.n \in adv
    PROVE  /\ Merge(s, h) \in Seq(Item)
           /\ HitsOf(Merge(s, h)) \subseteq HitsOf(s) \cup {h.n}
           /\ OneKey(Merge(s, h)) /\ Disjoint(Merge(s, h)) /\ Exact(Merge(s, h), adv)
<1> DEFINE g == Merge(s, h)
<1>0. /\ Len(s) \in Nat /\ DOMAIN s = 1 .. Len(s) /\ \A i \in DOMAIN s : s[i] \in Item
      /\ h.n \in HitNo BY DEF Hit
<1>1. CASE \E i \in DOMAIN s : SameBurst(s[i], h)
    <2>1. g = [i \in DOMAIN s |->
                 IF SameBurst(s[i], h)
                 THEN [s[i] EXCEPT !.hits = @ \cup {h.n}, !.advisory = @ /\ h.advisory,
                                   !.durable = @ \/ h.durable]
                 ELSE s[i]] BY <1>1 DEF Merge
    <2>2. DOMAIN g = DOMAIN s BY <2>1
    <2>3. ASSUME NEW i \in DOMAIN s
          PROVE  /\ g[i] \in Item /\ g[i].path = s[i].path /\ g[i].type = s[i].type
                 /\ SameBurst(s[i], h) => /\ g[i].hits = s[i].hits \cup {h.n}
                                          /\ g[i].advisory = (s[i].advisory /\ h.advisory)
                 /\ ~SameBurst(s[i], h) => g[i] = s[i]
        <3>1. s[i] \in Item BY <1>0
        <3>2. CASE SameBurst(s[i], h)
            <4>1. g[i] = [s[i] EXCEPT !.hits = @ \cup {h.n}, !.advisory = @ /\ h.advisory,
                                      !.durable = @ \/ h.durable] BY <2>1, <3>2
            <4> HIDE DEF g
            <4>2. (s[i].advisory /\ h.advisory) \in BOOLEAN /\ (s[i].durable \/ h.durable) \in BOOLEAN
                OBVIOUS
            <4>3. s[i].hits \cup {h.n} \in SUBSET HitNo BY <3>1, <1>0 DEF Item
            <4> QED BY <4>1, <4>2, <4>3, <3>1, <3>2 DEF Item
        <3>3. CASE ~SameBurst(s[i], h)
            <4>1. g[i] = s[i] BY <2>1, <3>3
            <4> HIDE DEF g
            <4> QED BY <4>1, <3>1, <3>3
        <3> QED BY <3>2, <3>3
    <2> HIDE DEF g
    <2>4. g \in Seq(Item)
        <3>1. g = [i \in 1 .. Len(s) |-> g[i]] BY <2>1, <2>2, <1>0
        <3>2. \A i \in 1 .. Len(s) : g[i] \in Item BY <2>3, <1>0
        <3> QED BY <3>1, <3>2, <1>0
    <2>5. HitsOf(g) \subseteq HitsOf(s) \cup {h.n} BY <2>2, <2>3 DEF HitsOf
    <2>6. OneKey(g)
        <3>1. \A i, j \in DOMAIN s : SameBurst(g[i], g[j]) => SameBurst(s[i], s[j])
            BY <2>3 DEF SameBurst
        <3> QED BY <3>1, <2>2 DEF OneKey
    <2>7. Disjoint(g)
        <3>1. \A i \in DOMAIN s : h.n \notin s[i].hits BY DEF HitsOf
        <3>2. \A i, j \in DOMAIN s : SameBurst(s[i], h) /\ SameBurst(s[j], h) => i = j
            BY DEF OneKey, SameBurst
        <3> QED BY <2>2, <2>3, <3>1, <3>2 DEF Disjoint
    <2>8. Exact(g, adv)
        <3> SUFFICES ASSUME NEW i \in DOMAIN s
                     PROVE  g[i].advisory <=> g[i].hits \subseteq adv BY <2>2 DEF Exact
        <3>1. s[i].advisory <=> s[i].hits \subseteq adv BY DEF Exact
        <3> QED BY <2>3, <3>1
    <2> QED BY <2>4, <2>5, <2>6, <2>7, <2>8 DEF g
<1>2. CASE ~ \E i \in DOMAIN s : SameBurst(s[i], h)
    <2> DEFINE e == [path |-> h.path, type |-> h.type, age |-> h.age, hits |-> {h.n},
                     advisory |-> h.advisory, durable |-> h.durable]
    <2>1. g = Append(s, e) BY <1>2 DEF Merge
    <2>2. /\ e \in Item /\ e.hits = {h.n} /\ e.advisory = h.advisory
          /\ e.path = h.path /\ e.type = h.type BY DEF Item, Hit
    <2> HIDE DEF e, g
    <2>3. g \in Seq(Item) BY <2>1, <2>2
    <2>4. /\ DOMAIN g = DOMAIN s \cup {Len(s) + 1} /\ g[Len(s) + 1] = e
          /\ \A i \in DOMAIN s : g[i] = s[i] /\ i # Len(s) + 1 BY <1>0, <2>1, <2>2
    <2>5. HitsOf(g) \subseteq HitsOf(s) \cup {h.n} BY <2>2, <2>4 DEF HitsOf
    <2>6. OneKey(g)
        <3>1. \A i \in DOMAIN s : ~SameBurst(s[i], e) /\ ~SameBurst(e, s[i])
            BY <1>2, <2>2 DEF SameBurst
        <3> QED BY <3>1, <2>4 DEF OneKey
    <2>7. Disjoint(g)
        <3>1. \A i \in DOMAIN s : h.n \notin s[i].hits BY DEF HitsOf
        <3> QED BY <2>2, <2>4, <3>1 DEF Disjoint
    <2>8. Exact(g, adv)
        <3>1. e.advisory <=> e.hits \subseteq adv BY <2>2
        <3> QED BY <2>4, <3>1 DEF Exact
    <2> QED BY <2>3, <2>5, <2>6, <2>7, <2>8 DEF g
<1> QED BY <1>1, <1>2
-----------------------------------------------------------------------------
(* Batches of entries that wait for their message *)

Batch == Seq(Entry)

\* What b2 holds, b1 holds in the same order.
Embeds(b2, b1) == \E m \in [Spots(b2) -> Spots(b1)] :
    /\ \A s, t \in Spots(b2) : Before(s, t) => Before(m[s], m[t])
    /\ \A s \in Spots(b2) : Put(b2, s) = Put(b1, m[s])

\* A spot is the number of a batch and a number in that batch.
LEMMA SpotFacts ==
    ASSUME NEW b \in Seq(Batch)
    PROVE  /\ \A s \in Spots(b) : /\ s = <<s[1], s[2]>> /\ s[1] \in DOMAIN b /\ s[2] \in DOMAIN b[s[1]]
                                  /\ s[1] \in Nat \ {0} /\ s[2] \in Nat \ {0}
                                  /\ Put(b, s) \in Entry
           /\ \A j \in DOMAIN b : \A k \in DOMAIN b[j] : <<j, k>> \in Spots(b)
           /\ \A j \in DOMAIN b : b[j] \in Batch /\ DOMAIN b[j] = 1 .. Len(b[j])
<1>1. \A j \in DOMAIN b : b[j] \in Batch /\ DOMAIN b[j] = 1 .. Len(b[j]) BY DEF Batch
<1>2. ASSUME NEW s \in Spots(b)
      PROVE  /\ s = <<s[1], s[2]>> /\ s[1] \in DOMAIN b /\ s[2] \in DOMAIN b[s[1]]
             /\ s[1] \in Nat \ {0} /\ s[2] \in Nat \ {0} /\ Put(b, s) \in Entry
    <2>1. PICK j \in DOMAIN b : \E k \in DOMAIN b[j] : s = <<j, k>> BY DEF Spots
    <2>2. PICK k \in DOMAIN b[j] : s = <<j, k>> BY <2>1
    <2>3. s[1] = j /\ s[2] = k BY <2>2
    <2>4. b[j] \in Seq(Entry) BY <1>1 DEF Batch
    <2>5. b[j][k] \in Entry BY <2>4
    <2>6. k \in Nat \ {0} BY <2>4
    <2> QED BY <2>2, <2>3, <2>5, <2>6 DEF Put
<1>3. \A j \in DOMAIN b : \A k \in DOMAIN b[j] : <<j, k>> \in Spots(b) BY DEF Spots
<1> QED BY <1>1, <1>2, <1>3

\* Two spots come one before the other, and no spot before itself.
LEMMA SpotOrder ==
    ASSUME NEW b \in Seq(Batch), NEW s \in Spots(b), NEW t \in Spots(b)
    PROVE  /\ s # t => Before(s, t) \/ Before(t, s)
           /\ ~Before(s, s)
<1>1. /\ s = <<s[1], s[2]>> /\ s[1] \in Nat /\ s[2] \in Nat
      /\ t = <<t[1], t[2]>> /\ t[1] \in Nat /\ t[2] \in Nat BY SpotFacts
<1> QED BY <1>1 DEF Before

\* What holds of the entries in flight holds of any part of them.
LEMMA FlightShrinks ==
    ASSUME NEW b1 \in Seq(Batch), NEW b2 \in Seq(Batch), NEW ev, NEW adv,
           Embeds(b2, b1), Flight(b1, ev, adv)
    PROVE  Flight(b2, ev, adv) /\ SentOf(b2) \subseteq SentOf(b1)
<1>1. PICK m \in [Spots(b2) -> Spots(b1)] :
         /\ \A s, t \in Spots(b2) : Before(s, t) => Before(m[s], m[t])
         /\ \A s \in Spots(b2) : Put(b2, s) = Put(b1, m[s]) BY DEF Embeds
<1>2. \A s \in Spots(b2) : m[s] \in Spots(b1) BY <1>1
<1>3. ASSUME NEW s \in Spots(b2), NEW t \in Spots(b2), m[s] = m[t] PROVE s = t
    <2>1. ~Before(m[s], m[t]) /\ ~Before(m[t], m[s]) BY <1>2, <1>3, SpotOrder
    <2>2. ~Before(s, t) /\ ~Before(t, s) BY <2>1, <1>1
    <2> QED BY <2>2, SpotOrder
<1>4. SentOf(b2) \subseteq SentOf(b1) BY <1>1, <1>2 DEF SentOf
<1>5. \A s, t \in Spots(b2) : Put(b2, s).hits \cap Put(b2, t).hits # {} => s = t
    BY <1>1, <1>2, <1>3 DEF Flight
<1>6. \A s \in Spots(b2) : Put(b2, s).id # 0 =>
          /\ Put(b2, s).id \in DOMAIN ev
          /\ ev[Put(b2, s).id].note = "none" /\ ev[Put(b2, s).id].hits = Put(b2, s).hits
    BY <1>1, <1>2 DEF Flight
<1>7. \A s, t \in Spots(b2) : Before(s, t) /\ Put(b2, s).id # 0 /\ Put(b2, t).id # 0
          => Put(b2, s).id < Put(b2, t).id
    BY <1>1, <1>2 DEF Flight
<1>8. \A s \in Spots(b2) : ~(Put(b2, s).hits \subseteq adv) BY <1>1, <1>2 DEF Flight
<1> QED BY <1>4, <1>5, <1>6, <1>7, <1>8 DEF Flight

\* Events that are not settled, and hits that are not in flight, do not matter.
LEMMA FlightKept ==
    ASSUME NEW b \in Seq(Batch), NEW ev, NEW ev2, NEW adv, NEW adv2, Flight(b, ev, adv),
           \A s \in Spots(b) : Put(b, s).id # 0 =>
               /\ Put(b, s).id \in DOMAIN ev2
               /\ ev2[Put(b, s).id].note = "none"
               /\ ev2[Put(b, s).id].hits = ev[Put(b, s).id].hits,
           (adv2 \ adv) \cap SentOf(b) = {}
    PROVE  Flight(b, ev2, adv2)
<1>1. \A s \in Spots(b) : Put(b, s).hits \subseteq SentOf(b) BY DEF SentOf
<1>2. \A s \in Spots(b) : ~(Put(b, s).hits \subseteq adv2) BY <1>1 DEF Flight
<1> QED BY <1>2 DEF Flight

\* A new entry goes to the end of the batch that is held.
LEMMA FlightGrows ==
    ASSUME NEW q \in Seq(Batch), NEW h \in Batch, NEW e \in Entry, NEW ev, NEW adv,
           Flight(Append(q, h), ev, adv),
           e.hits \cap SentOf(Append(q, h)) = {}, ~(e.hits \subseteq adv),
           e.id # 0 => /\ e.id \in DOMAIN ev
                       /\ ev[e.id].note = "none" /\ ev[e.id].hits = e.hits
                       /\ \A s \in Spots(Append(q, h)) : Put(Append(q, h), s).id < e.id
    PROVE  /\ Append(q, Append(h, e)) \in Seq(Batch)
           /\ Flight(Append(q, Append(h, e)), ev, adv)
           /\ SentOf(Append(q, Append(h, e))) \subseteq SentOf(Append(q, h)) \cup e.hits
<1> DEFINE b0 == Append(q, h)
           b1 == Append(q, Append(h, e))
           new == <<Len(q) + 1, Len(h) + 1>>
<1>0. /\ h \in Seq(Entry) /\ Len(h) \in Nat /\ Len(q) \in Nat /\ Append(h, e) \in Batch
      /\ DOMAIN q = 1 .. Len(q) /\ DOMAIN h = 1 .. Len(h) BY DEF Batch
<1>1. b0 \in Seq(Batch) /\ b1 \in Seq(Batch) BY <1>0
<1>2. /\ DOMAIN b0 = 1 .. Len(q) + 1 /\ DOMAIN b1 = 1 .. Len(q) + 1
      /\ \A j \in 1 .. Len(q) : b0[j] = q[j] /\ b1[j] = q[j]
      /\ b0[Len(q) + 1] = h /\ b1[Len(q) + 1] = Append(h, e) BY <1>0
<1>3. /\ DOMAIN Append(h, e) = 1 .. Len(h) + 1 /\ Append(h, e)[Len(h) + 1] = e
      /\ \A k \in 1 .. Len(h) : Append(h, e)[k] = h[k] BY <1>0
<1> HIDE DEF b0, b1
<1>4. ASSUME NEW s \in Spots(b1), s # new
      PROVE  s \in Spots(b0) /\ Put(b1, s) = Put(b0, s) /\ Before(s, new) /\ ~Before(new, s)
    <2>1. /\ s = <<s[1], s[2]>> /\ s[1] \in 1 .. Len(q) + 1 /\ s[2] \in DOMAIN b1[s[1]]
          /\ s[2] \in Nat BY SpotFacts, <1>1, <1>2
    <2>2. CASE s[1] \in 1 .. Len(q)
        <3>1. s[2] \in DOMAIN b0[s[1]] /\ b1[s[1]] = b0[s[1]] BY <2>1, <2>2, <1>2
        <3>2. <<s[1], s[2]>> \in Spots(b0) BY <3>1, <2>2, <1>1, <1>2, <1>0, SpotFacts
        <3> QED BY <3>1, <3>2, <2>1, <2>2, <1>0 DEF Put, Before
    <2>3. CASE s[1] \notin 1 .. Len(q)
        <3>1. s[1] = Len(q) + 1 BY <2>1, <2>3, <1>0
        <3>2. s[2] \in 1 .. Len(h) + 1 BY <3>1, <2>1, <1>2, <1>3
        <3>3. s[2] # Len(h) + 1 BY <3>1, <2>1, <1>4
        <3>4. s[2] \in 1 .. Len(h) BY <3>2, <3>3, <1>0
        <3>5. <<s[1], s[2]>> \in Spots(b0) BY <3>1, <3>4, <1>0, <1>1, <1>2, SpotFacts
        <3>6. Put(b1, s) = Put(b0, s) BY <3>1, <3>4, <1>2, <1>3 DEF Put
        <3>7. s[1] = Len(q) + 1 /\ s[2] < Len(h) + 1 BY <3>1, <3>4, <1>0
        <3>8. new[1] = Len(q) + 1 /\ new[2] = Len(h) + 1 OBVIOUS
        <3> HIDE DEF new
        <3>9. Before(s, new) /\ ~Before(new, s) BY <3>7, <3>8, <3>4, <1>0 DEF Before
        <3> QED BY <3>5, <3>6, <3>9, <2>1
    <2> QED BY <2>2, <2>3
<1>5. Put(b1, new) = e BY <1>2, <1>3 DEF Put
<1>6. \A s \in Spots(b0) : Put(b0, s).hits \subseteq SentOf(b0) BY DEF SentOf
<1>7. Flight(b0, ev, adv) /\ e.hits \cap SentOf(b0) = {} BY DEF b0
<1>8. SentOf(b1) \subseteq SentOf(b0) \cup e.hits
    <2>1. \A s \in Spots(b1) : Put(b1, s).hits \subseteq SentOf(b0) \cup e.hits
        BY <1>4, <1>5, <1>6
    <2> QED BY <2>1 DEF SentOf
<1>9. ASSUME NEW s \in Spots(b1), NEW t \in Spots(b1), Put(b1, s).hits \cap Put(b1, t).hits # {}
      PROVE  s = t
    <2>1. CASE s = new /\ t = new BY <2>1
    <2>2. CASE s # new /\ t # new BY <2>2, <1>4, <1>7, <1>9 DEF Flight
    <2>3. CASE s = new /\ t # new
        <3>1. Put(b1, t).hits \subseteq SentOf(b0) BY <2>3, <1>4, <1>6
        <3> QED BY <3>1, <2>3, <1>5, <1>7, <1>9
    <2>4. CASE s # new /\ t = new
        <3>1. Put(b1, s).hits \subseteq SentOf(b0) BY <2>4, <1>4, <1>6
        <3> QED BY <3>1, <2>4, <1>5, <1>7, <1>9
    <2> QED BY <2>1, <2>2, <2>3, <2>4
<1>10. ASSUME NEW s \in Spots(b1), Put(b1, s).id # 0
       PROVE  /\ Put(b1, s).id \in DOMAIN ev
              /\ ev[Put(b1, s).id].note = "none" /\ ev[Put(b1, s).id].hits = Put(b1, s).hits
    <2>1. CASE s = new BY <2>1, <1>5, <1>10
    <2>2. CASE s # new BY <2>2, <1>4, <1>7, <1>10 DEF Flight
    <2> QED BY <2>1, <2>2
<1>11. ASSUME NEW s \in Spots(b1), NEW t \in Spots(b1), Before(s, t),
              Put(b1, s).id # 0, Put(b1, t).id # 0
       PROVE  Put(b1, s).id < Put(b1, t).id
    <2>1. s # new
        <3>1. ~Before(new, new) BY <1>0 DEF Before
        <3> QED BY <3>1, <1>4, <1>11
    <2>2. CASE t = new BY <2>1, <2>2, <1>4, <1>5, <1>11 DEF b0
    <2>3. CASE t # new BY <2>1, <2>3, <1>4, <1>7, <1>11 DEF Flight
    <2> QED BY <2>2, <2>3
<1>12. \A s \in Spots(b1) : ~(Put(b1, s).hits \subseteq adv)
    <2>1. \A s \in Spots(b1) : s # new => ~(Put(b1, s).hits \subseteq adv)
        BY <1>4, <1>7 DEF Flight
    <2> QED BY <2>1, <1>5
<1>13. Flight(b1, ev, adv) BY <1>9, <1>10, <1>11, <1>12 DEF Flight
<1> QED BY <1>1, <1>8, <1>13 DEF b0, b1

\* Closing a burst gives well formed messages, summaries only for sweeps.
LEMMA JobsFacts ==
    ASSUME DeliveryAssumption, NEW h \in Batch
    PROVE  /\ Jobs(h) \in Seq(Batch)
           /\ \A j \in DOMAIN Jobs(h) : Len(Jobs(h)[j]) = 1 \/ Len(Jobs(h)[j]) >= Threshold
<1>0. /\ h \in Seq(Entry) /\ Len(h) \in Nat /\ DOMAIN h = 1 .. Len(h)
      /\ \A i \in DOMAIN h : h[i] \in Entry /\ Threshold \in Nat BY DEF Batch, DeliveryAssumption
<1>1. CASE Len(h) < Threshold
    <2>1. Jobs(h) = [i \in 1 .. Len(h) |-> <<h[i]>>] BY <1>0, <1>1 DEF Jobs
    <2>2. \A i \in 1 .. Len(h) : <<h[i]>> \in Batch /\ Len(<<h[i]>>) = 1 BY <1>0 DEF Batch
    <2> QED BY <2>1, <2>2, <1>0
<1>2. CASE ~(Len(h) < Threshold)
    <2>1. Jobs(h) = <<h>> /\ Len(h) >= Threshold BY <1>0, <1>2 DEF Jobs, DeliveryAssumption
    <2> QED BY <2>1
<1> QED BY <1>1, <1>2

\* The messages of a closed burst hold what was held, in the same order.
LEMMA CloseEmbeds ==
    ASSUME DeliveryAssumption, NEW q \in Seq(Batch), NEW h \in Batch
    PROVE  Embeds(Append(q \o Jobs(h), <<>>), Append(q, h))
<1> DEFINE n == Len(q)
           b1 == Append(q, h)
           b2 == Append(q \o Jobs(h), <<>>)
<1>0. /\ h \in Seq(Entry) /\ Len(h) \in Nat /\ n \in Nat /\ DOMAIN h = 1 .. Len(h)
      /\ Jobs(h) \in Seq(Batch) /\ <<>> \in Batch /\ Threshold \in Nat
    BY JobsFacts DEF Batch, DeliveryAssumption
<1>1. b1 \in Seq(Batch) /\ b2 \in Seq(Batch) /\ q \o Jobs(h) \in Seq(Batch) BY <1>0
<1>2. /\ DOMAIN b1 = 1 .. n + 1 /\ b1[n + 1] = h /\ \A j \in 1 .. n : b1[j] = q[j] BY <1>0
<1>3. /\ DOMAIN b2 = 1 .. n + Len(Jobs(h)) + 1 /\ Len(Jobs(h)) \in Nat
      /\ b2[n + Len(Jobs(h)) + 1] = <<>>
      /\ \A j \in 1 .. n : b2[j] = q[j]
      /\ \A j \in 1 .. Len(Jobs(h)) : b2[n + j] = Jobs(h)[j]
    <2>1. /\ Len(Jobs(h)) \in Nat /\ Len(q \o Jobs(h)) = n + Len(Jobs(h))
          /\ \A j \in 1 .. n : (q \o Jobs(h))[j] = q[j]
          /\ \A j \in 1 .. Len(Jobs(h)) : (q \o Jobs(h))[n + j] = Jobs(h)[j] BY <1>0
    <2>2. /\ DOMAIN b2 = 1 .. Len(q \o Jobs(h)) + 1 /\ b2[Len(q \o Jobs(h)) + 1] = <<>>
          /\ \A j \in 1 .. Len(q \o Jobs(h)) : b2[j] = (q \o Jobs(h))[j] BY <1>1
    <2>3. \A j \in 1 .. n : j \in 1 .. n + Len(Jobs(h)) BY <1>0, <2>1
    <2>4. \A j \in 1 .. Len(Jobs(h)) : n + j \in 1 .. n + Len(Jobs(h)) BY <1>0, <2>1
    <2> HIDE DEF b2, n
    <2> QED BY <2>1, <2>2, <2>3, <2>4
<1> HIDE DEF b1, b2, n
<1>4. CASE Len(h) < Threshold
    <2>1. Len(Jobs(h)) = Len(h) /\ \A i \in 1 .. Len(h) : Jobs(h)[i] = <<h[i]>>
        <3>1. Jobs(h) = [i \in 1 .. Len(h) |-> <<h[i]>>] BY <1>0, <1>4 DEF Jobs
        <3> QED BY <3>1, <1>0
    <2> DEFINE m == [s \in Spots(b2) |-> IF s[1] <= n THEN s ELSE <<n + 1, s[1] - n>>]
    <2>2. ASSUME NEW s \in Spots(b2)
          PROVE  /\ s[1] \in Nat /\ s[2] \in Nat /\ s = <<s[1], s[2]>>
                 /\ m[s] \in Spots(b1) /\ Put(b2, s) = Put(b1, m[s])
                 /\ ~(s[1] <= n) => s[1] - n \in 1 .. Len(h) /\ s[2] = 1
        <3>1. /\ s = <<s[1], s[2]>> /\ s[1] \in 1 .. n + Len(h) + 1 /\ s[2] \in DOMAIN b2[s[1]]
              /\ s[1] \in Nat /\ s[2] \in Nat BY SpotFacts, <1>1, <1>3, <2>1
        <3>2. CASE s[1] <= n
            <4>1. s[1] \in 1 .. n /\ m[s] = s BY <3>1, <3>2, <1>0
            <4>2. b1[s[1]] = b2[s[1]] /\ s[1] \in DOMAIN b1 BY <4>1, <1>2, <1>3, <1>0
            <4>3. <<s[1], s[2]>> \in Spots(b1) BY <4>2, <3>1, <1>1, SpotFacts
            <4>4. s \in Spots(b1) BY <4>3, <3>1
            <4>5. Put(b2, s) = Put(b1, s) BY <4>2 DEF Put
            <4> HIDE DEF m
            <4> QED BY <3>1, <3>2, <4>1, <4>4, <4>5
        <3>3. CASE ~(s[1] <= n)
            <4> DEFINE i == s[1] - n
            <4>a. n \in Nat /\ Len(h) \in Nat BY <1>0
            <4>b. s[1] \in 1 .. n + Len(h) + 1 BY <3>1
            <4>0. s[1] = n + i /\ i \in 1 .. Len(h) + 1
                <5>1. \A x, y, z \in Nat : x \in 1 .. y + z + 1 /\ ~(x <= y)
                          => x = y + (x - y) /\ x - y \in 1 .. z + 1 OBVIOUS
                <5> QED BY <5>1, <4>a, <4>b, <3>3, <3>1
            <4>1. m[s] = <<n + 1, i>> BY <3>3
            <4> HIDE DEF i, m
            <4>2. i # Len(h) + 1
                <5>1. SUFFICES ASSUME i = Len(h) + 1 PROVE FALSE OBVIOUS
                <5>2. s[1] = n + Len(h) + 1 BY <4>0, <5>1, <1>0
                <5>3. b2[s[1]] = <<>> BY <5>2, <1>3, <2>1
                <5> QED BY <5>3, <3>1
            <4>3. i \in 1 .. Len(h) BY <4>0, <4>2, <4>a
            <4>4. b2[s[1]] = <<h[i]>> BY <4>0, <4>3, <2>1, <1>3
            <4>5. s[2] = 1 BY <4>4, <3>1
            <4>6. <<n + 1, i>> \in Spots(b1)
                <5>1. n + 1 \in DOMAIN b1 /\ i \in DOMAIN b1[n + 1] BY <4>3, <1>0, <1>2
                <5> QED BY <5>1, <1>1, SpotFacts
            <4>7. Put(b2, s) = h[i] BY <4>4, <4>5 DEF Put
            <4>8. Put(b1, <<n + 1, i>>) = h[i] BY <1>2 DEF Put
            <4> QED BY <3>1, <4>1, <4>3, <4>5, <4>6, <4>7, <4>8 DEF i
        <3> QED BY <3>2, <3>3
    <2>3. ASSUME NEW s \in Spots(b2), NEW t \in Spots(b2), Before(s, t)
          PROVE  Before(m[s], m[t])
        <3>1. /\ m[s] = IF s[1] <= n THEN s ELSE <<n + 1, s[1] - n>>
              /\ m[t] = IF t[1] <= n THEN t ELSE <<n + 1, t[1] - n>> OBVIOUS
        <3>2. /\ s[1] \in Nat /\ s[2] \in Nat /\ t[1] \in Nat /\ t[2] \in Nat
              /\ ~(s[1] <= n) => s[2] = 1
              /\ ~(t[1] <= n) => t[2] = 1 BY <2>2
        <3>3. s[1] < t[1] \/ (s[1] = t[1] /\ s[2] < t[2]) BY <2>3 DEF Before
        <3> HIDE DEF m
        <3>4. CASE t[1] <= n
            <4>1. n \in Nat BY <1>0
            <4>2. s[1] <= n BY <4>1, <3>2, <3>3, <3>4
            <4>3. m[s] = s /\ m[t] = t BY <4>2, <3>1, <3>4
            <4> QED BY <4>3, <2>3
        <3>5. CASE ~(t[1] <= n) /\ s[1] <= n
            <4>1. m[s] = s /\ m[t][1] = n + 1 BY <3>1, <3>5
            <4> QED BY <4>1, <3>2, <3>5, <1>0 DEF Before
        <3>6. CASE ~(t[1] <= n) /\ ~(s[1] <= n)
            <4>1. /\ m[s][1] = n + 1 /\ m[s][2] = s[1] - n
                  /\ m[t][1] = n + 1 /\ m[t][2] = t[1] - n BY <3>1, <3>6
            <4>2. s[1] < t[1] BY <3>2, <3>3, <3>6
            <4> QED BY <4>1, <4>2, <3>2, <1>0 DEF Before
        <3> QED BY <3>4, <3>5, <3>6
    <2>4. m \in [Spots(b2) -> Spots(b1)] BY <2>2
    <2> HIDE DEF m
    <2>5. Embeds(b2, b1) BY <2>2, <2>3, <2>4 DEF Embeds
    <2> QED BY <2>5 DEF b1, b2
<1>5. CASE ~(Len(h) < Threshold)
    <2>1. Jobs(h) = <<h>> /\ Len(Jobs(h)) = 1 /\ Jobs(h)[1] = h BY <1>5 DEF Jobs
    <2> DEFINE m == [s \in Spots(b2) |-> s]
    <2>2. ASSUME NEW s \in Spots(b2) PROVE s \in Spots(b1) /\ Put(b2, s) = Put(b1, s)
        <3>1. /\ s = <<s[1], s[2]>> /\ s[1] \in 1 .. n + 1 + 1 /\ s[2] \in DOMAIN b2[s[1]]
            BY SpotFacts, <1>1, <1>3, <2>1
        <3>2. s[1] # n + 1 + 1
            <4>1. b2[n + 1 + 1] = <<>> BY <1>3, <2>1
            <4> QED BY <4>1, <3>1
        <3>3. s[1] \in 1 .. n \/ s[1] = n + 1 BY <3>1, <3>2, <1>0
        <3>4. b2[n + 1] = h BY <1>3, <2>1
        <3>5. b2[s[1]] = b1[s[1]] /\ s[1] \in DOMAIN b1 BY <3>3, <3>4, <1>2, <1>3, <1>0
        <3>6. <<s[1], s[2]>> \in Spots(b1) BY <3>5, <3>1, <1>1, SpotFacts
        <3> QED BY <3>1, <3>5, <3>6 DEF Put
    <2>3. m \in [Spots(b2) -> Spots(b1)] /\ \A s \in Spots(b2) : m[s] = s BY <2>2
    <2> HIDE DEF m
    <2>4. Embeds(b2, b1) BY <2>2, <2>3 DEF Embeds
    <2> QED BY <2>4 DEF b1, b2
<1> QED BY <1>4, <1>5

\* An alert that goes out at once is the only one of its burst.
LEMMA FirstEmbeds ==
    ASSUME NEW q \in Seq(Batch), NEW e \in Entry
    PROVE  Embeds(Append(Append(q, <<e>>), <<>>), Append(q, Append(<<>>, e)))
<1> DEFINE n == Len(q)
           b1 == Append(q, Append(<<>>, e))
           b2 == Append(Append(q, <<e>>), <<>>)
           m == [s \in Spots(b2) |-> s]
<1>0. n \in Nat /\ <<e>> \in Batch /\ <<>> \in Batch /\ Append(<<>>, e) = <<e>> BY DEF Batch
<1>1. b1 \in Seq(Batch) /\ b2 \in Seq(Batch) BY <1>0
<1>2. /\ DOMAIN b1 = 1 .. n + 1 /\ b1[n + 1] = <<e>> /\ \A j \in 1 .. n : b1[j] = q[j] BY <1>0
<1>3. /\ DOMAIN b2 = 1 .. n + 2 /\ b2[n + 1] = <<e>> /\ b2[n + 2] = <<>>
      /\ \A j \in 1 .. n : b2[j] = q[j] BY <1>0
<1> HIDE DEF b1, b2, n
<1>4. ASSUME NEW s \in Spots(b2) PROVE s \in Spots(b1) /\ Put(b2, s) = Put(b1, s)
    <2>1. s = <<s[1], s[2]>> /\ s[1] \in 1 .. n + 2 /\ s[2] \in DOMAIN b2[s[1]]
        BY SpotFacts, <1>1, <1>3
    <2>2. s[1] # n + 2 BY <2>1, <1>3
    <2>3. s[1] \in 1 .. n \/ s[1] = n + 1 BY <2>1, <2>2, <1>0
    <2>4. b2[s[1]] = b1[s[1]] /\ s[1] \in DOMAIN b1 BY <2>3, <1>2, <1>3, <1>0
    <2>5. <<s[1], s[2]>> \in Spots(b1) BY <2>4, <2>1, <1>1, SpotFacts
    <2> QED BY <2>1, <2>4, <2>5 DEF Put
<1>5. m \in [Spots(b2) -> Spots(b1)] /\ \A s \in Spots(b2) : m[s] = s BY <1>4
<1> HIDE DEF m
<1>6. Embeds(b2, b1) BY <1>4, <1>5 DEF Embeds
<1> QED BY <1>6 DEF b1, b2

\* What is left after a message was sent comes after it.
LEMMA TailEmbeds ==
    ASSUME NEW q \in Seq(Batch), q # <<>>, NEW h \in Batch
    PROVE  /\ Embeds(Append(Tail(q), h), Append(q, h))
           /\ \A s \in Spots(Append(Tail(q), h)) :
                 \E t \in Spots(Append(q, h)) :
                    /\ t[1] # 1 /\ Put(Append(Tail(q), h), s) = Put(Append(q, h), t)
<1> DEFINE n == Len(q)
           b1 == Append(q, h)
           b2 == Append(Tail(q), h)
           m == [s \in Spots(b2) |-> <<s[1] + 1, s[2]>>]
<1>0. /\ n \in Nat \ {0} /\ Tail(q) \in Seq(Batch) /\ Len(Tail(q)) = n - 1
      /\ \A j \in 1 .. n - 1 : Tail(q)[j] = q[j + 1] OBVIOUS
<1>1. b1 \in Seq(Batch) /\ b2 \in Seq(Batch) BY <1>0
<1>2. /\ DOMAIN b1 = 1 .. n + 1 /\ b1[n + 1] = h /\ \A j \in 1 .. n : b1[j] = q[j] BY <1>0
<1>3. /\ DOMAIN b2 = 1 .. n /\ b2[n] = h /\ \A j \in 1 .. n - 1 : b2[j] = Tail(q)[j] BY <1>0
<1>4. \A j \in 1 .. n : b2[j] = b1[j + 1] /\ j + 1 \in DOMAIN b1
    <2> HIDE DEF b1, b2
    <2>1. SUFFICES ASSUME NEW j \in 1 .. n PROVE b2[j] = b1[j + 1] /\ j + 1 \in DOMAIN b1 OBVIOUS
    <2>2. j + 1 \in 1 .. n + 1 BY <1>0
    <2>3. CASE j = n BY <2>2, <2>3, <1>2, <1>3
    <2>4. CASE j # n
        <3>0. n \in Nat \ {0} BY <1>0
        <3>1. j \in 1 .. n - 1 /\ j + 1 \in 1 .. n BY <2>1, <2>4, <3>0
        <3> QED BY <3>1, <2>2, <1>0, <1>2, <1>3
    <2> QED BY <2>3, <2>4
<1> HIDE DEF b1, b2, n
<1>5. ASSUME NEW s \in Spots(b2)
      PROVE  /\ m[s] \in Spots(b1) /\ Put(b2, s) = Put(b1, m[s]) /\ m[s][1] # 1
             /\ m[s] = <<s[1] + 1, s[2]>> /\ s[1] \in Nat /\ s[2] \in Nat
    <2>1. /\ s[1] \in 1 .. n /\ s[2] \in DOMAIN b2[s[1]] /\ s[1] \in Nat \ {0} /\ s[2] \in Nat
        BY SpotFacts, <1>1, <1>3
    <2>2. m[s] = <<s[1] + 1, s[2]>> OBVIOUS
    <2>3. b2[s[1]] = b1[s[1] + 1] /\ s[1] + 1 \in DOMAIN b1 BY <2>1, <1>4
    <2>4. <<s[1] + 1, s[2]>> \in Spots(b1) BY <2>1, <2>3, <1>1, SpotFacts
    <2> HIDE DEF m
    <2>5. Put(b2, s) = Put(b1, m[s]) BY <2>2, <2>3 DEF Put
    <2> QED BY <2>1, <2>2, <2>4, <2>5
<1>6. m \in [Spots(b2) -> Spots(b1)] BY <1>5
<1> HIDE DEF m
<1>7. \A s, t \in Spots(b2) : Before(s, t) => Before(m[s], m[t]) BY <1>5 DEF Before
<1>8. Embeds(b2, b1) BY <1>5, <1>6, <1>7 DEF Embeds
<1>9. \A s \in Spots(b2) : \E t \in Spots(b1) : t[1] # 1 /\ Put(b2, s) = Put(b1, t) BY <1>5
<1> QED BY <1>8, <1>9 DEF b1, b2
-----------------------------------------------------------------------------
(* What the steps do to those who hold hits *)

\* Only the hits matter for who holds what, only path and type for the keys.
LEMMA SameHits ==
    ASSUME NEW s, NEW s2, DOMAIN s2 = DOMAIN s, \A i \in DOMAIN s : s2[i].hits = s[i].hits
    PROVE  /\ HitsOf(s2) = HitsOf(s) /\ (Disjoint(s) => Disjoint(s2))
           /\ (\A i \in DOMAIN s : s2[i].path = s[i].path /\ s2[i].type = s[i].type)
                 => (OneKey(s) => OneKey(s2))
           /\ \A adv : (\A i \in DOMAIN s : s2[i].advisory = s[i].advisory)
                          => (Exact(s, adv) => Exact(s2, adv))
<1>1. HitsOf(s2) = HitsOf(s) BY DEF HitsOf
<1>2. Disjoint(s) => Disjoint(s2) BY DEF Disjoint
<1>3. (\A i \in DOMAIN s : s2[i].path = s[i].path /\ s2[i].type = s[i].type)
         => (OneKey(s) => OneKey(s2)) BY DEF OneKey, SameBurst
<1>4. \A adv : (\A i \in DOMAIN s : s2[i].advisory = s[i].advisory)
                  => (Exact(s, adv) => Exact(s2, adv)) BY DEF Exact
<1> QED BY <1>1, <1>2, <1>3, <1>4

\* Taking the head of a sequence leaves what the tail holds.
LEMMA TailHolds ==
    ASSUME NEW I, NEW s \in Seq(I), s # <<>>, NEW adv
    PROVE  /\ Head(s) \in I /\ Tail(s) \in Seq(I)
           /\ HitsOf(Tail(s)) \subseteq HitsOf(s) /\ Head(s).hits \subseteq HitsOf(s)
           /\ Disjoint(s) => Disjoint(Tail(s)) /\ HitsOf(Tail(s)) \cap Head(s).hits = {}
           /\ Exact(s, adv) => /\ Exact(Tail(s), adv)
                               /\ Head(s).advisory <=> Head(s).hits \subseteq adv
<1>1. /\ Len(s) \in Nat \ {0} /\ DOMAIN s = 1 .. Len(s) /\ Head(s) = s[1] /\ 1 \in DOMAIN s
      /\ Tail(s) \in Seq(I) /\ DOMAIN Tail(s) = 1 .. Len(s) - 1 /\ Head(s) \in I
      /\ \A i \in 1 .. Len(s) - 1 : Tail(s)[i] = s[i + 1]
      OBVIOUS
<1>2. \A i \in DOMAIN Tail(s) : i + 1 \in DOMAIN s /\ i + 1 # 1 /\ Tail(s)[i] = s[i + 1]
    BY <1>1
<1>3. HitsOf(Tail(s)) \subseteq HitsOf(s) /\ Head(s).hits \subseteq HitsOf(s)
    BY <1>1, <1>2 DEF HitsOf
<1>4. Disjoint(s) => Disjoint(Tail(s))
    <2> SUFFICES ASSUME Disjoint(s), NEW i \in DOMAIN Tail(s), NEW j \in DOMAIN Tail(s),
                        Tail(s)[i].hits \cap Tail(s)[j].hits # {}
                 PROVE  i = j BY DEF Disjoint
    <2>1. i + 1 = j + 1 BY <1>2 DEF Disjoint
    <2> QED BY <2>1, <1>1
<1>5. Disjoint(s) => HitsOf(Tail(s)) \cap Head(s).hits = {}
    <2> SUFFICES ASSUME Disjoint(s), NEW x \in HitsOf(Tail(s)), x \in Head(s).hits PROVE FALSE
        OBVIOUS
    <2>1. PICK i \in DOMAIN Tail(s) : x \in Tail(s)[i].hits BY DEF HitsOf
    <2>2. s[i + 1].hits \cap s[1].hits # {} BY <2>1, <1>1, <1>2
    <2> QED BY <2>2, <1>1, <1>2 DEF Disjoint
<1>6. Exact(s, adv) => /\ Exact(Tail(s), adv)
                       /\ Head(s).advisory <=> Head(s).hits \subseteq adv
    BY <1>1, <1>2 DEF Exact
<1> QED BY <1>1, <1>3, <1>4, <1>5, <1>6

\* An event more holds what it was made of.
LEMMA AppendHolds ==
    ASSUME NEW I, NEW s \in Seq(I), NEW e \in I
    PROVE  /\ Append(s, e) \in Seq(I)
           /\ DOMAIN s = 1 .. Len(s) /\ Len(s) \in Nat
           /\ DOMAIN Append(s, e) = 1 .. Len(s) + 1 /\ Append(s, e)[Len(s) + 1] = e
           /\ \A i \in 1 .. Len(s) : Append(s, e)[i] = s[i]
           /\ HitsOf(Append(s, e)) \subseteq HitsOf(s) \cup e.hits
           /\ Disjoint(s) /\ e.hits \cap HitsOf(s) = {} => Disjoint(Append(s, e))
<1> DEFINE a == Append(s, e)
<1>1. /\ a \in Seq(I) /\ DOMAIN s = 1 .. Len(s) /\ Len(s) \in Nat
      /\ DOMAIN a = 1 .. Len(s) + 1 /\ a[Len(s) + 1] = e
      /\ \A i \in 1 .. Len(s) : a[i] = s[i] OBVIOUS
<1> HIDE DEF a
<1>2. \A i \in DOMAIN a : i = Len(s) + 1 \/ i \in DOMAIN s BY <1>1
<1>3. HitsOf(a) \subseteq HitsOf(s) \cup e.hits BY <1>1, <1>2 DEF HitsOf
<1>4. \A i \in DOMAIN s : s[i].hits \subseteq HitsOf(s) BY DEF HitsOf
<1>5. ASSUME Disjoint(s), e.hits \cap HitsOf(s) = {}, NEW i \in DOMAIN a, NEW j \in DOMAIN a,
             a[i].hits \cap a[j].hits # {}
      PROVE  i = j
    <2>1. CASE i \in DOMAIN s /\ j \in DOMAIN s BY <2>1, <1>1, <1>5 DEF Disjoint
    <2>2. CASE i \notin DOMAIN s /\ j \in DOMAIN s
        <3>1. a[i] = e /\ a[j].hits \subseteq HitsOf(s) BY <2>2, <1>1, <1>2, <1>4
        <3> QED BY <3>1, <1>5
    <2>3. CASE i \in DOMAIN s /\ j \notin DOMAIN s
        <3>1. a[j] = e /\ a[i].hits \subseteq HitsOf(s) BY <2>3, <1>1, <1>2, <1>4
        <3> QED BY <3>1, <1>5
    <2>4. CASE i \notin DOMAIN s /\ j \notin DOMAIN s BY <2>4, <1>2
    <2> QED BY <2>1, <2>2, <2>3, <2>4
<1>6. Disjoint(s) /\ e.hits \cap HitsOf(s) = {} => Disjoint(a) BY <1>5 DEF Disjoint
<1> QED BY <1>1, <1>3, <1>6 DEF a

\* A hit that is new is not part of what is held, so nothing becomes advisory.
LEMMA ExactKept ==
    ASSUME NEW s, NEW adv, NEW x, x \notin HitsOf(s), Exact(s, adv)
    PROVE  Exact(s, adv \cup {x})
<1>1. \A i \in DOMAIN s : x \notin s[i].hits BY DEF HitsOf
<1> QED BY <1>1 DEF Exact

\* The batches in flight are batches of entries.
LEMMA BatchesType ==
    ASSUME TypeOK
    PROVE  /\ alertq \in Seq(Batch) /\ sweep.held \in Batch /\ Batches \in Seq(Batch)
           /\ Batches = Append(alertq, sweep.held)
BY DEF TypeOK, Batch, Batches

\* An alert that is handed on is in flight, behind all others.
LEMMA OfferFacts ==
    ASSUME DeliveryAssumption, TypeOK, Burst, NEW e \in Entry, Offer(e), NEW ev,
           Flight(Batches, ev, advisories),
           e.hits \cap SentOf(Batches) = {}, ~(e.hits \subseteq advisories),
           e.id # 0 => /\ e.id \in DOMAIN ev
                       /\ ev[e.id].note = "none" /\ ev[e.id].hits = e.hits
                       /\ \A s \in Spots(Batches) : Put(Batches, s).id < e.id
    PROVE  /\ alertq' \in Seq(Batch)
           /\ sweep' \in [open : BOOLEAN, held : Seq(Entry), age : 0 .. SweepMax,
                          quiet : 0 .. SweepWindow]
           /\ ~sweep'.open => sweep'.held = <<>>
           /\ SummaryOnlyForSweeps'
           /\ Flight(Batches', ev, advisories)
           /\ SentOf(Batches') \subseteq SentOf(Batches) \cup e.hits
<1> DEFINE b1 == Append(alertq, Append(sweep.held, e))
<1>0. /\ alertq \in Seq(Batch) /\ sweep.held \in Batch /\ Batches = Append(alertq, sweep.held)
      /\ sweep.held \in Seq(Entry) /\ SweepMax \in Nat /\ SweepWindow \in Nat /\ Threshold \in Nat
      /\ sweep \in [open : BOOLEAN, held : Seq(Entry), age : 0 .. SweepMax,
                    quiet : 0 .. SweepWindow]
      /\ <<>> \in Seq(Entry) /\ Append(sweep.held, e) \in Batch /\ <<e>> \in Batch
    <2>1. /\ alertq \in Seq(Batch) /\ sweep.held \in Batch /\ Batches = Append(alertq, sweep.held)
        BY BatchesType
    <2>2. /\ SweepMax \in Nat /\ SweepWindow \in Nat /\ Threshold \in Nat
          /\ sweep \in [open : BOOLEAN, held : Seq(Entry), age : 0 .. SweepMax,
                        quiet : 0 .. SweepWindow] BY DEF TypeOK, DeliveryAssumption
    <2>3. /\ sweep.held \in Seq(Entry) /\ <<>> \in Seq(Entry)
          /\ Append(sweep.held, e) \in Batch /\ <<e>> \in Batch BY <2>1 DEF Batch
    <2> QED BY <2>1, <2>2, <2>3
<1>1. /\ b1 \in Seq(Batch) /\ Flight(b1, ev, advisories)
      /\ SentOf(b1) \subseteq SentOf(Batches) \cup e.hits BY <1>0, FlightGrows
<1>2. Closed \in [open : BOOLEAN, held : Seq(Entry), age : 0 .. SweepMax,
                  quiet : 0 .. SweepWindow] /\ Closed.held = <<>> BY <1>0 DEF Closed
<1>3. \A j \in DOMAIN alertq : Len(alertq[j]) = 1 \/ Len(alertq[j]) >= Threshold
    BY DEF Burst, SummaryOnlyForSweeps
<1>s. SummaryOnlyForSweeps' <=> \A j \in DOMAIN alertq' :
                                   Len(alertq'[j]) = 1 \/ Len(alertq'[j]) >= Threshold
    BY DEF SummaryOnlyForSweeps
<1>b. Batches' = Append(alertq', sweep'.held) BY DEF Batches
<1> HIDE DEF b1
<1>4. SUFFICES /\ alertq' \in Seq(Batch)
               /\ sweep' \in [open : BOOLEAN, held : Seq(Entry), age : 0 .. SweepMax,
                              quiet : 0 .. SweepWindow]
               /\ ~sweep'.open => sweep'.held = <<>>
               /\ \A j \in DOMAIN alertq' : Len(alertq'[j]) = 1 \/ Len(alertq'[j]) >= Threshold
               /\ Append(alertq', sweep'.held) = b1 \/ Embeds(Append(alertq', sweep'.held), b1)
    <2>1. Batches' \in Seq(Batch)
        <3>1. sweep'.held \in Batch BY <1>4 DEF Batch
        <3> QED BY <3>1, <1>4, <1>b
    <2>2. Flight(Batches', ev, advisories) /\ SentOf(Batches') \subseteq SentOf(b1)
        BY <2>1, <1>1, <1>4, <1>b, FlightShrinks
    <2> QED BY <2>2, <1>1, <1>4, <1>s
<1>5. CASE /\ ~sweep.open
           /\ alertq' = Append(alertq, <<e>>)
           /\ sweep' = [Closed EXCEPT !.open = SweepWindow > 0]
    <2>1. /\ sweep' \in [open : BOOLEAN, held : Seq(Entry), age : 0 .. SweepMax,
                         quiet : 0 .. SweepWindow]
          /\ sweep'.held = <<>>
        <3>1. CASE SweepWindow > 0
            <4>1. (SweepWindow > 0) = TRUE BY <3>1
            <4>2. sweep' = [open |-> TRUE, held |-> <<>>, age |-> 0, quiet |-> 0]
                BY <4>1, <1>5 DEF Closed
            <4> QED BY <4>2, <1>0
        <3>2. CASE ~(SweepWindow > 0)
            <4>1. (SweepWindow > 0) = FALSE BY <3>2
            <4>2. sweep' = [open |-> FALSE, held |-> <<>>, age |-> 0, quiet |-> 0]
                BY <4>1, <1>5 DEF Closed
            <4> QED BY <4>2, <1>0
        <3> QED BY <3>1, <3>2
    <2>2. sweep.held = <<>> BY <1>5 DEF Burst
    <2>3. Embeds(Append(alertq', sweep'.held), b1) BY <2>1, <2>2, <1>0, <1>5, FirstEmbeds DEF b1
    <2>4. alertq' \in Seq(Batch) BY <1>0, <1>5
    <2>5. \A j \in DOMAIN alertq' : Len(alertq'[j]) = 1 \/ Len(alertq'[j]) >= Threshold
        <3>1. Len(<<e>>) = 1 OBVIOUS
        <3>2. \A j \in DOMAIN alertq' : \/ j \in DOMAIN alertq /\ alertq'[j] = alertq[j]
                                        \/ alertq'[j] = <<e>>
            BY <1>0, <1>5
        <3> QED BY <3>1, <3>2, <1>3
    <2> QED BY <2>1, <2>3, <2>4, <2>5
<1>6. CASE /\ sweep.open /\ sweep.age < SweepMax
           /\ UNCHANGED alertq
           /\ sweep' = [sweep EXCEPT !.held = Append(@, e), !.quiet = 0]
    <2>1. /\ sweep' \in [open : BOOLEAN, held : Seq(Entry), age : 0 .. SweepMax,
                         quiet : 0 .. SweepWindow]
          /\ sweep'.held = Append(sweep.held, e) /\ sweep'.open
        <3>1. 0 \in 0 .. SweepWindow /\ Append(sweep.held, e) \in Seq(Entry) BY <1>0
        <3> QED BY <3>1, <1>0, <1>6
    <2> QED BY <2>1, <1>0, <1>3, <1>6 DEF b1
<1>7. CASE /\ sweep.open /\ sweep.age >= SweepMax
           /\ alertq' = alertq \o Jobs(Append(sweep.held, e))
           /\ sweep' = Closed
    <2> DEFINE J == Jobs(Append(sweep.held, e))
    <2>1. /\ J \in Seq(Batch)
          /\ \A j \in DOMAIN J : Len(J[j]) = 1 \/ Len(J[j]) >= Threshold BY <1>0, JobsFacts
    <2>2. Embeds(Append(alertq \o J, <<>>), b1) BY <1>0, CloseEmbeds DEF b1
    <2> HIDE DEF J
    <2>3. alertq' = alertq \o J BY <1>7 DEF J
    <2>4. \A j \in DOMAIN alertq' : Len(alertq'[j]) = 1 \/ Len(alertq'[j]) >= Threshold
        <3>1. \A j \in DOMAIN alertq' : \/ j \in DOMAIN alertq /\ alertq'[j] = alertq[j]
                                        \/ \E k \in DOMAIN J : alertq'[j] = J[k]
            <4>1. SUFFICES ASSUME NEW j \in DOMAIN alertq'
                           PROVE  \/ j \in DOMAIN alertq /\ alertq'[j] = alertq[j]
                                  \/ j - Len(alertq) \in DOMAIN J /\ alertq'[j] = J[j - Len(alertq)]
                OBVIOUS
            <4> QED BY <1>0, <2>1, <2>3
        <3> QED BY <3>1, <2>1, <1>3
    <2>5. alertq' \in Seq(Batch) BY <2>1, <2>3, <1>0
    <2>6. sweep' = Closed BY <1>7
    <2>7. Embeds(Append(alertq', sweep'.held), b1) BY <2>2, <2>3, <2>6, <1>2
    <2> QED BY <2>4, <2>5, <2>6, <2>7, <1>2
<1> QED BY <1>5, <1>6, <1>7 DEF Offer

\* Releasing a burst leaves in flight what was held, in order.
LEMMA ReleaseFacts ==
    ASSUME DeliveryAssumption, TypeOK, Burst, Release
    PROVE  /\ alertq' \in Seq(Batch)
           /\ sweep' \in [open : BOOLEAN, held : Seq(Entry), age : 0 .. SweepMax,
                          quiet : 0 .. SweepWindow]
           /\ ~sweep'.open => sweep'.held = <<>>
           /\ SummaryOnlyForSweeps'
           /\ Flight(Batches', events, advisories)
           /\ SentOf(Batches') \subseteq SentOf(Batches)
<1>0. /\ alertq \in Seq(Batch) /\ sweep.held \in Batch /\ Batches = Append(alertq, sweep.held)
      /\ sweep.held \in Seq(Entry) /\ SweepMax \in Nat /\ SweepWindow \in Nat /\ Threshold \in Nat
      /\ sweep \in [open : BOOLEAN, held : Seq(Entry), age : 0 .. SweepMax,
                    quiet : 0 .. SweepWindow]
      /\ <<>> \in Seq(Entry) /\ Batches \in Seq(Batch)
      /\ Flight(Batches, events, advisories) /\ (~sweep.open => sweep.held = <<>>)
    <2>1. /\ alertq \in Seq(Batch) /\ sweep.held \in Batch /\ Batches = Append(alertq, sweep.held)
          /\ Batches \in Seq(Batch) BY BatchesType
    <2>2. /\ SweepMax \in Nat /\ SweepWindow \in Nat /\ Threshold \in Nat
          /\ sweep \in [open : BOOLEAN, held : Seq(Entry), age : 0 .. SweepMax,
                        quiet : 0 .. SweepWindow] BY DEF TypeOK, DeliveryAssumption
    <2>3. /\ sweep.held \in Seq(Entry) /\ <<>> \in Seq(Entry) BY <2>1 DEF Batch
    <2> QED BY <2>1, <2>2, <2>3 DEF Burst
<1>2. Closed \in [open : BOOLEAN, held : Seq(Entry), age : 0 .. SweepMax,
                  quiet : 0 .. SweepWindow] /\ Closed.held = <<>> BY <1>0 DEF Closed
<1>3. \A j \in DOMAIN alertq : Len(alertq[j]) = 1 \/ Len(alertq[j]) >= Threshold
    BY DEF Burst, SummaryOnlyForSweeps
<1>s. SummaryOnlyForSweeps' <=> \A j \in DOMAIN alertq' :
                                   Len(alertq'[j]) = 1 \/ Len(alertq'[j]) >= Threshold
    BY DEF SummaryOnlyForSweeps
<1>b. Batches' = Append(alertq', sweep'.held) BY DEF Batches
<1>4. CASE UNCHANGED <<sweep, alertq>>
    <2>1. Batches' = Batches BY <1>4, <1>b, <1>0
    <2>2. alertq' = alertq /\ sweep' = sweep BY <1>4
    <2>3. SummaryOnlyForSweeps' BY <2>2, <1>3, <1>s
    <2> QED BY <2>1, <2>2, <2>3, <1>0
<1>5. CASE sweep' = Closed /\ alertq' = alertq \o Jobs(sweep.held)
    <2> DEFINE J == Jobs(sweep.held)
    <2>1. /\ J \in Seq(Batch)
          /\ \A j \in DOMAIN J : Len(J[j]) = 1 \/ Len(J[j]) >= Threshold BY <1>0, JobsFacts
    <2>2. Embeds(Append(alertq \o J, <<>>), Batches) BY <1>0, CloseEmbeds
    <2> HIDE DEF J
    <2>3. alertq' = alertq \o J BY <1>5 DEF J
    <2>4. \A j \in DOMAIN alertq' : Len(alertq'[j]) = 1 \/ Len(alertq'[j]) >= Threshold
        <3>1. \A j \in DOMAIN alertq' : \/ j \in DOMAIN alertq /\ alertq'[j] = alertq[j]
                                        \/ \E k \in DOMAIN J : alertq'[j] = J[k]
            <4>1. SUFFICES ASSUME NEW j \in DOMAIN alertq'
                           PROVE  \/ j \in DOMAIN alertq /\ alertq'[j] = alertq[j]
                                  \/ j - Len(alertq) \in DOMAIN J /\ alertq'[j] = J[j - Len(alertq)]
                OBVIOUS
            <4> QED BY <1>0, <2>1, <2>3
        <3> QED BY <3>1, <2>1, <1>3
    <2>5. alertq' \in Seq(Batch) BY <2>1, <2>3, <1>0
    <2>6. Batches' = Append(alertq \o J, <<>>) BY <2>3, <1>2, <1>5, <1>b
    <2>7. <<>> \in Batch BY DEF Batch
    <2>8. Batches' \in Seq(Batch) BY <2>3, <2>5, <2>6, <2>7
    <2>9. Flight(Batches', events, advisories) /\ SentOf(Batches') \subseteq SentOf(Batches)
        <3>1. Batches' \in Seq(Batch) /\ Embeds(Batches', Batches) BY <2>2, <2>6, <2>8
        <3>2. Batches \in Seq(Batch) /\ Flight(Batches, events, advisories) BY <1>0
        <3> HIDE DEF Batches
        <3> QED BY <3>1, <3>2, FlightShrinks
    <2> QED BY <2>4, <2>5, <2>9, <1>2, <1>5, <1>s
<1> QED BY <1>4, <1>5 DEF Release
-----------------------------------------------------------------------------
(* Types *)

Row == [path : Paths, type : EventTypes, hits : SUBSET HitNo,
        note : {"none", "muted", "advisory", "cooldown", "sent", "failed"}]
Sweep == [open : BOOLEAN, held : Seq(Entry), age : 0 .. SweepMax, quiet : 0 .. SweepWindow]

QueueTypes == hitq \in Seq(Hit) /\ pend \in Seq(Item) /\ ready \in Seq(Item)
MainTypes ==
    /\ pc \in {"pump", "drain", "decide", "insert", "release"}
    /\ pc \in {"decide", "insert"} <=> ready # <<>>
    /\ verdict \in {"quiet", "muted", "advisory", "cooldown", "alert"}
AgeTypes == slot \in [Paths -> 0 .. Cooldown] /\ since \in [Paths -> 0 .. Cooldown]
AlertTypes == sweep \in Sweep /\ alertq \in Seq(Batch) /\ events \in Seq(Row)
CountTypes ==
    /\ muted \in BOOLEAN /\ alive \in BOOLEAN /\ emitted \in 0 .. MaxHits /\ advisories \subseteq HitNo
    /\ faults \in 0 .. MaxFaults /\ mutes \in 0 .. MaxMutes

\* The parts of the type invariant.
LEMMA TypeParts == TypeOK <=> QueueTypes /\ MainTypes /\ AgeTypes /\ AlertTypes /\ CountTypes
BY DEF TypeOK, QueueTypes, MainTypes, AgeTypes, AlertTypes, CountTypes, Hit, Row, Sweep, Batch

\* The bounds are natural numbers.
LEMMA Bounds ==
    ASSUME DeliveryAssumption
    PROVE  /\ DedupWindow \in Nat /\ Cooldown \in Nat /\ SweepWindow \in Nat /\ SweepMax \in Nat
           /\ MaxHits \in Nat /\ MaxFaults \in Nat /\ MaxMutes \in Nat
BY DEF DeliveryAssumption

\* An age stays within its bound.
LEMMA OlderType ==
    ASSUME NEW b \in Nat, NEW a \in 0 .. b
    PROVE  Older(a, b) \in 0 .. b /\ Older(a, b) >= a
BY DEF Older

\* Time leaves everything but ages as it is.
LEMMA TickFacts ==
    ASSUME DeliveryAssumption, TypeOK, Tick
    PROVE  /\ hitq' \in Seq(Hit) /\ pend' \in Seq(Item) /\ AgeTypes' /\ sweep' \in Sweep
           /\ DOMAIN hitq' = DOMAIN hitq /\ DOMAIN pend' = DOMAIN pend
           /\ \A i \in DOMAIN hitq : hitq'[i].n = hitq[i].n /\ hitq'[i].advisory = hitq[i].advisory
           /\ \A i \in DOMAIN pend : /\ pend'[i].hits = pend[i].hits
                                     /\ pend'[i].path = pend[i].path /\ pend'[i].type = pend[i].type
                                     /\ pend'[i].advisory = pend[i].advisory
           /\ sweep'.held = sweep.held /\ sweep'.open = sweep.open
           /\ \A p \in Paths : since[p] <= slot[p] => since'[p] <= slot'[p]
<1>0. QueueTypes /\ AgeTypes /\ AlertTypes BY TypeParts
<1>1. /\ hitq' \in Seq(Hit) /\ DOMAIN hitq' = DOMAIN hitq
      /\ \A i \in DOMAIN hitq : hitq'[i].n = hitq[i].n /\ hitq'[i].advisory = hitq[i].advisory
    <2>1. /\ hitq' = [i \in 1 .. Len(hitq) |-> [hitq[i] EXCEPT !.age = Older(@, DedupWindow)]]
          /\ Len(hitq) \in Nat /\ DOMAIN hitq = 1 .. Len(hitq)
          /\ \A i \in 1 .. Len(hitq) : hitq[i] \in Hit BY <1>0 DEF Tick, QueueTypes
    <2>2. ASSUME NEW i \in 1 .. Len(hitq)
          PROVE  /\ hitq'[i] \in Hit /\ hitq'[i].n = hitq[i].n
                 /\ hitq'[i].advisory = hitq[i].advisory
        <3>1. Older(hitq[i].age, DedupWindow) \in 0 .. DedupWindow
            BY <2>1, Bounds, OlderType DEF Hit
        <3>2. hitq'[i] = [hitq[i] EXCEPT !.age = Older(hitq[i].age, DedupWindow)] BY <2>1
        <3> QED BY <2>1, <3>1, <3>2 DEF Hit
    <2> QED BY <2>1, <2>2
<1>2. /\ pend' \in Seq(Item) /\ DOMAIN pend' = DOMAIN pend
      /\ \A i \in DOMAIN pend : /\ pend'[i].hits = pend[i].hits
                                /\ pend'[i].path = pend[i].path /\ pend'[i].type = pend[i].type
                                /\ pend'[i].advisory = pend[i].advisory
    <2>1. /\ pend' = [i \in 1 .. Len(pend) |-> [pend[i] EXCEPT !.age = Older(@, DedupWindow)]]
          /\ Len(pend) \in Nat /\ DOMAIN pend = 1 .. Len(pend)
          /\ \A i \in 1 .. Len(pend) : pend[i] \in Item BY <1>0 DEF Tick, QueueTypes
    <2>2. ASSUME NEW i \in 1 .. Len(pend)
          PROVE  /\ pend'[i] \in Item /\ pend'[i].hits = pend[i].hits
                 /\ pend'[i].path = pend[i].path /\ pend'[i].type = pend[i].type
                 /\ pend'[i].advisory = pend[i].advisory
        <3>1. Older(pend[i].age, DedupWindow) \in 0 .. DedupWindow
            BY <2>1, Bounds, OlderType DEF Item
        <3>2. pend'[i] = [pend[i] EXCEPT !.age = Older(pend[i].age, DedupWindow)] BY <2>1
        <3> QED BY <2>1, <3>1, <3>2 DEF Item
    <2> QED BY <2>1, <2>2
<1>3. AgeTypes' /\ \A p \in Paths : since[p] <= slot[p] => since'[p] <= slot'[p]
    <2>1. /\ slot' = [p \in Paths |-> Older(slot[p], Cooldown)]
          /\ since' = [p \in Paths |-> Older(since[p], Cooldown)] BY DEF Tick
    <2>2. ASSUME NEW p \in Paths
          PROVE  /\ Older(slot[p], Cooldown) \in 0 .. Cooldown
                 /\ Older(since[p], Cooldown) \in 0 .. Cooldown
                 /\ since[p] <= slot[p] => Older(since[p], Cooldown) <= Older(slot[p], Cooldown)
        <3>1. slot[p] \in 0 .. Cooldown /\ since[p] \in 0 .. Cooldown BY <1>0 DEF AgeTypes
        <3> QED BY <3>1, Bounds DEF Older
    <2> QED BY <2>1, <2>2 DEF AgeTypes
<1>4. sweep' \in Sweep /\ sweep'.held = sweep.held /\ sweep'.open = sweep.open
    <2>1. sweep \in Sweep BY <1>0 DEF AlertTypes
    <2>2. CASE sweep.open
        <3>1. /\ Older(sweep.age, SweepMax) \in 0 .. SweepMax
              /\ Older(sweep.quiet, SweepWindow) \in 0 .. SweepWindow
            BY <2>1, Bounds, OlderType DEF Sweep
        <3>2. sweep' = [sweep EXCEPT !.age = Older(sweep.age, SweepMax),
                                     !.quiet = Older(sweep.quiet, SweepWindow)]
            BY <2>2 DEF Tick
        <3> QED BY <2>1, <3>1, <3>2 DEF Sweep
    <2>3. CASE ~sweep.open BY <2>1, <2>3 DEF Tick
    <2> QED BY <2>2, <2>3
<1> QED BY <1>1, <1>2, <1>3, <1>4

\* Who stands first in ready.
LEMMA CurrentFacts ==
    ASSUME TypeOK, pc \in {"decide", "insert"}
    PROVE  /\ ready # <<>> /\ Current = Head(ready) /\ Current \in Item
           /\ Current.path \in Paths /\ Current.type \in EventTypes /\ Current.hits \in SUBSET HitNo
           /\ Current.advisory \in BOOLEAN /\ Current.durable \in BOOLEAN
<1>1. ready # <<>> /\ ready \in Seq(Item) BY TypeParts DEF MainTypes, QueueTypes
<1>2. Current = Head(ready) /\ Current \in Item BY <1>1 DEF Current
<1> QED BY <1>1, <1>2 DEF Item

\* The next item of the pump comes up, or the pump ends.
LEMMA NextItemTypes ==
    ASSUME TypeOK, pc = "insert", NextItem
    PROVE  QueueTypes' /\ MainTypes'
<1>1. QueueTypes /\ MainTypes BY TypeParts
<1>2. ready # <<>> BY <1>1 DEF MainTypes
<1>3. ready' \in Seq(Item) BY <1>1, <1>2 DEF NextItem, QueueTypes
<1> QED BY <1>1, <1>3 DEF NextItem, QueueTypes, MainTypes

\* The row that an insert writes.
RowOf == [path |-> Current.path, type |-> Current.type, hits |-> Current.hits,
          note |-> IF verdict \in {"muted", "advisory", "cooldown"} THEN verdict ELSE "none"]

\* An insert writes one row, or none.
LEMMA InsertFacts ==
    ASSUME TypeOK, pc = "insert"
    PROVE  /\ RowOf \in Row /\ RowOf.hits = Current.hits
           /\ InsertRow <=> events' = Append(events, RowOf)
           /\ verdict = "alert" => RowOf.note = "none"
           /\ RowOf.note \notin {"sent", "failed"}
           /\ RowOf.note = "advisory" <=> verdict = "advisory"
<1>1. verdict \in {"quiet", "muted", "advisory", "cooldown", "alert"} BY TypeParts DEF MainTypes
<1>2. Current.path \in Paths /\ Current.type \in EventTypes /\ Current.hits \in SUBSET HitNo
    BY CurrentFacts
<1>3. RowOf.note \in {"none", "muted", "advisory", "cooldown"} BY <1>1 DEF RowOf
<1>4. RowOf \in Row BY <1>2, <1>3 DEF RowOf, Row
<1> QED BY <1>1, <1>3, <1>4 DEF RowOf, InsertRow

\* The two ways in which a step treats alerts: nothing is handed on, or the
\* current item is, as an entry that refers to its event or to none.
LEMMA HandOnEntry ==
    ASSUME TypeOK, pc = "insert", NEW id \in Nat
    PROVE  [id |-> id, hits |-> Current.hits] \in Entry
BY CurrentFacts DEF Entry

\* Taking a hit from the queue leaves the others there.
LEMMA TakeTypes ==
    ASSUME TypeOK, hitq # <<>>
    PROVE  /\ Head(hitq) \in Hit /\ Tail(hitq) \in Seq(Hit)
           /\ Head(hitq).n \in Numbers(hitq)
           /\ Numbers(Tail(hitq)) \subseteq Numbers(hitq)
           /\ (\A i, j \in DOMAIN hitq : hitq[i].n = hitq[j].n => i = j) =>
                 /\ Head(hitq).n \notin Numbers(Tail(hitq))
                 /\ \A i, j \in DOMAIN Tail(hitq) : Tail(hitq)[i].n = Tail(hitq)[j].n => i = j
           /\ \A adv : (\A i \in DOMAIN hitq : hitq[i].advisory <=> hitq[i].n \in adv) =>
                 /\ Head(hitq).advisory <=> Head(hitq).n \in adv
                 /\ \A i \in DOMAIN Tail(hitq) : Tail(hitq)[i].advisory <=> Tail(hitq)[i].n \in adv
<1>0. hitq \in Seq(Hit) BY TypeParts DEF QueueTypes
<1>1. /\ Len(hitq) \in Nat \ {0} /\ DOMAIN hitq = 1 .. Len(hitq) /\ Head(hitq) = hitq[1]
      /\ 1 \in DOMAIN hitq /\ Tail(hitq) \in Seq(Hit) /\ DOMAIN Tail(hitq) = 1 .. Len(hitq) - 1
      /\ \A i \in 1 .. Len(hitq) - 1 : Tail(hitq)[i] = hitq[i + 1] BY <1>0
<1>2. Head(hitq) \in Hit BY <1>0, <1>1
<1>3. \A i \in DOMAIN Tail(hitq) : /\ i + 1 \in DOMAIN hitq /\ i + 1 # 1
                                   /\ Tail(hitq)[i] = hitq[i + 1] BY <1>1
<1>4. /\ Head(hitq).n \in Numbers(hitq)
      /\ Numbers(Tail(hitq)) \subseteq Numbers(hitq) BY <1>1, <1>3 DEF Numbers
<1>5. ASSUME \A i, j \in DOMAIN hitq : hitq[i].n = hitq[j].n => i = j
      PROVE  /\ Head(hitq).n \notin Numbers(Tail(hitq))
             /\ \A i, j \in DOMAIN Tail(hitq) : Tail(hitq)[i].n = Tail(hitq)[j].n => i = j
    <2>1. Head(hitq).n \notin Numbers(Tail(hitq)) BY <1>1, <1>3, <1>5 DEF Numbers
    <2>2. ASSUME NEW i \in DOMAIN Tail(hitq), NEW j \in DOMAIN Tail(hitq),
                 Tail(hitq)[i].n = Tail(hitq)[j].n
          PROVE  i = j
        <3>1. i + 1 = j + 1 BY <1>3, <1>5, <2>2
        <3> QED BY <3>1, <1>1
    <2> QED BY <2>1, <2>2
<1>6. ASSUME NEW adv, \A i \in DOMAIN hitq : hitq[i].advisory <=> hitq[i].n \in adv
      PROVE  /\ Head(hitq).advisory <=> Head(hitq).n \in adv
             /\ \A i \in DOMAIN Tail(hitq) : Tail(hitq)[i].advisory <=> Tail(hitq)[i].n \in adv
    BY <1>1, <1>3, <1>6
<1> QED BY <1>1, <1>2, <1>4, <1>5, <1>6
-----------------------------------------------------------------------------
(* The steps keep the invariant *)

\* Smaller parts of what is apart are apart.
LEMMA ApartShrinks ==
    ASSUME NEW Q, NEW P, NEW R, NEW E, NEW S, NEW n, Apart(Q, P, R, E, S, n),
           NEW Q2 \in SUBSET Q, NEW P2 \in SUBSET P, NEW R2 \in SUBSET R, NEW E2 \in SUBSET E,
           NEW S2 \in SUBSET S
    PROVE  Apart(Q2, P2, R2, E2, S2, n)
BY DEF Apart

\* At the start nothing is held.
LEMMA InitInv ==
    ASSUME DeliveryAssumption, Init
    PROVE  DeliveryInv
<1>1. TypeOK
    <2>1. QueueTypes /\ MainTypes BY DEF Init, QueueTypes, MainTypes
    <2>2. AgeTypes BY Bounds DEF Init, AgeTypes
    <2>3. AlertTypes BY Bounds DEF Init, AlertTypes, Closed, Sweep
    <2>4. CountTypes
        <3>1. 0 \in 0 .. MaxHits /\ 0 \in 0 .. MaxFaults /\ 0 \in 0 .. MaxMutes BY Bounds
        <3>2. muted \in BOOLEAN /\ alive \in BOOLEAN /\ advisories \subseteq HitNo BY DEF Init
        <3> QED BY <3>1, <3>2 DEF Init, CountTypes
    <2> QED BY <2>1, <2>2, <2>3, <2>4, TypeParts
<1>2. Batches \in Seq(Batch) /\ DOMAIN Batches = {1} /\ Batches[1] = <<>>
    <2>1. Batches = <<<<>>>> BY DEF Init, Batches, Closed
    <2> QED BY <2>1 DEF Batch
<1>3. Spots(Batches) = {} BY <1>2 DEF Spots
<1>4. Ledger
    <2>1. /\ Numbers(hitq) = {} /\ HitsOf(pend) = {} /\ HitsOf(ready) = {} /\ HitsOf(events) = {}
        BY DEF Init, Numbers, HitsOf
    <2>2. SentOf(Batches) = {} BY <1>3 DEF SentOf
    <2>3. Apart(Numbers(hitq), HitsOf(pend), HitsOf(ready), HitsOf(events), SentOf(Batches), emitted)
        BY <2>1, <2>2 DEF Apart
    <2> QED BY <2>3 DEF Init, Ledger, OneKey, Disjoint
<1>5. Honest BY DEF Init, Honest, Exact
<1>6. Burst
    <2>1. Flight(Batches, events, advisories) BY <1>3 DEF Flight
    <2> QED BY <2>1 DEF Init, Burst, Closed, SummaryOnlyForSweeps
<1>7. Slots BY Bounds DEF Init, Slots
<1> QED BY <1>1, <1>4, <1>5, <1>6, <1>7 DEF DeliveryInv

\* Time changes no holder.
LEMMA TickInv ==
    ASSUME DeliveryAssumption, DeliveryInv, Tick
    PROVE  DeliveryInv'
<1>0. TypeOK /\ Ledger /\ Honest /\ Burst /\ Slots BY DEF DeliveryInv
<1>1. /\ hitq' \in Seq(Hit) /\ pend' \in Seq(Item) /\ AgeTypes' /\ sweep' \in Sweep
      /\ DOMAIN hitq' = DOMAIN hitq /\ DOMAIN pend' = DOMAIN pend
      /\ \A i \in DOMAIN hitq : hitq'[i].n = hitq[i].n /\ hitq'[i].advisory = hitq[i].advisory
      /\ \A i \in DOMAIN pend : /\ pend'[i].hits = pend[i].hits
                                /\ pend'[i].path = pend[i].path /\ pend'[i].type = pend[i].type
                                /\ pend'[i].advisory = pend[i].advisory
      /\ sweep'.held = sweep.held /\ sweep'.open = sweep.open
      /\ \A p \in Paths : since[p] <= slot[p] => since'[p] <= slot'[p] BY <1>0, TickFacts
<1>2. UNCHANGED <<ready, pc, verdict, alertq, events, muted, alive, emitted, advisories, faults, mutes>>
    BY DEF Tick
<1>3. TypeOK'
    <2>1. QueueTypes /\ MainTypes /\ AlertTypes /\ CountTypes BY <1>0, TypeParts
    <2>2. QueueTypes' /\ MainTypes' /\ AlertTypes' /\ CountTypes'
        BY <2>1, <1>1, <1>2 DEF QueueTypes, MainTypes, AlertTypes, CountTypes
    <2> QED BY <2>2, <1>1, TypeParts, PTL
<1>4. Batches' = Batches BY <1>1, <1>2 DEF Batches
<1>5. Numbers(hitq') = Numbers(hitq) BY <1>1 DEF Numbers
<1>6. /\ HitsOf(pend') = HitsOf(pend) /\ (Disjoint(pend) => Disjoint(pend'))
      /\ (OneKey(pend) => OneKey(pend'))
      /\ Exact(pend, advisories) => Exact(pend', advisories) BY <1>1, SameHits
<1>7. Ledger' BY <1>0, <1>1, <1>2, <1>4, <1>5, <1>6 DEF Ledger
<1>8. Honest' BY <1>0, <1>1, <1>2, <1>6 DEF Honest, Current
<1>9. Burst' BY <1>0, <1>1, <1>2, <1>4 DEF Burst, SummaryOnlyForSweeps
<1>10. Slots' BY <1>0, <1>1, <1>2 DEF Slots, Current
<1> QED BY <1>3, <1>7, <1>8, <1>9, <1>10 DEF DeliveryInv

\* A new hit has a number that nobody holds.
LEMMA EmitInv ==
    ASSUME DeliveryAssumption, DeliveryInv, NEW p \in Paths, NEW t \in EventTypes, Emit(p, t)
    PROVE  DeliveryInv'
<1>0. TypeOK /\ Ledger /\ Honest /\ Burst /\ Slots BY DEF DeliveryInv
<1>t. QueueTypes /\ MainTypes /\ AgeTypes /\ AlertTypes /\ CountTypes BY <1>0, TypeParts
<1> DEFINE n == emitted + 1
<1>1. PICK advisory \in BOOLEAN, durable \in BOOLEAN :
         /\ emitted < MaxHits
         /\ emitted' = n
         /\ hitq' = Append(hitq, [n |-> n, path |-> p, type |-> t, age |-> 0,
                                  advisory |-> advisory, durable |-> durable])
         /\ advisories' = IF advisory THEN advisories \cup {n} ELSE advisories BY DEF Emit
<1>2. UNCHANGED <<pend, ready, pc, verdict, slot, sweep, alertq, events, muted, alive, since, faults, mutes>>
    BY DEF Emit, mainVars
<1>3. /\ emitted \in Nat /\ n \in HitNo /\ n \notin 1 .. emitted /\ 1 .. emitted \subseteq 1 .. n
      /\ n \in 1 .. n
    BY <1>1, <1>t, Bounds DEF CountTypes, HitNo
<1> HIDE DEF n
<1> DEFINE h == [n |-> n, path |-> p, type |-> t, age |-> 0,
                 advisory |-> advisory, durable |-> durable]
<1>4. h \in Hit /\ h.n = n /\ h.advisory = advisory BY <1>3, Bounds DEF Hit
<1> HIDE DEF h
<1>5. hitq' = Append(hitq, h) /\ hitq \in Seq(Hit) BY <1>1, <1>t DEF h, QueueTypes
<1>6. /\ hitq' \in Seq(Hit) /\ DOMAIN hitq' = DOMAIN hitq \cup {Len(hitq) + 1}
      /\ hitq'[Len(hitq) + 1] = h /\ \A i \in DOMAIN hitq : hitq'[i] = hitq[i] BY <1>4, <1>5
<1>7. TypeOK'
    <2>1. QueueTypes' /\ MainTypes' /\ AgeTypes' /\ AlertTypes'
        BY <1>t, <1>2, <1>6 DEF QueueTypes, MainTypes, AgeTypes, AlertTypes
    <2>2. CountTypes' BY <1>t, <1>1, <1>2, <1>3, Bounds DEF CountTypes, HitNo
    <2> QED BY <2>1, <2>2, TypeParts, PTL
<1>8. Batches' = Batches BY <1>2 DEF Batches
<1>9. /\ Numbers(hitq') \subseteq Numbers(hitq) \cup {n}
      /\ \A i \in DOMAIN hitq : hitq[i].n \in Numbers(hitq) BY <1>4, <1>6 DEF Numbers
<1> DEFINE Q == Numbers(hitq)
           P == HitsOf(pend)
           R == HitsOf(ready)
           E == HitsOf(events)
           S == SentOf(Batches)
<1>10. Apart(Q, P, R, E, S, emitted) BY <1>0 DEF Ledger
<1> HIDE DEF Q, P, R, E, S
<1>11. n \notin Q /\ n \notin P /\ n \notin R /\ n \notin E /\ n \notin S BY <1>3, <1>10 DEF Apart
<1>12. Apart(Numbers(hitq'), P, R, E, S, n) BY <1>3, <1>9, <1>10, <1>11 DEF Apart, Q
<1>13. Ledger'
    <2>1. \A i, j \in DOMAIN hitq' : hitq'[i].n = hitq'[j].n => i = j
        <3>1. \A i \in DOMAIN hitq : hitq[i].n # n BY <1>9, <1>11 DEF Q
        <3>2. \A i, j \in DOMAIN hitq : hitq[i].n = hitq[j].n => i = j BY <1>0 DEF Ledger
        <3> QED BY <3>1, <3>2, <1>4, <1>6
    <2>2. advisories' \subseteq 1 .. emitted' BY <1>0, <1>1, <1>3 DEF Ledger
    <2> QED BY <1>0, <1>1, <1>2, <1>8, <1>12, <2>1, <2>2 DEF Ledger, P, R, E, S
<1>14. Honest'
    <2>1. \A i \in DOMAIN hitq' : hitq'[i].advisory <=> hitq'[i].n \in advisories'
        <3>1. \A i \in DOMAIN hitq : hitq[i].n # n BY <1>9, <1>11 DEF Q
        <3>2. \A i \in DOMAIN hitq : hitq[i].advisory <=> hitq[i].n \in advisories BY <1>0 DEF Honest
        <3>3. n \notin advisories BY <1>0, <1>3 DEF Ledger
        <3> QED BY <3>1, <3>2, <3>3, <1>1, <1>4, <1>6
    <2>2. Exact(pend, advisories') /\ Exact(ready, advisories')
        BY <1>0, <1>1, <1>11, ExactKept DEF Honest, P, R
    <2>3. \A e \in DOMAIN events : events[e].hits \subseteq advisories'
                                      <=> events[e].hits \subseteq advisories
        <3>1. \A e \in DOMAIN events : n \notin events[e].hits BY <1>11 DEF E, HitsOf
        <3> QED BY <3>1, <1>1
    <2> QED BY <1>0, <1>2, <2>1, <2>2, <2>3 DEF Honest, Current
<1>15. Burst'
    <2>1. (advisories' \ advisories) \cap SentOf(Batches) = {} BY <1>1, <1>11 DEF S
    <2>2. Flight(Batches, events, advisories) BY <1>0 DEF Burst
    <2>3. Batches \in Seq(Batch) BY <1>0, BatchesType
    <2>4. \A s \in Spots(Batches) : Put(Batches, s).id # 0 =>
             /\ Put(Batches, s).id \in DOMAIN events
             /\ events[Put(Batches, s).id].note = "none" BY <2>2 DEF Flight
    <2>5. Flight(Batches, events, advisories') BY <2>1, <2>2, <2>3, <2>4, FlightKept
    <2> QED BY <1>0, <1>2, <1>8, <2>5 DEF Burst, SummaryOnlyForSweeps
<1>16. Slots' BY <1>0, <1>2 DEF Slots, Current
<1> QED BY <1>7, <1>13, <1>14, <1>15, <1>16 DEF DeliveryInv

\* A hit goes from the queue into a pending item.
LEMMA TakeHitInv ==
    ASSUME DeliveryAssumption, DeliveryInv, TakeHit
    PROVE  DeliveryInv'
<1>0. TypeOK /\ Ledger /\ Honest /\ Burst /\ Slots BY DEF DeliveryInv
<1>t. QueueTypes /\ MainTypes /\ AgeTypes /\ AlertTypes /\ CountTypes BY <1>0, TypeParts
<1>1. /\ pc \in {"pump", "drain"} /\ hitq # <<>>
      /\ pend' = Merge(pend, Head(hitq)) /\ hitq' = Tail(hitq) /\ pc' = "drain"
      /\ UNCHANGED <<ready, verdict, slot, sweep, alertq, events, muted, alive,
                     emitted, advisories, since, faults, mutes>> BY DEF TakeHit, histVars
<1> DEFINE h == Head(hitq)
<1>2. /\ h \in Hit /\ Tail(hitq) \in Seq(Hit) /\ h.n \in Numbers(hitq)
      /\ Numbers(Tail(hitq)) \subseteq Numbers(hitq) /\ h.n \notin Numbers(Tail(hitq))
      /\ \A i, j \in DOMAIN Tail(hitq) : Tail(hitq)[i].n = Tail(hitq)[j].n => i = j
      /\ h.advisory <=> h.n \in advisories
      /\ \A i \in DOMAIN Tail(hitq) : Tail(hitq)[i].advisory <=> Tail(hitq)[i].n \in advisories
    BY <1>0, <1>1, TakeTypes DEF Ledger, Honest
<1> DEFINE Q == Numbers(hitq)
           P == HitsOf(pend)
           R == HitsOf(ready)
           E == HitsOf(events)
           S == SentOf(Batches)
<1>3. Apart(Q, P, R, E, S, emitted) BY <1>0 DEF Ledger
<1>4. h.n \notin P BY <1>2, <1>3 DEF Apart
<1>5. /\ Merge(pend, h) \in Seq(Item) /\ HitsOf(Merge(pend, h)) \subseteq P \cup {h.n}
      /\ OneKey(Merge(pend, h)) /\ Disjoint(Merge(pend, h)) /\ Exact(Merge(pend, h), advisories)
    <2>1. pend \in Seq(Item) BY <1>t DEF QueueTypes
    <2> HIDE DEF h
    <2> QED BY <2>1, <1>0, <1>2, <1>4, MergeFacts DEF Ledger, Honest
<1> HIDE DEF h, Q, P, R, E, S
<1>6. pend' = Merge(pend, h) BY <1>1 DEF h
<1>7. TypeOK'
    <2>1. QueueTypes' BY <1>t, <1>1, <1>2, <1>5, <1>6 DEF QueueTypes
    <2>2. MainTypes' BY <1>t, <1>1 DEF MainTypes
    <2>3. AgeTypes' /\ AlertTypes' /\ CountTypes' BY <1>t, <1>1 DEF AgeTypes, AlertTypes, CountTypes
    <2> QED BY <2>1, <2>2, <2>3, TypeParts, PTL
<1>8. Batches' = Batches BY <1>1 DEF Batches
<1>9. Apart(Numbers(Tail(hitq)), HitsOf(Merge(pend, h)), R, E, S, emitted)
    <2>1. /\ Numbers(Tail(hitq)) \subseteq Q /\ h.n \in Q /\ h.n \notin Numbers(Tail(hitq))
          /\ HitsOf(Merge(pend, h)) \subseteq P \cup {h.n} BY <1>2, <1>5 DEF Q
    <2> QED BY <2>1, <1>3 DEF Apart
<1>10. Ledger' BY <1>0, <1>1, <1>2, <1>5, <1>6, <1>8, <1>9 DEF Ledger, R, E, S
<1>11. Honest' BY <1>0, <1>1, <1>2, <1>5, <1>6 DEF Honest
<1>12. Burst' BY <1>0, <1>1, <1>8 DEF Burst, SummaryOnlyForSweeps
<1>13. Slots' BY <1>0, <1>1 DEF Slots
<1> QED BY <1>7, <1>10, <1>11, <1>12, <1>13 DEF DeliveryInv

\* Items that are due go from pend to ready, each with its hits.
LEMMA DueInv ==
    ASSUME DeliveryAssumption, DeliveryInv, Due
    PROVE  DeliveryInv'
<1>0. TypeOK /\ Ledger /\ Honest /\ Burst /\ Slots BY DEF DeliveryInv
<1>t. QueueTypes /\ MainTypes /\ AgeTypes /\ AlertTypes /\ CountTypes BY <1>0, TypeParts
<1>1. /\ pc \in {"pump", "drain"}
      /\ ready' = Chosen(pend, Ripe) /\ pend' = Chosen(pend, DOMAIN pend \ Ripe)
      /\ pc' = IF ready' = <<>> THEN "release" ELSE "decide"
      /\ UNCHANGED <<hitq, verdict, slot, sweep, alertq, events, muted, alive,
                     emitted, advisories, since, faults, mutes>> BY DEF Due, histVars
<1>2. /\ pend \in Seq(Item) /\ Ripe \in SUBSET DOMAIN pend
      /\ DOMAIN pend \ Ripe \in SUBSET DOMAIN pend BY <1>t DEF QueueTypes, Ripe
<1>3. ready' \in Seq(Item) /\ pend' \in Seq(Item) BY <1>1, <1>2, ChosenFacts
<1>4. /\ OneKey(pend') /\ Disjoint(pend') /\ Disjoint(ready')
      /\ Exact(pend', advisories) /\ Exact(ready', advisories)
    BY <1>0, <1>1, <1>2, ChosenHolds DEF Ledger, Honest
<1>5. /\ HitsOf(ready') \subseteq HitsOf(pend) /\ HitsOf(pend') \subseteq HitsOf(pend)
      /\ HitsOf(pend') \cap HitsOf(ready') = {} BY <1>0, <1>1, <1>2, ChosenApart DEF Ledger
<1>6. TypeOK'
    <2>1. QueueTypes' BY <1>t, <1>1, <1>3 DEF QueueTypes
    <2>2. MainTypes' BY <1>t, <1>1 DEF MainTypes
    <2>3. AgeTypes' /\ AlertTypes' /\ CountTypes' BY <1>t, <1>1 DEF AgeTypes, AlertTypes, CountTypes
    <2> QED BY <2>1, <2>2, <2>3, TypeParts, PTL
<1>7. Batches' = Batches BY <1>1 DEF Batches
<1>8. Apart(Numbers(hitq), HitsOf(pend'), HitsOf(ready'), HitsOf(events), SentOf(Batches), emitted)
    <2>1. Apart(Numbers(hitq), HitsOf(pend), HitsOf(ready), HitsOf(events), SentOf(Batches), emitted)
        BY <1>0 DEF Ledger
    <2> QED BY <2>1, <1>5 DEF Apart
<1>9. Ledger' BY <1>0, <1>1, <1>4, <1>7, <1>8 DEF Ledger
<1>10. Honest' BY <1>0, <1>1, <1>4 DEF Honest
<1>11. Burst' BY <1>0, <1>1, <1>7 DEF Burst, SummaryOnlyForSweeps
<1>12. Slots' BY <1>0, <1>1 DEF Slots
<1> QED BY <1>6, <1>9, <1>10, <1>11, <1>12 DEF DeliveryInv

\* The verdict "alert" takes the slot, and only an item that is not advisory gets it.
LEMMA DecideInv ==
    ASSUME DeliveryAssumption, DeliveryInv, Decide
    PROVE  DeliveryInv'
<1>0. TypeOK /\ Ledger /\ Honest /\ Burst /\ Slots BY DEF DeliveryInv
<1>t. QueueTypes /\ MainTypes /\ AgeTypes /\ AlertTypes /\ CountTypes BY <1>0, TypeParts
<1>1. /\ pc = "decide" /\ pc' = "insert"
      /\ slot' = IF verdict' = "alert" THEN [slot EXCEPT ![Current.path] = 0] ELSE slot
      /\ UNCHANGED <<hitq, pend, ready, sweep, alertq, events, muted, alive,
                     emitted, advisories, since, faults, mutes>> BY DEF Decide, histVars
<1>2. /\ verdict' \in {"quiet", "muted", "advisory", "cooldown", "alert"}
      /\ verdict' = "alert" => ~Current.advisory
      /\ verdict' = "advisory" => Current.advisory
    <2>1. verdict' = CASE Current.type \notin Alertable -> "quiet"
                    [] Current.type \in Alertable /\ muted -> "muted"
                    [] Current.type \in Alertable /\ ~muted /\ Current.advisory -> "advisory"
                    [] OTHER -> IF Allowed(Current.path) THEN "alert" ELSE "cooldown" BY DEF Decide
    <2> QED BY <2>1
<1>3. Current' = Current BY <1>1 DEF Current
<1>4. Current.path \in Paths BY <1>0, <1>1, CurrentFacts
<1>5. TypeOK'
    <2>1. QueueTypes' /\ AlertTypes' /\ CountTypes' BY <1>t, <1>1 DEF QueueTypes, AlertTypes, CountTypes
    <2>2. MainTypes' BY <1>t, <1>1, <1>2 DEF MainTypes
    <2>3. AgeTypes' BY <1>t, <1>1, <1>4, Bounds DEF AgeTypes
    <2> QED BY <2>1, <2>2, <2>3, TypeParts, PTL
<1>6. Batches' = Batches BY <1>1 DEF Batches
<1>7. Ledger' BY <1>0, <1>1, <1>6 DEF Ledger
<1>8. Honest' BY <1>0, <1>1, <1>2, <1>3 DEF Honest
<1>9. Burst' BY <1>0, <1>1, <1>6 DEF Burst, SummaryOnlyForSweeps
<1>10. Slots'
    <2>1. SUFFICES ASSUME faults' = 0, NEW p \in Paths
                   PROVE  since'[p] <= slot'[p] \/ (verdict' = "alert" /\ p = Current.path)
        BY <1>1, <1>3 DEF Slots
    <2>2. since[p] <= slot[p] BY <2>1, <1>0, <1>1 DEF Slots
    <2>3. slot \in [Paths -> 0 .. Cooldown] BY <1>t DEF AgeTypes
    <2>4. CASE verdict' = "alert" /\ p = Current.path BY <2>4
    <2>5. CASE ~(verdict' = "alert" /\ p = Current.path)
        <3>1. slot'[p] = slot[p] BY <2>3, <2>5, <1>1, <1>4
        <3> QED BY <3>1, <2>2, <1>1
    <2> QED BY <2>4, <2>5
<1> QED BY <1>5, <1>7, <1>8, <1>9, <1>10 DEF DeliveryInv

\* The end of a pump.
LEMMA ReleaseInv ==
    ASSUME DeliveryAssumption, DeliveryInv, Release
    PROVE  DeliveryInv'
<1>0. TypeOK /\ Ledger /\ Honest /\ Burst /\ Slots BY DEF DeliveryInv
<1>t. QueueTypes /\ MainTypes /\ AgeTypes /\ AlertTypes /\ CountTypes BY <1>0, TypeParts
<1>1. /\ pc = "release" /\ pc' = "pump"
      /\ UNCHANGED <<hitq, pend, ready, verdict, slot, events, muted, alive,
                     emitted, advisories, since, faults, mutes>> BY DEF Release, histVars
<1>2. /\ alertq' \in Seq(Batch) /\ sweep' \in Sweep
      /\ ~sweep'.open => sweep'.held = <<>>
      /\ SummaryOnlyForSweeps' /\ Flight(Batches', events, advisories)
      /\ SentOf(Batches') \subseteq SentOf(Batches) BY <1>0, ReleaseFacts DEF Sweep
<1>3. TypeOK'
    <2>1. QueueTypes' /\ MainTypes' /\ AgeTypes' /\ CountTypes'
        BY <1>t, <1>1 DEF QueueTypes, MainTypes, AgeTypes, CountTypes
    <2>2. AlertTypes' BY <1>t, <1>1, <1>2 DEF AlertTypes
    <2> QED BY <2>1, <2>2, TypeParts, PTL
<1>4. Apart(Numbers(hitq), HitsOf(pend), HitsOf(ready), HitsOf(events), SentOf(Batches'), emitted)
    BY <1>0, <1>2, ApartShrinks DEF Ledger
<1>5. Ledger' BY <1>0, <1>1, <1>4 DEF Ledger
<1>6. Honest' BY <1>0, <1>1 DEF Honest
<1>7. Burst' BY <1>1, <1>2 DEF Burst
<1>8. Slots' BY <1>0, <1>1 DEF Slots
<1> QED BY <1>3, <1>5, <1>6, <1>7, <1>8 DEF DeliveryInv

\* Whichever way an insert ends, the item leaves ready, its hits are in an event
\* or nowhere, and an alert that is handed on refers to that event or to none.
LEMMA InsertStep ==
    ASSUME DeliveryAssumption, DeliveryInv, pc = "insert", NextItem,
           InsertRow \/ UNCHANGED events,
           \/ KeepBack
           \/ /\ verdict = "alert"
              /\ \E id \in Nat : /\ HandOn(id)
                                 /\ id # 0 => InsertRow /\ id = Len(events) + 1
    PROVE  /\ QueueTypes' /\ MainTypes' /\ AgeTypes' /\ AlertTypes'
           /\ Ledger' /\ Honest' /\ Burst'
<1>0. TypeOK /\ Ledger /\ Honest /\ Burst /\ Slots BY DEF DeliveryInv
<1>t. QueueTypes /\ MainTypes /\ AgeTypes /\ AlertTypes /\ CountTypes BY <1>0, TypeParts
<1>1. /\ ready' = Tail(ready) /\ pc' = (IF ready' = <<>> THEN "release" ELSE "decide")
      /\ UNCHANGED <<hitq, pend, verdict, slot, muted, alive, emitted, advisories, mutes>>
    BY DEF NextItem
<1>2. /\ ready # <<>> /\ Current = Head(ready) /\ Current \in Item
      /\ Current.path \in Paths /\ Current.hits \in SUBSET HitNo BY <1>0, CurrentFacts
<1>3. QueueTypes' /\ MainTypes' BY <1>0, NextItemTypes
<1>4. /\ RowOf \in Row /\ RowOf.hits = Current.hits
      /\ InsertRow <=> events' = Append(events, RowOf)
      /\ verdict = "alert" => RowOf.note = "none"
      /\ RowOf.note \notin {"sent", "failed"}
      /\ RowOf.note = "advisory" <=> verdict = "advisory" BY <1>0, InsertFacts
<1>5. events \in Seq(Row) /\ DOMAIN events = 1 .. Len(events) /\ Len(events) \in Nat
    BY <1>t DEF AlertTypes
<1>6. /\ HitsOf(Tail(ready)) \subseteq HitsOf(ready) /\ Current.hits \subseteq HitsOf(ready)
      /\ Disjoint(Tail(ready)) /\ HitsOf(Tail(ready)) \cap Current.hits = {}
      /\ Exact(Tail(ready), advisories)
      /\ Current.advisory <=> Current.hits \subseteq advisories
    <2>1. ready \in Seq(Item) BY <1>t DEF QueueTypes
    <2> QED BY <2>1, <1>0, <1>2, TailHolds DEF Ledger, Honest
<1> DEFINE Q == Numbers(hitq)
           P == HitsOf(pend)
           R == HitsOf(ready)
           E == HitsOf(events)
           S == SentOf(Batches)
<1>7. Apart(Q, P, R, E, S, emitted) BY <1>0 DEF Ledger
<1>8. Current.hits \cap E = {} /\ Current.hits \cap S = {} BY <1>6, <1>7 DEF Apart
<1>9. /\ events' \in Seq(Row) /\ HitsOf(events') \subseteq E \cup Current.hits
      /\ Disjoint(events')
      /\ \A e \in DOMAIN events : e \in DOMAIN events' /\ events'[e] = events[e]
      /\ \A e \in DOMAIN events' : e \in DOMAIN events \/ events'[e] = RowOf
      /\ InsertRow => Len(events) + 1 \in DOMAIN events' /\ events'[Len(events) + 1] = RowOf
    <2>1. Disjoint(events) BY <1>0 DEF Ledger
    <2>2. CASE InsertRow
        <3>1. events' = Append(events, RowOf) BY <2>2, <1>4
        <3> QED BY <2>1, <2>2, <3>1, <1>4, <1>5, <1>8, AppendHolds
    <2>3. CASE UNCHANGED events /\ ~InsertRow BY <2>1, <2>3, <1>5
    <2> QED BY <2>2, <2>3
<1> HIDE DEF Q, P, R, E, S
<1>10. Flight(Batches, events', advisories) /\ Batches \in Seq(Batch)
    <2>1. Flight(Batches, events, advisories) BY <1>0 DEF Burst
    <2>2. Batches \in Seq(Batch) BY <1>0, BatchesType
    <2>3. \A s \in Spots(Batches) : Put(Batches, s).id # 0 =>
               /\ Put(Batches, s).id \in DOMAIN events'
               /\ events'[Put(Batches, s).id].note = "none"
               /\ events'[Put(Batches, s).id].hits = events[Put(Batches, s).id].hits
        BY <2>1, <1>9 DEF Flight
    <2>4. (advisories \ advisories) \cap SentOf(Batches) = {} OBVIOUS
    <2> QED BY <2>1, <2>2, <2>3, <2>4, FlightKept
<1>11. /\ AgeTypes' /\ AlertTypes' /\ Burst'
       /\ SentOf(Batches') \subseteq S \cup Current.hits
    <2>1. CASE KeepBack
        <3>1. UNCHANGED <<sweep, alertq, since>> BY <2>1 DEF KeepBack
        <3>2. Batches' = Batches BY <3>1 DEF Batches
        <3>3. AgeTypes' /\ AlertTypes' BY <3>1, <1>t, <1>1, <1>9 DEF AgeTypes, AlertTypes
        <3>4. Burst' BY <3>1, <3>2, <1>0, <1>1, <1>10 DEF Burst, SummaryOnlyForSweeps
        <3> QED BY <3>2, <3>3, <3>4 DEF S
    <2>2. CASE /\ verdict = "alert"
               /\ \E id \in Nat : /\ HandOn(id)
                                  /\ id # 0 => InsertRow /\ id = Len(events) + 1
        <3>1. PICK id \in Nat : HandOn(id) /\ (id # 0 => InsertRow /\ id = Len(events) + 1)
            BY <2>2
        <3> DEFINE e == [id |-> id, hits |-> Current.hits]
        <3>2. e \in Entry /\ e.id = id /\ e.hits = Current.hits BY <1>0, HandOnEntry
        <3>3. Offer(e) /\ since' = [since EXCEPT ![Current.path] = 0] BY <3>1 DEF HandOn
        <3> HIDE DEF e
        <3>4. ~(e.hits \subseteq advisories)
            <4>1. ~Current.advisory BY <2>2, <1>0 DEF Honest
            <4> QED BY <4>1, <3>2, <1>6
        <3>5. ASSUME e.id # 0
              PROVE  /\ e.id \in DOMAIN events'
                     /\ events'[e.id].note = "none" /\ events'[e.id].hits = e.hits
                     /\ \A s \in Spots(Batches) : Put(Batches, s).id < e.id
            <4>1. InsertRow /\ e.id = Len(events) + 1 BY <3>1, <3>2, <3>5
            <4>2. Flight(Batches, events, advisories) BY <1>0 DEF Burst
            <4>3. \A s \in Spots(Batches) : Put(Batches, s).id # 0 =>
                                            Put(Batches, s).id \in 1 .. Len(events)
                BY <4>2, <1>5 DEF Flight
            <4>4. \A s \in Spots(Batches) : Put(Batches, s).id < Len(events) + 1 BY <4>3, <1>5
            <4> QED BY <4>1, <4>4, <3>2, <2>2, <1>4, <1>9
        <3>6. e.hits \cap SentOf(Batches) = {} BY <3>2, <1>8 DEF S
        <3>7. /\ alertq' \in Seq(Batch) /\ sweep' \in Sweep
              /\ ~sweep'.open => sweep'.held = <<>>
              /\ SummaryOnlyForSweeps' /\ Flight(Batches', events', advisories)
              /\ SentOf(Batches') \subseteq SentOf(Batches) \cup e.hits
            BY <1>0, <3>2, <3>3, <3>4, <3>5, <3>6, <1>10, OfferFacts DEF Sweep
        <3>8. AgeTypes' BY <3>3, <1>t, <1>1, <1>2, Bounds DEF AgeTypes
        <3>9. AlertTypes' BY <3>7, <1>9 DEF AlertTypes
        <3>10. Burst' BY <3>7, <1>1 DEF Burst
        <3> QED BY <3>2, <3>7, <3>8, <3>9, <3>10 DEF S
    <2> QED BY <2>1, <2>2
<1>12. Apart(Q, P, HitsOf(Tail(ready)), HitsOf(events'), SentOf(Batches'), emitted)
    <2>1. /\ HitsOf(Tail(ready)) \subseteq R /\ Current.hits \subseteq R BY <1>6 DEF R
    <2> QED BY <2>1, <1>6, <1>7, <1>9, <1>11 DEF Apart
<1>13. Ledger' BY <1>0, <1>1, <1>6, <1>9, <1>12 DEF Ledger, Q, P
<1>14. Honest'
    <2>1. pc' # "insert" BY <1>1
    <2>2. Exact(pend', advisories') /\ Exact(ready', advisories') BY <1>0, <1>1, <1>6 DEF Honest
    <2>3. \A e \in DOMAIN events' :
             /\ events'[e].note = "advisory" => events'[e].hits \subseteq advisories
             /\ events'[e].note \in {"sent", "failed"} => ~(events'[e].hits \subseteq advisories)
        <3>1. /\ RowOf.note = "advisory" => RowOf.hits \subseteq advisories
              /\ RowOf.note \notin {"sent", "failed"} BY <1>0, <1>4, <1>6 DEF Honest
        <3> QED BY <3>1, <1>0, <1>9 DEF Honest
    <2> QED BY <2>1, <2>2, <2>3, <1>0, <1>1 DEF Honest
<1> QED BY <1>3, <1>11, <1>13, <1>14

\* The four ends of an insert.
LEMMA InsertInv ==
    ASSUME DeliveryAssumption, DeliveryInv, Stored \/ NotStored \/ AlreadyConsumed
    PROVE  DeliveryInv'
<1>0. TypeOK /\ Slots BY DEF DeliveryInv
<1>t. CountTypes /\ AgeTypes /\ AlertTypes BY <1>0, TypeParts
<1>1. /\ pc = "insert" /\ NextItem /\ (InsertRow \/ UNCHANGED events)
      /\ \/ KeepBack
         \/ /\ verdict = "alert"
            /\ \E id \in Nat : /\ HandOn(id)
                               /\ id # 0 => InsertRow /\ id = Len(events) + 1
      /\ faults' \in 0 .. MaxFaults
    <2>1. CASE Stored
        <3>1. Len(events) + 1 \in Nat BY <1>t DEF AlertTypes
        <3>2. faults' \in 0 .. MaxFaults BY <2>1, <1>t DEF Stored, CountTypes
        <3>3. verdict = "alert" => HandOn(Len(events) + 1) BY <2>1 DEF Stored
        <3>4. verdict # "alert" => KeepBack BY <2>1 DEF Stored
        <3>5. pc = "insert" /\ NextItem /\ InsertRow BY <2>1 DEF Stored
        <3> QED BY <3>1, <3>2, <3>3, <3>4, <3>5
    <2>2. CASE NotStored
        <3>1. faults' \in 0 .. MaxFaults BY <2>2, <1>t, Bounds DEF NotStored, CountTypes
        <3>2. (verdict = "alert" /\ HandOn(0)) \/ KeepBack BY <2>2 DEF NotStored
        <3>3. pc = "insert" /\ NextItem /\ (InsertRow \/ UNCHANGED events) BY <2>2 DEF NotStored
        <3> QED BY <3>1, <3>2, <3>3
    <2>3. CASE AlreadyConsumed
        <3>1. faults' \in 0 .. MaxFaults BY <2>3, <1>t, Bounds DEF AlreadyConsumed, CountTypes
        <3> QED BY <3>1, <2>3 DEF AlreadyConsumed
    <2> QED BY <2>1, <2>2, <2>3
<1>2. /\ QueueTypes' /\ MainTypes' /\ AgeTypes' /\ AlertTypes'
      /\ Ledger' /\ Honest' /\ Burst' BY <1>1, InsertStep
<1>3. TypeOK'
    <2>1. CountTypes' BY <1>1, <1>t DEF CountTypes, NextItem
    <2> QED BY <2>1, <1>2, TypeParts, PTL
<1>4. Slots'
    <2>0. SUFFICES ASSUME faults' = 0, NEW p \in Paths PROVE since'[p] <= slot'[p]
        BY DEF Slots
    <2>1. faults = 0 /\ Stored
        <3>1. NotStored \/ AlreadyConsumed => faults' = faults + 1
            BY DEF NotStored, AlreadyConsumed
        <3>2. faults \in Nat BY <1>t DEF CountTypes
        <3> QED BY <3>1, <3>2, <2>0 DEF Stored
    <2>2. slot' = slot BY <1>1 DEF NextItem
    <2>3. since[p] <= slot[p] \/ (verdict = "alert" /\ p = Current.path) BY <2>1, <1>0 DEF Slots
    <2>4. slot[p] \in 0 .. Cooldown BY <1>t DEF AgeTypes
    <2>5. CASE verdict = "alert"
        <3>1. since' = [since EXCEPT ![Current.path] = 0] BY <2>1, <2>5 DEF Stored, HandOn
        <3>2. since'[p] = IF p = Current.path THEN 0 ELSE since[p] BY <3>1, <1>t DEF AgeTypes
        <3> QED BY <3>2, <2>2, <2>3, <2>4, Bounds
    <2>6. CASE verdict # "alert"
        <3>1. since' = since BY <2>1, <2>6 DEF Stored, KeepBack
        <3> QED BY <3>1, <2>2, <2>3, <2>6
    <2> QED BY <2>5, <2>6
<1> QED BY <1>2, <1>3, <1>4 DEF DeliveryInv

\* A message that is sent settles its own events and no other that is in flight; one
\* that is lost with the alert thread settles none.
LEMMA DeliverInv ==
    ASSUME DeliveryAssumption, DeliveryInv, Deliver \/ SendRaises
    PROVE  DeliveryInv'
<1>0. TypeOK /\ Ledger /\ Honest /\ Burst /\ Slots BY DEF DeliveryInv
<1>t. QueueTypes /\ MainTypes /\ AgeTypes /\ AlertTypes /\ CountTypes BY <1>0, TypeParts
<1> DEFINE job == Head(alertq)
           settled == IF alive' THEN {job[k].id : k \in DOMAIN job} ELSE {}
<1>1. PICK sent \in BOOLEAN :
         /\ alertq # <<>> /\ alertq' = Tail(alertq)
         /\ events' = [e \in DOMAIN events |->
               IF e \in settled
               THEN [events[e] EXCEPT !.note = IF sent THEN "sent" ELSE "failed"] ELSE events[e]]
    <2>1. CASE Deliver
        <3>1. alive' = TRUE BY <2>1, <1>t DEF Deliver
        <3> QED BY <2>1, <3>1 DEF Deliver
    <2>2. CASE SendRaises
        <3>1. alertq # <<>> /\ alertq' = Tail(alertq) /\ ~alive' /\ events' = events
            BY <2>2 DEF SendRaises
        <3>2. events \in Seq(Row) BY <1>t DEF AlertTypes
        <3> QED BY <3>1, <3>2
    <2> QED BY <2>1, <2>2
<1>2. /\ UNCHANGED <<hitq, pend, ready, pc, verdict, slot, sweep, muted,
                  emitted, advisories, since, faults, mutes>>
      /\ alive' \in BOOLEAN
    BY <1>t DEF Deliver, SendRaises, mainVars, histVars, CountTypes
<1>3. /\ alertq \in Seq(Batch) /\ sweep.held \in Batch /\ Batches \in Seq(Batch)
      /\ Batches = Append(alertq, sweep.held) BY <1>0, BatchesType
<1>4. events \in Seq(Row) /\ DOMAIN events = 1 .. Len(events) /\ Len(events) \in Nat
    BY <1>t DEF AlertTypes
<1>5. /\ 1 \in DOMAIN Batches /\ Batches[1] = job /\ Tail(alertq) \in Seq(Batch)
    BY <1>1, <1>3
<1>6. /\ Embeds(Append(Tail(alertq), sweep.held), Batches)
      /\ \A s \in Spots(Append(Tail(alertq), sweep.held)) :
            \E t \in Spots(Batches) :
               t[1] # 1 /\ Put(Append(Tail(alertq), sweep.held), s) = Put(Batches, t)
    BY <1>1, <1>3, TailEmbeds
<1>7. Batches' = Append(Tail(alertq), sweep.held) /\ Batches' \in Seq(Batch)
    BY <1>1, <1>2, <1>3, <1>5 DEF Batches
<1>8. Flight(Batches, events, advisories) BY <1>0 DEF Burst
<1> DEFINE left == Batches'
<1>9. Flight(left, events, advisories) /\ SentOf(left) \subseteq SentOf(Batches)
    <2>1. Batches \in Seq(Batch) /\ left \in Seq(Batch) /\ Embeds(left, Batches) BY <1>3, <1>6, <1>7
    <2> HIDE DEF left, Batches
    <2> QED BY <2>1, <1>8, FlightShrinks
<1>10. \A k \in DOMAIN job : <<1, k>> \in Spots(Batches) /\ Put(Batches, <<1, k>>) = job[k]
    BY <1>3, <1>5, SpotFacts DEF Put
<1> HIDE DEF job
<1>11. ASSUME NEW s \in Spots(left), Put(left, s).id # 0 PROVE Put(left, s).id \notin settled
    <2>1. PICK t \in Spots(Batches) : t[1] # 1 /\ Put(left, s) = Put(Batches, t) BY <1>6, <1>7
    <2>2. t[1] \in Nat \ {0} BY <1>3, SpotFacts
    <2>3. SUFFICES ASSUME NEW k \in DOMAIN job, job[k].id = Put(left, s).id PROVE FALSE OBVIOUS
    <2>4. Before(<<1, k>>, t)
        <3>1. 1 < t[1] BY <2>1, <2>2
        <3> QED BY <3>1 DEF Before
    <2>5. /\ <<1, k>> \in Spots(Batches) /\ Put(Batches, <<1, k>>).id = Put(Batches, t).id
          /\ Put(Batches, t).id # 0 BY <1>10, <1>11, <2>1, <2>3
    <2>6. Put(Batches, <<1, k>>).id < Put(Batches, t).id BY <1>8, <2>4, <2>5 DEF Flight
    <2>7. Put(Batches, t).id \in Nat BY <1>3, SpotFacts DEF Entry
    <2> QED BY <2>5, <2>6, <2>7
<1>12. /\ events' \in Seq(Row) /\ DOMAIN events' = DOMAIN events
       /\ \A e \in DOMAIN events : /\ events'[e].hits = events[e].hits
                                   /\ e \notin settled => events'[e] = events[e]
                                   /\ e \in settled => events'[e].note \in {"sent", "failed"}
    <2> HIDE DEF settled
    <2>1. DOMAIN events' = 1 .. Len(events) BY <1>1, <1>4
    <2>2. ASSUME NEW e \in 1 .. Len(events)
          PROVE  /\ events'[e] \in Row /\ events'[e].hits = events[e].hits
                 /\ e \notin settled => events'[e] = events[e]
                 /\ e \in settled => events'[e].note \in {"sent", "failed"}
        <3>1. events[e] \in Row BY <1>4
        <3>2. CASE e \notin settled BY <3>1, <3>2, <1>1, <1>4
        <3>3. CASE e \in settled
            <4>1. \E w \in {"sent", "failed"} : events'[e] = [events[e] EXCEPT !.note = w]
                BY <3>3, <1>1, <1>4
            <4> QED BY <4>1, <3>1, <3>3 DEF Row
        <3> QED BY <3>2, <3>3
    <2>3. events' \in Seq(Row)
        <3>1. events' = [e \in 1 .. Len(events) |-> events'[e]] BY <1>1, <1>4
        <3> QED BY <3>1, <2>2, <1>4
    <2> QED BY <2>1, <2>2, <2>3, <1>4
<1>13. Flight(left, events', advisories)
    <2>1. \A s \in Spots(left) : Put(left, s).id # 0 =>
               /\ Put(left, s).id \in DOMAIN events'
               /\ events'[Put(left, s).id].note = "none"
               /\ events'[Put(left, s).id].hits = events[Put(left, s).id].hits
        <3> HIDE DEF left, settled
        <3> QED BY <1>9, <1>11, <1>12 DEF Flight
    <2>2. left \in Seq(Batch) BY <1>7
    <2>3. (advisories \ advisories) \cap SentOf(left) = {} OBVIOUS
    <2> HIDE DEF left
    <2> QED BY <2>1, <2>2, <2>3, <1>9, FlightKept
<1>14. TypeOK'
    <2>1. QueueTypes' /\ MainTypes' /\ AgeTypes' /\ CountTypes'
        BY <1>t, <1>2 DEF QueueTypes, MainTypes, AgeTypes, CountTypes
    <2>2. AlertTypes' BY <1>t, <1>1, <1>2, <1>5, <1>12 DEF AlertTypes
    <2> QED BY <2>1, <2>2, TypeParts, PTL
<1>15. HitsOf(events') = HitsOf(events) /\ Disjoint(events')
    BY <1>0, <1>12, SameHits DEF Ledger
<1>16. Ledger'
    <2>1. Apart(Numbers(hitq), HitsOf(pend), HitsOf(ready), HitsOf(events), SentOf(left), emitted)
        BY <1>0, <1>9, ApartShrinks DEF Ledger
    <2> QED BY <2>1, <1>0, <1>2, <1>15 DEF Ledger
<1>17. Honest'
    <2>1. ASSUME NEW e \in DOMAIN events, e \in settled
          PROVE  ~(events[e].hits \subseteq advisories)
        <3>1. PICK k \in DOMAIN job : job[k].id = e BY <2>1
        <3>2. /\ <<1, k>> \in Spots(Batches) /\ Put(Batches, <<1, k>>).id = e
            BY <3>1, <1>10
        <3>3. e # 0 BY <1>4, <2>1
        <3>4. events[e].hits = Put(Batches, <<1, k>>).hits BY <3>2, <3>3, <1>8 DEF Flight
        <3> QED BY <3>2, <3>4, <1>8 DEF Flight
    <2>2. \A e \in DOMAIN events' :
             /\ events'[e].note = "advisory" => events'[e].hits \subseteq advisories
             /\ events'[e].note \in {"sent", "failed"} => ~(events'[e].hits \subseteq advisories)
        <3> HIDE DEF settled
        <3> QED BY <2>1, <1>0, <1>12 DEF Honest
    <2> QED BY <2>2, <1>0, <1>2 DEF Honest, Current
<1>18. Burst'
    <2>1. SummaryOnlyForSweeps'
        <3>1. \A j \in DOMAIN alertq' : \E i \in DOMAIN alertq : alertq'[j] = alertq[i]
            <4>1. \A j \in DOMAIN alertq' : /\ j + 1 \in DOMAIN alertq
                                            /\ alertq'[j] = alertq[j + 1] BY <1>1, <1>3
            <4> QED BY <4>1
        <3> QED BY <3>1, <1>0 DEF Burst, SummaryOnlyForSweeps
    <2> QED BY <2>1, <1>0, <1>2, <1>13 DEF Burst
<1>19. Slots' BY <1>0, <1>2 DEF Slots, Current
<1> QED BY <1>14, <1>16, <1>17, <1>18, <1>19 DEF DeliveryInv

\* The mute window is of no concern to what is held.
LEMMA QuietInv ==
    ASSUME DeliveryAssumption, DeliveryInv, SetMute \/ UNCHANGED vars
    PROVE  DeliveryInv'
<1>0. TypeOK /\ Ledger /\ Honest /\ Burst /\ Slots BY DEF DeliveryInv
<1>t. QueueTypes /\ MainTypes /\ AgeTypes /\ AlertTypes /\ CountTypes BY <1>0, TypeParts
<1>1. /\ UNCHANGED <<hitq, pend, ready, pc, verdict, slot, sweep, alertq, events,
                     emitted, advisories, since, faults>>
      /\ muted' \in BOOLEAN /\ alive' \in BOOLEAN /\ mutes' \in 0 .. MaxMutes
    <2>1. CASE SetMute BY <2>1, <1>t, Bounds DEF SetMute, mainVars, CountTypes
    <2>2. CASE UNCHANGED vars BY <2>2, <1>t DEF vars, mainVars, histVars, CountTypes
    <2> QED BY <2>1, <2>2
<1>2. TypeOK'
    <2>1. QueueTypes' /\ MainTypes' /\ AgeTypes' /\ AlertTypes' /\ CountTypes'
        BY <1>t, <1>1 DEF QueueTypes, MainTypes, AgeTypes, AlertTypes, CountTypes
    <2> QED BY <2>1, TypeParts, PTL
<1>3. Batches' = Batches BY <1>1 DEF Batches
<1>4. Ledger' BY <1>0, <1>1, <1>3 DEF Ledger
<1>5. Honest' BY <1>0, <1>1 DEF Honest, Current
<1>6. Burst' BY <1>0, <1>1, <1>3 DEF Burst, SummaryOnlyForSweeps
<1>7. Slots' BY <1>0, <1>1 DEF Slots, Current
<1> QED BY <1>2, <1>4, <1>5, <1>6, <1>7 DEF DeliveryInv

\* The invariant holds in every state.
LEMMA AlwaysHeld == ASSUME DeliveryAssumption PROVE Spec => []DeliveryInv
<1>1. Init => DeliveryInv BY InitInv
<1>2. DeliveryInv /\ [Next]_vars => DeliveryInv'
    BY TickInv, EmitInv, TakeHitInv, DueInv, DecideInv, ReleaseInv, InsertInv, DeliverInv,
       QuietInv DEF Next, MainStep
<1> QED BY <1>1, <1>2, PTL DEF Spec
-----------------------------------------------------------------------------
(* The theorems *)

\* Every variable of the delivery stays in its type: no age outgrows the bound
\* it is compared with, and an item is being dispatched exactly when one is due.
THEOREM TypeCorrect == ASSUME DeliveryAssumption PROVE Spec => []TypeOK
<1>1. DeliveryInv => TypeOK BY DEF DeliveryInv
<1> QED BY <1>1, AlwaysHeld, PTL

\* Between the coalescer, the dispatch and the events table a hit is in one
\* place, and in one item or event there.
THEOREM HitsTakenOnce == ASSUME DeliveryAssumption PROVE Spec => []OneEventPerHit
<1>1. DeliveryInv => OneEventPerHit
    <2> SUFFICES ASSUME DeliveryInv PROVE OneEventPerHit OBVIOUS
    <2>1. TypeOK /\ Ledger BY DEF DeliveryInv
    <2>2. pend \in Seq(Item) /\ ready \in Seq(Item) /\ events \in Seq(Row)
        BY <2>1, TypeParts DEF QueueTypes, AlertTypes
    <2>3. /\ Disjoint(pend) /\ Disjoint(ready) /\ Disjoint(events)
          /\ HitsOf(pend) \cap HitsOf(ready) = {} /\ HitsOf(pend) \cap HitsOf(events) = {}
          /\ HitsOf(ready) \cap HitsOf(events) = {} BY <2>1 DEF Ledger, Apart
    <2> DEFINE places == pend \o ready \o events
               a == Len(pend)
               b == Len(ready)
               c == Len(events)
    <2>4. /\ a \in Nat /\ b \in Nat /\ c \in Nat /\ DOMAIN pend = 1 .. a
          /\ DOMAIN ready = 1 .. b /\ DOMAIN events = 1 .. c BY <2>2
    <2>5. /\ DOMAIN places = 1 .. a + b + c
          /\ \A i \in 1 .. a : places[i] = pend[i]
          /\ \A i \in 1 .. b : places[a + i] = ready[i]
          /\ \A i \in 1 .. c : places[a + b + i] = events[i] BY <2>2
    <2> HIDE DEF places, a, b, c
    <2>6. ASSUME NEW i \in DOMAIN places
          PROVE  \/ i \in DOMAIN pend /\ places[i] = pend[i]
                 \/ i - a \in DOMAIN ready /\ places[i] = ready[i - a]
                 \/ i - a - b \in DOMAIN events /\ places[i] = events[i - a - b]
        <3>1. i \in 1 .. a + b + c BY <2>5
        <3>2. \/ i \in 1 .. a
              \/ i - a \in 1 .. b /\ i = a + (i - a)
              \/ i - a - b \in 1 .. c /\ i = a + b + (i - a - b)
            <4>0. a \in Nat /\ b \in Nat /\ c \in Nat BY <2>4
            <4>1. CASE i <= a BY <4>0, <4>1, <3>1
            <4>2. CASE a < i /\ i <= a + b BY <4>0, <4>2, <3>1
            <4>3. CASE a + b < i BY <4>0, <4>3, <3>1
            <4> QED BY <4>0, <4>1, <4>2, <4>3, <3>1
        <3> QED BY <3>2, <2>4, <2>5
    <2>7. /\ \A i \in DOMAIN pend : pend[i].hits \subseteq HitsOf(pend)
          /\ \A i \in DOMAIN ready : ready[i].hits \subseteq HitsOf(ready)
          /\ \A i \in DOMAIN events : events[i].hits \subseteq HitsOf(events) BY DEF HitsOf
    <2>8. ASSUME NEW i \in DOMAIN places, NEW j \in DOMAIN places,
                 places[i].hits \cap places[j].hits # {}
          PROVE  i = j
        <3>0. i \in Int /\ j \in Int /\ a \in Nat /\ b \in Nat BY <2>4, <2>5
        <3>1. CASE i \in DOMAIN pend /\ places[i] = pend[i]
            <4>1. j \in DOMAIN pend /\ places[j] = pend[j] BY <3>1, <2>3, <2>6, <2>7, <2>8
            <4> QED BY <3>1, <4>1, <2>3, <2>8 DEF Disjoint
        <3>2. CASE i - a \in DOMAIN ready /\ places[i] = ready[i - a]
            <4>1. j - a \in DOMAIN ready /\ places[j] = ready[j - a]
                BY <3>2, <2>3, <2>6, <2>7, <2>8
            <4>2. i - a = j - a BY <3>2, <4>1, <2>3, <2>8 DEF Disjoint
            <4> QED BY <4>2, <3>0
        <3>3. CASE i - a - b \in DOMAIN events /\ places[i] = events[i - a - b]
            <4>1. j - a - b \in DOMAIN events /\ places[j] = events[j - a - b]
                BY <3>3, <2>3, <2>6, <2>7, <2>8
            <4>2. i - a - b = j - a - b BY <3>3, <4>1, <2>3, <2>8 DEF Disjoint
            <4> QED BY <4>2, <3>0
        <3> QED BY <3>1, <3>2, <3>3, <2>6
    <2> QED BY <2>8 DEF OneEventPerHit, places
<1> QED BY <1>1, AlwaysHeld, PTL

\* The spots of the batches are where the properties look for alerts in flight.
LEMMA FlightView == InFlight = Spots(Batches) /\ \A s : At(s) = Put(Batches, s)
BY DEF InFlight, Spots, At, Put

\* An event is suppressed as advisory only if all its hits were, and nothing of
\* that kind is ever on its way to an alert or recorded as sent.
THEOREM AdvisoryTruth == ASSUME DeliveryAssumption PROVE Spec => []AdvisoryExact
<1>1. DeliveryInv => AdvisoryExact
    BY FlightView DEF DeliveryInv, Honest, Burst, Flight, AdvisoryExact
<1> QED BY <1>1, AlwaysHeld, PTL

\* However a burst ends, what it held goes out once, in the order of the events,
\* before it is settled, and as a summary only if it is large enough.
THEOREM BurstsGoOut == ASSUME DeliveryAssumption PROVE Spec => []BurstsReleased
<1>1. DeliveryInv => AlertedOnce BY FlightView DEF DeliveryInv, Burst, Flight, AlertedOnce
<1>2. DeliveryInv => AlertsInOrder BY FlightView DEF DeliveryInv, Burst, Flight, AlertsInOrder
<1>3. DeliveryInv => SummaryOnlyForSweeps BY DEF DeliveryInv, Burst
<1>4. DeliveryInv => BurstsReleased BY <1>1, <1>2, <1>3 DEF BurstsReleased
<1> QED BY <1>4, AlwaysHeld, PTL

\* While inserts succeed, the cooldown suppresses a detection only if an alert
\* for its path was handed on less than a cooldown ago.
THEOREM CooldownHonest == ASSUME DeliveryAssumption PROVE Spec => CooldownMeansAlerted
<1> DEFINE Step == Decide /\ verdict' = "cooldown" /\ faults = 0 => since[Current.path] < Cooldown
<1>1. DeliveryInv => Step
    <2> SUFFICES ASSUME DeliveryInv, Decide, verdict' = "cooldown", faults = 0
                 PROVE  since[Current.path] < Cooldown OBVIOUS
    <2>1. TypeOK /\ Slots /\ pc = "decide" BY DEF DeliveryInv, Decide
    <2>2. Current.path \in Paths BY <2>1, CurrentFacts
    <2>3. AgeTypes BY <2>1, TypeParts
    <2>4. ~Allowed(Current.path) BY DEF Decide
    <2>5. since[Current.path] <= slot[Current.path] BY <2>1, <2>2 DEF Slots
    <2> QED BY <2>2, <2>3, <2>4, <2>5, Bounds DEF Allowed, AgeTypes
<1>2. DeliveryInv /\ [Next]_vars => [Step]_vars BY <1>1
<1>3. Spec => [][Step]_vars
    <2> HIDE DEF Step
    <2> QED BY <1>2, AlwaysHeld, PTL DEF Spec
<1> QED BY <1>3 DEF CooldownMeansAlerted
=============================================================================
