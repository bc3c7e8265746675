---------------------------- MODULE OutboxProofs ----------------------------
(***************************************************************************)
(* TypeOK, SequenceGapless and OneWorkerPerEvent for every number of       *)
(* aggregates, producers, slots, retries, restarts and events.             *)
(***************************************************************************)
EXTENDS Outbox, FiniteSetTheorems, SequenceTheorems, TLAPS

\* The events of aggregate a that transaction p has inserted.
Held(a, p) == Of(a, tx[p])

EventOK == DOMAIN event \subseteq Key /\ event \in [DOMAIN event -> Event]
TxOK == tx \in [Producer -> SUBSET Key]
SeqOK == seq \in [Aggregate -> 0..MaxEvents]

\* An open transaction holds the numbers that follow the committed ones, and
\* no two transactions hold numbers of one aggregate.
TxGapless ==
    \A p \in Producer, a \in Aggregate :
        Held(a, p) = {<<a, n>> : n \in seq[a] + 1 .. seq[a] + Cardinality(Held(a, p))}

TxAlone ==
    \A p, q \in Producer, a \in Aggregate :
        p # q => Held(a, p) = {} \/ Held(a, q) = {}

EventGapless == \A a \in Aggregate : Of(a, DOMAIN event) = {<<a, n>> : n \in 1..seq[a]}

GapInv == EventOK /\ TxOK /\ SeqOK /\ TxGapless /\ TxAlone /\ EventGapless

-----------------------------------------------------------------------------
(* Numbers.                                                                 *)

LEMMA KeyFinite == IsFiniteSet(Key)
<1>1. IsFiniteSet(1..MaxEvents)
  BY OutboxAssumption, FS_Interval
<1> QED
  BY <1>1, OutboxAssumption, FS_Product DEF Key

LEMMA HeldFinite ==
    ASSUME TxOK, NEW p \in Producer, NEW a \in Aggregate
    PROVE  /\ Held(a, p) \subseteq Key /\ IsFiniteSet(Held(a, p))
           /\ Cardinality(Held(a, p)) \in Nat
<1>1. Held(a, p) \subseteq Key
  BY DEF TxOK, Held, Of
<1> QED
  BY <1>1, KeyFinite, FS_Subset, FS_CardinalityType

LEMMA KeyPair ==
    ASSUME NEW k \in Key
    PROVE  k = <<k[1], k[2]>> /\ k[1] \in Aggregate /\ k[2] \in 1..MaxEvents /\ k[2] \in Nat
BY OutboxAssumption DEF Key

\* A step that commits nothing and that at most loses open transactions.
LEMMA LostKeepsGaps ==
    ASSUME GapInv, seq' = seq, DOMAIN event' = DOMAIN event, EventOK', TxOK',
           \A p \in Producer : tx'[p] = tx[p] \/ tx'[p] = {}
    PROVE  GapInv'
<1>1. \A p \in Producer : tx'[p] = tx[p] \/ tx'[p] = {}
  OBVIOUS
<1>2. TxOK' /\ SeqOK'
  BY DEF GapInv, SeqOK
<1>3. \A p \in Producer, a \in Aggregate : Held(a, p)' = Held(a, p) \/ Held(a, p)' = {}
  BY <1>1 DEF Held, Of
<1>4. TxGapless'
  <2> SUFFICES ASSUME NEW p \in Producer, NEW a \in Aggregate
               PROVE  Held(a, p)'
                        = {<<a, n>> : n \in seq[a] + 1 .. seq[a] + Cardinality(Held(a, p)')}
    BY DEF TxGapless
  <2>1. CASE Held(a, p)' = Held(a, p)
    BY <2>1 DEF GapInv, TxGapless
  <2>2. CASE Held(a, p)' = {}
    <3>1. Cardinality(Held(a, p)') = 0 /\ seq[a] \in Nat
      BY <2>2, FS_EmptySet, OutboxAssumption DEF GapInv, SeqOK
    <3> QED
      BY <2>2, <3>1
  <2> QED
    BY <1>3, <2>1, <2>2
<1>5. TxAlone'
  BY <1>3 DEF GapInv, TxAlone
<1>6. EventGapless'
  BY DEF GapInv, EventGapless, Of
<1> QED
  BY <1>2, <1>4, <1>5, <1>6 DEF GapInv

LEMMA OthersKeepGaps ==
    ASSUME GapInv, seq' = seq, DOMAIN event' = DOMAIN event, EventOK', tx' = tx
    PROVE  GapInv'
<1>1. TxOK'
  BY DEF GapInv, TxOK
<1> QED
  BY <1>1, LostKeepsGaps

LEMMA PublishKeepsGaps ==
    ASSUME GapInv, NEW p \in Producer, NEW a \in Aggregate, publishTransactional(p, a)
    PROVE  GapInv'
<1> DEFINE c == Cardinality(Held(a, p))
           no == seq[a] + c + 1
<1>1. c \in Nat /\ IsFiniteSet(Held(a, p))
  BY HeldFinite DEF GapInv
<1>2. seq[a] \in Nat
  BY OutboxAssumption DEF GapInv, SeqOK
<1>3. /\ no <= MaxEvents
      /\ \A q \in Producer \ {p} : Held(a, q) = {}
      /\ tx' = [tx EXCEPT ![p] = @ \cup {<<a, no>>}]
      /\ UNCHANGED <<seq, event>>
  BY DEF publishTransactional, Held
<1> HIDE DEF c
<1>4. <<a, no>> \in Key
  BY <1>1, <1>2, <1>3, OutboxAssumption DEF Key
<1>5. TxOK' /\ SeqOK' /\ EventOK' /\ EventGapless'
  BY <1>3, <1>4 DEF GapInv, TxOK, SeqOK, EventOK, EventGapless
<1>6. Held(a, p)' = Held(a, p) \cup {<<a, no>>}
  BY <1>3, <1>4 DEF GapInv, TxOK, Held, Of
<1>7. \A q \in Producer, b \in Aggregate : q # p \/ b # a => Held(b, q)' = Held(b, q)
  BY <1>3, <1>4 DEF GapInv, TxOK, Held, Of
<1>8. Held(a, p) = {<<a, n>> : n \in seq[a] + 1 .. seq[a] + c}
  BY DEF GapInv, TxGapless, c
<1>9. <<a, no>> \notin Held(a, p)
  BY <1>1, <1>2, <1>8
<1>10. Cardinality(Held(a, p)') = c + 1
  BY <1>1, <1>6, <1>9, FS_AddElement DEF c
<1>11. TxGapless'
  <2> SUFFICES ASSUME NEW q \in Producer, NEW b \in Aggregate
               PROVE  Held(b, q)'
                        = {<<b, n>> : n \in seq[b] + 1 .. seq[b] + Cardinality(Held(b, q)')}
    BY <1>3 DEF TxGapless
  <2>1. CASE q = p /\ b = a
    <3>1. seq[a] + 1 .. seq[a] + (c + 1) = (seq[a] + 1 .. seq[a] + c) \cup {no}
      BY <1>1, <1>2
    <3> HIDE DEF no
    <3>2. Held(a, p)' = {<<a, n>> : n \in seq[a] + 1 .. seq[a] + (c + 1)}
      BY <1>6, <1>8, <3>1
    <3> QED
      BY <1>10, <2>1, <3>2
  <2>2. CASE q # p \/ b # a
    BY <1>7, <2>2 DEF GapInv, TxGapless
  <2> QED
    BY <2>1, <2>2
<1>12. TxAlone'
  BY <1>3, <1>7 DEF GapInv, TxAlone
<1> QED
  BY <1>5, <1>11, <1>12 DEF GapInv

LEMMA CommitKeepsGaps ==
    ASSUME GapInv, NEW p \in Producer, Commit(p)
    PROVE  GapInv'
<1>1. /\ seq' = [a \in Aggregate |-> seq[a] + Cardinality(Held(a, p))]
      /\ event' = [k \in DOMAIN event \cup tx[p] |-> IF k \in tx[p] THEN NewEvent ELSE event[k]]
      /\ tx' = [tx EXCEPT ![p] = {}]
  BY DEF Commit, Held
<1>2. NewEvent \in Event
  BY OutboxAssumption DEF NewEvent, Event
<1>3. TxOK' /\ EventOK'
  BY <1>1, <1>2 DEF GapInv, TxOK, EventOK
<1>4. ASSUME NEW a \in Aggregate
      PROVE  /\ Cardinality(Held(a, p)) \in Nat /\ seq[a] \in Nat
             /\ seq'[a] = seq[a] + Cardinality(Held(a, p))
             /\ seq'[a] \in 0..MaxEvents
             /\ Held(a, p) = {<<a, n>> : n \in seq[a] + 1 .. seq'[a]}
  <2>1. Cardinality(Held(a, p)) \in Nat /\ seq[a] \in Nat /\ seq[a] <= MaxEvents
        /\ Held(a, p) \subseteq Key
    BY HeldFinite, OutboxAssumption DEF GapInv, SeqOK
  <2>2. seq'[a] = seq[a] + Cardinality(Held(a, p))
    BY <1>1
  <2>3. Held(a, p) = {<<a, n>> : n \in seq[a] + 1 .. seq'[a]}
    BY <2>2 DEF GapInv, TxGapless
  <2>4. seq'[a] \in 0..MaxEvents
    <3>1. CASE Cardinality(Held(a, p)) = 0
      BY <2>1, <2>2, <3>1, OutboxAssumption
    <3>2. CASE Cardinality(Held(a, p)) # 0
      <4>1. seq'[a] \in seq[a] + 1 .. seq'[a]
        BY <2>1, <2>2, <3>2
      <4>2. <<a, seq'[a]>> \in Key
        BY <2>1, <2>3, <4>1
      <4> QED
        BY <4>2, OutboxAssumption DEF Key
    <3> QED
      BY <3>1, <3>2
  <2> QED
    BY <2>1, <2>2, <2>3, <2>4
<1>5. SeqOK'
  BY <1>1, <1>4 DEF SeqOK
<1>6. EventGapless'
  <2> SUFFICES ASSUME NEW a \in Aggregate
               PROVE  Of(a, DOMAIN event') = {<<a, n>> : n \in 1..seq'[a]}
    BY DEF EventGapless
  <2>1. Of(a, DOMAIN event') = Of(a, DOMAIN event) \cup Held(a, p)
    BY <1>1 DEF Of, Held
  <2>2. Of(a, DOMAIN event) = {<<a, n>> : n \in 1..seq[a]}
    BY DEF GapInv, EventGapless
  <2>3. 1..seq'[a] = (1..seq[a]) \cup (seq[a] + 1 .. seq'[a])
    BY <1>4
  <2> QED
    BY <1>4, <2>1, <2>2, <2>3
<1>7. \A q \in Producer, a \in Aggregate :
         Held(a, q)' = IF q = p THEN {} ELSE Held(a, q)
  BY <1>1 DEF GapInv, TxOK, Held, Of
<1>8. TxGapless'
  <2> SUFFICES ASSUME NEW q \in Producer, NEW a \in Aggregate
               PROVE  Held(a, q)'
                        = {<<a, n>> : n \in seq'[a] + 1 .. seq'[a] + Cardinality(Held(a, q)')}
    BY DEF TxGapless
  <2>1. CASE Held(a, q)' = {}
    <3>1. Cardinality(Held(a, q)') = 0 /\ seq'[a] \in Nat
      BY <1>4, <2>1, FS_EmptySet, OutboxAssumption
    <3> QED
      BY <2>1, <3>1
  <2>2. CASE Held(a, q)' # {}
    <3>1. q # p /\ Held(a, q)' = Held(a, q)
      BY <1>7, <2>2
    <3>2. Held(a, p) = {}
      BY <2>2, <3>1 DEF GapInv, TxAlone
    <3>3. seq'[a] = seq[a]
      BY <1>4, <3>2, FS_EmptySet
    <3> QED
      BY <3>1, <3>3 DEF GapInv, TxGapless
  <2> QED
    BY <2>1, <2>2
<1>9. TxAlone'
  BY <1>7 DEF GapInv, TxAlone
<1> QED
  BY <1>3, <1>5, <1>6, <1>8, <1>9 DEF GapInv

-----------------------------------------------------------------------------
(* Jobs.                                                                    *)

JobOK ==
    /\ job \in [Slot -> Job \cup {Idle}]
    /\ \A s \in Slot : job[s] # Idle => job[s].key \in DOMAIN event

RestOK ==
    /\ seen \subseteq DOMAIN event
    /\ waiting \in Seq(DOMAIN event)
    /\ retained \in Seq(DOMAIN event) /\ Len(retained) <= Retained
    /\ admin \in [Admin -> DOMAIN event \cup {Idle}]
    /\ crashes \in 0..MaxCrashes

OutboxInv == GapInv /\ JobOK /\ RestOK /\ OneWorkerPerEvent

Injective(q) == \A i, j \in DOMAIN q : q[i] = q[j] => i = j

\* Two sequences that repeat nothing and share nothing make one that repeats
\* nothing.
LEMMA ConcatInjective ==
    ASSUME NEW S, NEW a \in Seq(S), NEW b \in Seq(S), Injective(a), Injective(b),
           Range(a) \cap Range(b) = {}
    PROVE  /\ a \o b \in Seq(S) /\ Injective(a \o b)
           /\ Range(a \o b) = Range(a) \cup Range(b)
<1> DEFINE m == Len(a)
           n == Len(b)
           c == a \o b
<1>1. /\ m \in Nat /\ n \in Nat /\ DOMAIN a = 1..m /\ DOMAIN b = 1..n
      /\ c \in Seq(S) /\ DOMAIN c = 1..m + n
      /\ \A i \in 1..m + n : c[i] = IF i <= m THEN a[i] ELSE b[i - m]
  OBVIOUS
<1>2. \A i \in 1..m : a[i] \in Range(a)
  BY <1>1 DEF Range
<1>3. \A i \in 1..n : b[i] \in Range(b)
  BY <1>1 DEF Range
<1> HIDE DEF c, m, n
<1>4. Injective(c)
  <2> SUFFICES ASSUME NEW i \in 1..m + n, NEW j \in 1..m + n, c[i] = c[j]
               PROVE  i = j
    BY <1>1 DEF Injective
  <2>1. CASE i <= m /\ j <= m
    BY <1>1, <2>1 DEF Injective
  <2>2. CASE i > m /\ j > m
    <3>1. i - m \in 1..n /\ j - m \in 1..n /\ b[i - m] = b[j - m]
      BY <1>1, <2>2
    <3>2. i - m = j - m
      BY <1>1, <3>1 DEF Injective
    <3> QED
      BY <1>1, <3>2
  <2>3. CASE i <= m /\ j > m
    <3>1. j - m \in 1..n /\ i \in 1..m /\ a[i] = b[j - m]
      BY <1>1, <2>3
    <3> QED
      BY <1>2, <1>3, <3>1
  <2>4. CASE i > m /\ j <= m
    <3>1. i - m \in 1..n /\ j \in 1..m /\ a[j] = b[i - m]
      BY <1>1, <2>4
    <3> QED
      BY <1>2, <1>3, <3>1
  <2> QED
    BY <1>1, <2>1, <2>2, <2>3, <2>4
<1>5. Range(c) = Range(a) \cup Range(b)
  <2>1. ASSUME NEW i \in 1..m + n PROVE c[i] \in Range(a) \cup Range(b)
    <3>1. i <= m \/ i - m \in 1..n
      BY <1>1
    <3> QED
      BY <1>1, <1>2, <1>3, <3>1
  <2>2. ASSUME NEW i \in 1..m PROVE a[i] \in Range(c)
    <3>1. i \in DOMAIN c /\ c[i] = a[i]
      BY <1>1
    <3> QED
      BY <3>1 DEF Range
  <2>3. ASSUME NEW i \in 1..n PROVE b[i] \in Range(c)
    <3>1. i + m \in DOMAIN c /\ c[i + m] = b[i]
      BY <1>1
    <3> QED
      BY <3>1 DEF Range
  <2>4. Range(c) \subseteq Range(a) \cup Range(b)
    BY <1>1, <2>1 DEF Range
  <2>5. Range(a) \cup Range(b) \subseteq Range(c)
    BY <1>1, <2>2, <2>3 DEF Range
  <2> QED
    BY <2>4, <2>5
<1> QED
  BY <1>1, <1>4, <1>5 DEF c

\* What is left of a sequence that repeats nothing does not hold its head.
LEMMA TailInjective ==
    ASSUME NEW S, NEW q \in Seq(S), q # <<>>, Injective(q)
    PROVE  /\ Tail(q) \in Seq(S) /\ Head(q) \in S /\ Injective(Tail(q))
           /\ Head(q) \in Range(q) /\ Head(q) \notin Range(Tail(q))
           /\ Range(Tail(q)) \subseteq Range(q)
<1>1. /\ Len(q) \in Nat \ {0} /\ Head(q) = q[1] /\ 1 \in DOMAIN q
      /\ Tail(q) \in Seq(S) /\ DOMAIN Tail(q) = 1..Len(q) - 1 /\ DOMAIN q = 1..Len(q)
      /\ \A i \in 1..Len(q) - 1 : Tail(q)[i] = q[i + 1] /\ i + 1 \in DOMAIN q /\ i + 1 # 1
  OBVIOUS
<1>2. Injective(Tail(q))
  BY <1>1 DEF Injective
<1>3. Head(q) \notin Range(Tail(q))
  BY <1>1 DEF Injective, Range
<1>4. Range(Tail(q)) \subseteq Range(q) /\ Head(q) \in Range(q) /\ Head(q) \in S
  BY <1>1 DEF Range
<1> QED
  BY <1>1, <1>2, <1>3, <1>4

\* An arrangement of a finite set is a sequence of it that repeats nothing.
LEMMA ArrangementIsSequence ==
    ASSUME NEW S, NEW T, IsFiniteSet(S), S \subseteq T, NEW q \in Arrangements(S)
    PROVE  q \in Seq(T) /\ Injective(q) /\ Range(q) \subseteq S
<1>1. Cardinality(S) \in Nat
  BY FS_CardinalityType
<1>2. q \in [1..Cardinality(S) -> S] /\ Injective(q)
  BY DEF Arrangements, Injective
<1>3. Range(q) \subseteq S
  BY <1>2 DEF Range
<1> QED
  BY <1>1, <1>2, <1>3

LEMMA SeqMonotone ==
    ASSUME NEW S, NEW T, S \subseteq T, NEW q \in Seq(S)
    PROVE  q \in Seq(T)
OBVIOUS

\* The jobs go on, end or stay, and the queue is left alone.
LEMMA JobsGoOn ==
    ASSUME OneWorkerPerEvent, waiting' = waiting,
           \A s \in Slot : job'[s] # Idle => job[s] # Idle /\ job'[s].key = job[s].key
    PROVE  OneWorkerPerEvent'
<1>1. Active' \subseteq Active
  BY DEF Active
<1>2. Range(waiting') = Range(waiting)
  OBVIOUS
<1> QED
  BY <1>1, <1>2 DEF OneWorkerPerEvent

\* What a slot does with its job until it ends it.
Working(s) ==
    \/ LockRow(s) \/ LockLost(s) \/ markProcessing(s) \/ markDelivered(s)
    \/ QueryFails(s) \/ ReadRetryCount(s) \/ markForRetry(s) \/ RetryFails(s)

LEMMA RetainedKept ==
    ASSUME OutboxInv, NEW s \in Slot, job[s] # Idle, Finish(s)
    PROVE  retained' \in Seq(DOMAIN event) /\ Len(retained') <= Retained
<1> DEFINE all == Append(retained, job[s].key)
<1>1. job[s].key \in DOMAIN event
  BY DEF OutboxInv, JobOK
<1>2. retained \in Seq(DOMAIN event) /\ Len(retained) <= Retained /\ Retained \in Nat
  BY OutboxAssumption DEF OutboxInv, RestOK
<1>3. all \in Seq(DOMAIN event) /\ Len(all) = Len(retained) + 1
  BY <1>1, <1>2
<1>4. retained' = IF Len(all) > Retained THEN Tail(all) ELSE all
  BY DEF Finish
<1> HIDE DEF all
<1>5. CASE Len(all) > Retained
  <2>1. all # <<>> /\ Tail(all) \in Seq(DOMAIN event) /\ Len(Tail(all)) = Len(all) - 1
    BY <1>2, <1>3
  <2> QED
    BY <1>2, <1>3, <1>4, <1>5, <2>1
<1>6. CASE ~(Len(all) > Retained)
  BY <1>2, <1>3, <1>4, <1>6
<1> QED
  BY <1>5, <1>6

\* Whatever statement a slot has sent, it leaves a row of the table.
LEMMA WrittenIsEvent ==
    ASSUME OutboxInv, NEW s \in Slot, job[s] # Idle
    PROVE  Written(s) \in Event
<1> DEFINE e == event[job[s].key]
           n == job[s].n + 1
<1>1. job[s] \in Job /\ job[s].key \in DOMAIN event
  BY DEF OutboxInv, JobOK
<1>2. e \in Event
  BY <1>1 DEF OutboxInv, GapInv, EventOK
<1>3. n \in Nat /\ (~GivesUp(n) => n \in 0..(MaxRetries - 1))
  BY <1>1, OutboxAssumption DEF Job, GivesUp
<1>4. /\ [e EXCEPT !.status = "processing"] \in Event
      /\ [e EXCEPT !.status = "delivered"] \in Event
      /\ [e EXCEPT !.status = "failed"] \in Event
  BY <1>2 DEF Event
<1>5. ~GivesUp(n) => [status |-> "pending", retries |-> n, due |-> FALSE] \in Event
  BY <1>3 DEF Event
<1> HIDE DEF e, n
<1>6. Written(s) =
        CASE job[s].at \in {"locked", "marking"} ->
               IF e.status = "pending" THEN [e EXCEPT !.status = "processing"] ELSE e
          [] job[s].at = "dispatch" -> [e EXCEPT !.status = "delivered"]
          [] job[s].at = "counted" ->
               IF GivesUp(n) THEN [e EXCEPT !.status = "failed"]
               ELSE [status |-> "pending", retries |-> n, due |-> FALSE]
          [] OTHER -> e
  BY DEF Written, e, n
<1>7. CASE job[s].at \in {"locked", "marking"}
  BY <1>2, <1>4, <1>6, <1>7
<1>8. CASE job[s].at = "dispatch"
  BY <1>4, <1>6, <1>8
<1>9. CASE job[s].at = "counted"
  BY <1>4, <1>5, <1>6, <1>9
<1>10. CASE job[s].at \notin {"locked", "marking", "dispatch", "counted"}
  BY <1>2, <1>6, <1>10
<1> QED
  BY <1>7, <1>8, <1>9, <1>10

LEMMA LandedKeepsRows ==
    ASSUME OutboxInv, NEW slots \in SUBSET Slot, \A s \in slots : job[s] # Idle,
           event' = Landed(slots)
    PROVE  EventOK' /\ DOMAIN event' = DOMAIN event
<1>1. EventOK
  BY DEF OutboxInv, GapInv
<1>2. DOMAIN event' = DOMAIN event
  BY DEF Landed
<1>3. ASSUME NEW k \in DOMAIN event PROVE event'[k] \in Event
  <2>1. CASE \E s \in slots : job[s].key = k
    <3> DEFINE s == CHOOSE t \in slots : job[t].key = k
    <3>1. s \in slots
      BY <2>1
    <3>2. event'[k] = Written(s)
      BY <2>1 DEF Landed
    <3> HIDE DEF s
    <3> QED
      BY <3>1, <3>2, WrittenIsEvent
  <2>2. CASE ~ \E s \in slots : job[s].key = k
    BY <1>1, <2>2 DEF Landed, EventOK
  <2> QED
    BY <2>1, <2>2
<1>4. event' = [k \in DOMAIN event |-> event'[k]]
  BY DEF Landed
<1> QED
  BY <1>1, <1>2, <1>3, <1>4 DEF EventOK

LEMMA WorkingJob ==
    ASSUME OutboxInv, NEW s \in Slot, Working(s)
    PROVE  /\ job[s] \in Job /\ job[s] # Idle /\ job[s].key \in DOMAIN event
           /\ EventOK' /\ DOMAIN event' = DOMAIN event
<1>1. job[s] \in Job /\ job[s] # Idle /\ job[s].key \in DOMAIN event
  <2>1. job[s] # Idle
    BY Zenon DEF Working, LockRow, LockLost, markProcessing, markDelivered, QueryFails,
                 ReadRetryCount, markForRetry, RetryFails, At
  <2> QED
    BY <2>1 DEF OutboxInv, JobOK
<1>2. event' = event \/ event' = Landed({s})
  BY DEF Working, LockRow, LockLost, markProcessing, markDelivered, QueryFails,
         ReadRetryCount, markForRetry, RetryFails
<1>3. CASE event' = event
  BY <1>1, <1>3 DEF EventOK, OutboxInv, GapInv
<1>4. CASE event' = Landed({s})
  BY <1>1, <1>4, LandedKeepsRows
<1> QED
  BY <1>1, <1>2, <1>3, <1>4

LEMMA WorkingKeeps ==
    ASSUME OutboxInv, NEW s \in Slot, Working(s)
    PROVE  OutboxInv'
<1>1. /\ job[s] \in Job /\ job[s] # Idle /\ job[s].key \in DOMAIN event
      /\ EventOK' /\ DOMAIN event' = DOMAIN event
  BY WorkingJob
<1>2. UNCHANGED <<seq, tx, seen, waiting, admin, crashes>>
  BY DEF Working, LockRow, LockLost, markProcessing, markDelivered, QueryFails,
         ReadRetryCount, markForRetry, RetryFails
<1>3. GapInv'
  BY <1>1, <1>2, OthersKeepGaps DEF OutboxInv
<1>4. \E new \in Job \cup {Idle} :
         /\ job' = [job EXCEPT ![s] = new]
         /\ new # Idle => new.key = job[s].key
         /\ retained' \in Seq(DOMAIN event) /\ Len(retained') <= Retained
  <2>1. retained \in Seq(DOMAIN event) /\ Len(retained) <= Retained
    BY DEF OutboxInv, RestOK
  <2>2. CASE Finish(s)
    BY <1>1, <2>2, RetainedKept DEF Finish
  <2>3. CASE \E l \in {"locked", "marking", "dispatch", "error"} :
               job' = [job EXCEPT ![s].at = l] /\ retained' = retained
    <3>1. PICK l \in {"locked", "marking", "dispatch", "error"} :
             job' = [job EXCEPT ![s].at = l] /\ retained' = retained
      BY <2>3
    <3>2. [job[s] EXCEPT !.at = l] \in Job /\ [job[s] EXCEPT !.at = l].key = job[s].key
      BY <1>1 DEF Job
    <3> QED
      BY <2>1, <3>1, <3>2
  <2>4. CASE LockLost(s) \/ markProcessing(s) \/ markDelivered(s) \/ QueryFails(s)
    <3>1. \E l \in {"locked", "marking", "dispatch", "error"} :
             job' = [job EXCEPT ![s].at = l] /\ retained' = retained
      BY <2>4 DEF LockLost, markProcessing, markDelivered, QueryFails
    <3> QED
      BY <2>3, <3>1
  <2>5. CASE ReadRetryCount(s)
    <3> DEFINE n == event[job[s].key].retries
               new == [job[s] EXCEPT !.at = "counted", !.n = n]
    <3>1. n \in 0..(MaxRetries - 1)
      BY <1>1 DEF OutboxInv, GapInv, EventOK, Event
    <3> HIDE DEF n
    <3>2. new \in Job /\ new.key = job[s].key
      BY <1>1, <3>1 DEF Job
    <3>3. job' = [job EXCEPT ![s] = new] /\ retained' = retained
      BY <2>5 DEF ReadRetryCount, n
    <3> QED
      BY <2>1, <3>2, <3>3
  <2> QED
    BY <2>2, <2>3, <2>4, <2>5 DEF Working, LockRow, markForRetry, RetryFails
<1>5. JobOK' /\ OneWorkerPerEvent'
  <2>1. PICK new \in Job \cup {Idle} :
           job' = [job EXCEPT ![s] = new] /\ (new # Idle => new.key = job[s].key)
    BY <1>4
  <2>2. job \in [Slot -> Job \cup {Idle}]
        /\ \A t \in Slot : job[t] # Idle => job[t].key \in DOMAIN event
    BY DEF OutboxInv, JobOK
  <2>3. job' \in [Slot -> Job \cup {Idle}]
        /\ \A t \in Slot : job'[t] = IF t = s THEN new ELSE job[t]
    BY <2>1, <2>2
  <2>4. \A t \in Slot : job'[t] # Idle => job[t] # Idle /\ job'[t].key = job[t].key
    BY <1>1, <2>1, <2>3
  <2>5. JobOK'
    BY <1>1, <2>2, <2>3, <2>4 DEF JobOK
  <2> QED
    BY <1>2, <2>4, <2>5, JobsGoOn DEF OutboxInv
<1>6. RestOK'
  BY <1>1, <1>2, <1>4 DEF OutboxInv, RestOK
<1> QED
  BY <1>3, <1>5, <1>6 DEF OutboxInv

-----------------------------------------------------------------------------
(* The steps.                                                               *)

LEMMA OutboxInit == Init => OutboxInv
<1> SUFFICES ASSUME Init PROVE OutboxInv
  OBVIOUS
<1> USE DEF Init
<1>1. DOMAIN event = {} /\ event \in [{} -> Event]
  OBVIOUS
<1>2. TxOK /\ SeqOK /\ EventOK
  BY <1>1, OutboxAssumption DEF TxOK, SeqOK, EventOK
<1>3. \A p \in Producer, a \in Aggregate : Held(a, p) = {} /\ seq[a] = 0
  BY DEF Held, Of
<1>4. TxGapless
  <2> SUFFICES ASSUME NEW p \in Producer, NEW a \in Aggregate
               PROVE  Held(a, p)
                        = {<<a, n>> : n \in seq[a] + 1 .. seq[a] + Cardinality(Held(a, p))}
    BY DEF TxGapless
  <2>1. Cardinality(Held(a, p)) = 0
    BY <1>3, FS_EmptySet
  <2> QED
    BY <1>3, <2>1
<1>5. TxAlone
  BY <1>3 DEF TxAlone
<1>6. EventGapless
  BY <1>1, <1>3 DEF EventGapless, Of
<1>7. JobOK
  BY DEF JobOK
<1>8. RestOK
  BY OutboxAssumption DEF RestOK
<1>9. OneWorkerPerEvent
  BY DEF OneWorkerPerEvent, Active, Range
<1> QED
  BY <1>2, <1>4, <1>5, <1>6, <1>7, <1>8, <1>9 DEF OutboxInv, GapInv

\* Events are only added: what held of known events goes on holding.
LEMMA QueueKept ==
    ASSUME OutboxInv, GapInv', DOMAIN event \subseteq DOMAIN event',
           UNCHANGED <<seen, waiting, job, retained, admin, crashes>>
    PROVE  OutboxInv'
<1>1. JobOK'
  BY DEF OutboxInv, JobOK
<1>2. waiting \in Seq(DOMAIN event') /\ retained \in Seq(DOMAIN event')
  BY SeqMonotone DEF OutboxInv, RestOK
<1>3. RestOK'
  BY <1>2 DEF OutboxInv, RestOK
<1>4. OneWorkerPerEvent'
  BY JobsGoOn DEF OutboxInv
<1> QED
  BY <1>1, <1>3, <1>4 DEF OutboxInv

LEMMA ProduceKeeps ==
    ASSUME OutboxInv, NEW p \in Producer, Produce(p)
    PROVE  OutboxInv'
<1>1. CASE \E a \in Aggregate : publishTransactional(p, a)
  BY <1>1, PublishKeepsGaps, QueueKept DEF publishTransactional, OutboxInv
<1>2. CASE Commit(p)
  BY <1>2, CommitKeepsGaps, QueueKept DEF Commit, OutboxInv
<1>3. CASE Rollback(p)
  <2>1. EventOK'
    BY <1>3 DEF Rollback, OutboxInv, GapInv, EventOK
  <2>2. TxOK' /\ \A q \in Producer : tx'[q] = tx[q] \/ tx'[q] = {}
    BY <1>3 DEF Rollback, OutboxInv, GapInv, TxOK
  <2>3. GapInv /\ seq' = seq /\ DOMAIN event' = DOMAIN event
    BY <1>3 DEF Rollback, OutboxInv
  <2>4. GapInv'
    BY <2>1, <2>2, <2>3, LostKeepsGaps
  <2> QED
    BY <1>3, <2>4, QueueKept DEF Rollback
<1> QED
  BY <1>1, <1>2, <1>3 DEF Produce

LEMMA PollKeeps ==
    ASSUME OutboxInv, PollRead \/ PollAdd
    PROVE  OutboxInv'
<1>1. UNCHANGED <<seq, tx, event, job, retained, admin, crashes>>
  BY DEF PollRead, PollAdd
<1>2. EventOK'
  BY <1>1 DEF OutboxInv, GapInv, EventOK
<1>3. GapInv' /\ JobOK'
  BY <1>1, <1>2, OthersKeepGaps DEF OutboxInv, JobOK
<1>4. CASE PollRead
  <2>1. seen' \subseteq DOMAIN event /\ waiting' = waiting
    BY <1>4 DEF PollRead, getPendingEvents, Due
  <2>2. RestOK'
    BY <1>1, <2>1 DEF OutboxInv, RestOK
  <2>3. OneWorkerPerEvent'
    BY <1>1, <2>1, JobsGoOn DEF OutboxInv
  <2> QED
    BY <1>3, <2>2, <2>3 DEF OutboxInv
<1>5. CASE PollAdd
  <2>1. PICK jobs \in Arrangements(NewJobs) : waiting' = waiting \o jobs
    BY <1>5 DEF PollAdd
  <2>2. NewJobs \subseteq DOMAIN event /\ NewJobs \subseteq Key
    BY DEF NewJobs, OutboxInv, RestOK, GapInv, EventOK
  <2>3. IsFiniteSet(NewJobs)
    BY <2>2, KeyFinite, FS_Subset
  <2>4. jobs \in Seq(DOMAIN event) /\ Injective(jobs) /\ Range(jobs) \subseteq NewJobs
    BY <2>2, <2>3, ArrangementIsSequence
  <2>5. waiting \in Seq(DOMAIN event) /\ Injective(waiting)
    BY DEF OutboxInv, RestOK, OneWorkerPerEvent, Injective
  <2>6. Range(waiting) \cap Range(jobs) = {} /\ Active \cap Range(jobs) = {}
    BY <2>4 DEF NewJobs
  <2>7. /\ waiting' \in Seq(DOMAIN event) /\ Injective(waiting')
        /\ Range(waiting') = Range(waiting) \cup Range(jobs)
    BY <2>1, <2>4, <2>5, <2>6, ConcatInjective
  <2>8. seen' = {}
    BY <1>5 DEF PollAdd
  <2>9. RestOK'
    BY <1>1, <2>7, <2>8 DEF OutboxInv, RestOK
  <2>10. Active' = Active
    BY <1>1 DEF Active
  <2>11. Range(waiting') \cap Active' = {}
    BY <2>6, <2>7, <2>10 DEF OutboxInv, OneWorkerPerEvent
  <2>12. OneWorkerPerEvent'
    BY <1>1, <2>7, <2>11 DEF OutboxInv, OneWorkerPerEvent, Injective
  <2> QED
    BY <1>3, <2>9, <2>12 DEF OutboxInv
<1> QED
  BY <1>4, <1>5

LEMMA TakeKeeps ==
    ASSUME OutboxInv, NEW s \in Slot, Take(s)
    PROVE  OutboxInv'
<1> DEFINE new == [key |-> Head(waiting), at |-> "begin", n |-> 0]
<1>1. /\ job[s] = Idle /\ waiting # <<>>
      /\ job' = [job EXCEPT ![s] = new] /\ waiting' = Tail(waiting)
      /\ UNCHANGED <<seq, tx, event, seen, retained, admin, crashes>>
  BY DEF Take
<1>2. waiting \in Seq(DOMAIN event) /\ Injective(waiting)
  BY DEF OutboxInv, RestOK, OneWorkerPerEvent, Injective
<1>3. /\ waiting' \in Seq(DOMAIN event) /\ Head(waiting) \in DOMAIN event
      /\ Injective(waiting') /\ Head(waiting) \in Range(waiting)
      /\ Head(waiting) \notin Range(waiting') /\ Range(waiting') \subseteq Range(waiting)
  BY <1>1, <1>2, TailInjective
<1>4. Head(waiting) \in Key
  BY <1>3 DEF OutboxInv, GapInv, EventOK
<1>5. new \in Job /\ new # Idle /\ new.key = Head(waiting)
  BY <1>4, OutboxAssumption DEF Job, Idle
<1> HIDE DEF new
<1>6. EventOK'
  BY <1>1 DEF OutboxInv, GapInv, EventOK
<1>7. GapInv'
  BY <1>1, <1>6, OthersKeepGaps DEF OutboxInv
<1>8. job \in [Slot -> Job \cup {Idle}]
      /\ \A t \in Slot : job[t] # Idle => job[t].key \in DOMAIN event
  BY DEF OutboxInv, JobOK
<1>9. job' \in [Slot -> Job \cup {Idle}]
      /\ \A t \in Slot : job'[t] = IF t = s THEN new ELSE job[t]
  BY <1>1, <1>5, <1>8
<1>10. JobOK'
  BY <1>1, <1>3, <1>5, <1>8, <1>9 DEF JobOK
<1>11. RestOK'
  BY <1>1, <1>3 DEF OutboxInv, RestOK
<1>12. \A t \in Slot : job[t] # Idle => job[t].key # Head(waiting)
  BY <1>3 DEF OutboxInv, OneWorkerPerEvent, Active
<1>13. OneWorkerPerEvent'
  <2>1. \A t, u \in Slot : job'[t] # Idle /\ job'[u] # Idle /\ t # u
                              => job'[t].key # job'[u].key
    BY <1>5, <1>9, <1>12 DEF OutboxInv, OneWorkerPerEvent
  <2>2. ASSUME NEW t \in Slot, job'[t] # Idle PROVE job'[t].key \notin Range(waiting')
    <3>1. CASE t = s
      BY <1>3, <1>5, <1>9, <3>1
    <3>2. CASE t # s
      BY <1>3, <1>9, <2>2, <3>2 DEF OutboxInv, OneWorkerPerEvent, Active
    <3> QED
      BY <3>1, <3>2
  <2>3. Range(waiting') \cap Active' = {}
    BY <2>2 DEF Active
  <2> QED
    BY <1>3, <2>1, <2>3 DEF OneWorkerPerEvent, Injective
<1> QED
  BY <1>7, <1>10, <1>11, <1>13 DEF OutboxInv

LEMMA BackoffKeeps ==
    ASSUME OutboxInv, NEW k, BackoffElapses(k)
    PROVE  OutboxInv'
<1>1. k \in DOMAIN event /\ event' = [event EXCEPT ![k].due = TRUE]
      /\ UNCHANGED <<seq, tx, seen, waiting, job, retained, admin, crashes>>
  BY DEF BackoffElapses
<1>2. EventOK
  BY DEF OutboxInv, GapInv
<1>3. [event[k] EXCEPT !.due = TRUE] \in Event
  BY <1>1, <1>2 DEF EventOK, Event
<1>4. EventOK' /\ DOMAIN event' = DOMAIN event
  BY <1>1, <1>2, <1>3 DEF EventOK
<1>5. GapInv'
  BY <1>1, <1>4, OthersKeepGaps DEF OutboxInv
<1> QED
  BY <1>1, <1>4, <1>5, QueueKept

LEMMA AdminKeeps ==
    ASSUME OutboxInv, NEW a \in Admin,
           retryEvent(a) \/ \E k \in DOMAIN event : RetryRead(a, k)
    PROVE  OutboxInv'
<1>1. UNCHANGED <<seq, tx, seen, waiting, job, retained, crashes>>
  BY DEF retryEvent, RetryRead
<1>2. EventOK /\ admin \in [Admin -> DOMAIN event \cup {Idle}]
  BY DEF OutboxInv, GapInv, RestOK
<1>3. EventOK' /\ DOMAIN event' = DOMAIN event
      /\ admin' \in [Admin -> DOMAIN event \cup {Idle}]
  <2>1. CASE retryEvent(a)
    <3>1. NewEvent \in Event
      BY OutboxAssumption DEF NewEvent, Event
    <3>2. admin[a] \in DOMAIN event /\ event' = [event EXCEPT ![admin[a]] = NewEvent]
          /\ admin' = [admin EXCEPT ![a] = Idle]
      BY <1>2, <2>1 DEF retryEvent
    <3> QED
      BY <1>2, <3>1, <3>2 DEF EventOK
  <2>2. CASE \E k \in DOMAIN event : RetryRead(a, k)
    BY <1>2, <2>2 DEF RetryRead, EventOK
  <2> QED
    BY <2>1, <2>2
<1>4. GapInv'
  BY <1>1, <1>3, OthersKeepGaps DEF OutboxInv
<1>5. JobOK' /\ RestOK'
  BY <1>1, <1>3 DEF OutboxInv, JobOK, RestOK
<1>6. OneWorkerPerEvent'
  BY <1>1, JobsGoOn DEF OutboxInv
<1> QED
  BY <1>4, <1>5, <1>6 DEF OutboxInv

LEMMA CrashKeeps ==
    ASSUME OutboxInv, Crash
    PROVE  OutboxInv'
<1>1. PICK stalled \in Arrangements(Active) : waiting' = stalled \o waiting
  BY DEF Crash
<1>2. /\ crashes < MaxCrashes /\ crashes' = crashes + 1
      /\ tx' = [p \in Producer |-> {}] /\ seen' = {}
      /\ job' = [s \in Slot |-> Idle] /\ admin' = [a \in Admin |-> Idle]
      /\ UNCHANGED <<seq, retained>>
      /\ \E reached \in SUBSET {s \in Slot : job[s] # Idle} : event' = Landed(reached)
  BY DEF Crash
<1>3. Active \subseteq DOMAIN event /\ Active \subseteq Key
  BY DEF Active, OutboxInv, JobOK, GapInv, EventOK
<1>4. IsFiniteSet(Active)
  BY <1>3, KeyFinite, FS_Subset
<1>5. stalled \in Seq(DOMAIN event) /\ Injective(stalled) /\ Range(stalled) \subseteq Active
  BY <1>3, <1>4, ArrangementIsSequence
<1>6. waiting \in Seq(DOMAIN event) /\ Injective(waiting) /\ Range(waiting) \cap Active = {}
  BY DEF OutboxInv, RestOK, OneWorkerPerEvent, Injective
<1>7. waiting' \in Seq(DOMAIN event) /\ Injective(waiting')
  BY <1>1, <1>5, <1>6, ConcatInjective
<1>8. EventOK' /\ DOMAIN event' = DOMAIN event
  <2>1. PICK reached \in SUBSET {s \in Slot : job[s] # Idle} : event' = Landed(reached)
    BY <1>2
  <2>2. reached \in SUBSET Slot /\ \A s \in reached : job[s] # Idle
    OBVIOUS
  <2> QED
    BY <2>1, <2>2, LandedKeepsRows
<1>9. GapInv'
  <2>1. GapInv /\ seq' = seq /\ DOMAIN event' = DOMAIN event
    BY <1>2, <1>8 DEF OutboxInv
  <2>2. TxOK' /\ \A p \in Producer : tx'[p] = {}
    BY <1>2 DEF TxOK
  <2> QED
    BY <1>8, <2>1, <2>2, LostKeepsGaps
<1>10. JobOK'
  BY <1>2 DEF JobOK
<1>11. crashes' \in 0..MaxCrashes
  BY <1>2, OutboxAssumption DEF OutboxInv, RestOK
<1>12. RestOK'
  BY <1>2, <1>7, <1>8, <1>11 DEF OutboxInv, RestOK
<1>13. Active' = {}
  BY <1>2 DEF Active
<1>14. OneWorkerPerEvent'
  BY <1>2, <1>7, <1>13 DEF OneWorkerPerEvent, Injective
<1> QED
  BY <1>9, <1>10, <1>12, <1>14 DEF OutboxInv

LEMMA OutboxStep == OutboxInv /\ [Next]_vars => OutboxInv'
<1> SUFFICES ASSUME OutboxInv, [Next]_vars PROVE OutboxInv'
  OBVIOUS
<1>1. CASE \E p \in Producer : Produce(p)
  BY <1>1, ProduceKeeps
<1>2. CASE PollRead \/ PollAdd
  BY <1>2, PollKeeps
<1>3. CASE \E s \in Slot : Take(s)
  BY <1>3, TakeKeeps
<1>4. CASE \E s \in Slot : Working(s)
  BY <1>4, WorkingKeeps
<1>5. CASE \E k \in DOMAIN event : BackoffElapses(k)
  BY <1>5, BackoffKeeps
<1>6. CASE \E a \in Admin : retryEvent(a) \/ \E k \in DOMAIN event : RetryRead(a, k)
  BY <1>6, AdminKeeps
<1>7. CASE Crash
  BY <1>7, CrashKeeps
<1>8. CASE UNCHANGED vars
  <2>1. UNCHANGED <<seq, tx, event, seen, waiting, job, retained, admin, crashes>>
    BY <1>8 DEF vars
  <2>2. EventOK'
    BY <2>1 DEF OutboxInv, GapInv, EventOK
  <2>3. GapInv'
    BY <2>1, <2>2, OthersKeepGaps DEF OutboxInv
  <2> QED
    BY <2>1, <2>3, QueueKept
<1> QED
  BY <1>1, <1>2, <1>3, <1>4, <1>5, <1>6, <1>7, <1>8 DEF Next, Undisturbed, Work, Working

LEMMA OutboxInvHolds == Spec => []OutboxInv
BY OutboxInit, OutboxStep, PTL DEF Spec

-----------------------------------------------------------------------------
(* The theorems.                                                            *)

\* In every reachable state the tables, the queue and the slots hold what the
\* code stores in them: every job, remembered job and admin call is about an
\* event that exists, and no count leaves its range.
THEOREM TypeOKHolds == Spec => []TypeOK
<1>1. OutboxInv => TypeOK
  <2> SUFFICES ASSUME OutboxInv PROVE TypeOK
    OBVIOUS
  <2>1. seq \in [Aggregate -> 0..MaxEvents] /\ tx \in [Producer -> SUBSET Key]
        /\ DOMAIN event \subseteq Key /\ \A k \in DOMAIN event : event[k] \in Event
    BY DEF OutboxInv, GapInv, SeqOK, TxOK, EventOK
  <2>2. \A s \in Slot : job[s] = Idle \/ job[s] \in Job
    BY DEF OutboxInv, JobOK
  <2>3. \A a \in Admin : admin[a] = Idle \/ admin[a] \in DOMAIN event
    BY DEF OutboxInv, RestOK
  <2> QED
    BY <2>1, <2>2, <2>3 DEF TypeOK, OutboxInv, RestOK
<1> QED
  BY <1>1, OutboxInvHolds, PTL

\* The numbers a reader sees of an aggregate have no gap, whatever
\* transactions publish, commit, roll back or are lost in a restart.
THEOREM SequenceGaplessHolds == Spec => []SequenceGapless
<1>1. OutboxInv => SequenceGapless
  <2> SUFFICES ASSUME OutboxInv, NEW a \in Aggregate
               PROVE  {k[2] : k \in Of(a, DOMAIN event)} = 1..seq[a]
    BY DEF SequenceGapless
  <2>1. Of(a, DOMAIN event) = {<<a, n>> : n \in 1..seq[a]}
    BY DEF OutboxInv, GapInv, EventGapless
  <2>2. \A n \in 1..seq[a] : <<a, n>> \in Of(a, DOMAIN event) /\ <<a, n>>[2] = n
    BY <2>1
  <2>3. \A k \in Of(a, DOMAIN event) : k[2] \in 1..seq[a]
    BY <2>1
  <2> QED
    BY <2>2, <2>3
<1> QED
  BY <1>1, OutboxInvHolds, PTL

\* No event is in the hands of two slots, or of a slot and the queue,
\* although polls overlap with running jobs and a restart hands jobs out
\* again.
THEOREM OneWorkerPerEventHolds == Spec => []OneWorkerPerEvent
<1>1. OutboxInv => OneWorkerPerEvent
  BY DEF OutboxInv
<1> QED
  BY <1>1, OutboxInvHolds, PTL
=============================================================================
