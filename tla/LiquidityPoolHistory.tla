------------------------ MODULE LiquidityPoolHistory ------------------------
(***************************************************************************)
(* contracts/soroban/src/liquidity_pool.rs: the history of one pool's      *)
(* states, kept in a ring of snapshots and a ring of daily buckets that    *)
(* are overwritten when they are full.  Calls are atomic.                  *)
(*                                                                         *)
(* A snapshot is its price, its volume and its time.  Fees are summed as   *)
(* the volume is, and the averages of the reserves, which no other         *)
(* computation reads, are left out with the formulas of the analytics.     *)
(***************************************************************************)
EXTENDS LedgerClock, Sequences, FiniteSets, Functions

CONSTANTS
    Capacity,       \* MAX_SNAPSHOTS
    DailyCapacity,  \* MAX_DAILY_BUCKETS
    DaySecs,        \* DAY_SECS
    Prices,
    Volumes,
    MaxSnapshots    \* bound of the model on the snapshots ever recorded

ASSUME PoolHistoryAssumption ==
    /\ Capacity \in Nat \ {0, 1} /\ DailyCapacity \in Nat \ {0}
    /\ DaySecs \in Nat \ {0} /\ Prices \subseteq Nat /\ Volumes \subseteq Nat
    /\ MaxSnapshots \in Nat

VARIABLES
    snapshots,   \* PoolSnapshot by its slot in the ring, with PoolRingMeta
    buckets,     \* DailyBucket by its slot, with DailyRingMeta
    compared,    \* the snapshot the last one was compared with (history)
    recorded     \* every snapshot there was (history)

poolVars == <<snapshots, buckets, compared, recorded>>

Nothing == [at |-> 0, price |-> 0, volume |-> 0]
EmptyRing(capacity) == [slot |-> [i \in 0 .. capacity - 1 |-> <<>>], head |-> 0, count |-> 0]

PoolInit ==
    /\ snapshots = EmptyRing(Capacity) /\ buckets = EmptyRing(DailyCapacity)
    /\ compared = Nothing /\ recorded = <<>>

\* Writes an entry at the head of a ring and advances the head.
Pushed(ring, capacity, entry) ==
    [slot |-> [ring.slot EXCEPT ![ring.head] = <<entry>>],
     head |-> (ring.head + 1) % capacity, count |-> ring.count + 1]

\* The slot before the head, where the latest entry is.
Latest(ring, capacity) == IF ring.head = 0 THEN capacity - 1 ELSE ring.head - 1

\* Mutant: the buffer is read from its first slot, also after it has wrapped.
Chronological_FromFirst(ring, capacity) ==
    LET size == IF ring.count > capacity THEN capacity ELSE ring.count
    IN [i \in 1 .. size |-> ring.slot[(i - 1) % capacity][1]]

\* get_snapshots_in_window and get_daily_history over all times.
Chronological(ring, capacity) ==
    LET size == IF ring.count > capacity THEN capacity ELSE ring.count
        start == IF ring.count > capacity THEN ring.head ELSE 0
    IN [i \in 1 .. size |-> ring.slot[(start + i - 1) % capacity][1]]

\* update_daily_bucket
Bucketed(s) ==
    LET day == s.at \div DaySecs
        last == Latest(buckets, DailyCapacity)
        b == buckets.slot[last][1]
    IN IF buckets.count > 0 /\ b.day = day
       THEN [buckets EXCEPT !.slot[last] = <<
                [b EXCEPT !.high = IF s.price > @ THEN s.price ELSE @,
                          !.low = IF s.price < @ THEN s.price ELSE @,
                          !.close = s.price, !.volume = @ + s.volume,
                          !.count = @ + 1]>>]
       ELSE Pushed(buckets, DailyCapacity,
                [day |-> day, open |-> s.price, high |-> s.price, low |-> s.price,
                 close |-> s.price, volume |-> s.volume, count |-> 1])

record_pool_state(price, volume) ==
    LET s == [at |-> now, price |-> price, volume |-> volume]
        written == Pushed(snapshots, Capacity, s)
        previous == IF snapshots.head = 0 THEN Capacity - 1 ELSE snapshots.head - 1
    IN  /\ Len(recorded) < MaxSnapshots
        /\ snapshots' = written
        /\ buckets' = Bucketed(s)
        /\ compared' = IF written.count > 1 THEN written.slot[previous][1] ELSE compared
        /\ recorded' = Append(recorded, s)

PoolNext ==
    /\ \E price \in Prices, volume \in Volumes : record_pool_state(price, volume)
    /\ UNCHANGED now

PoolHistorySpec ==
    /\ ClockInit /\ PoolInit
    /\ [][PoolNext \/ (Tick /\ UNCHANGED poolVars)]_<<now, poolVars>>

-----------------------------------------------------------------------------
(* Properties.                                                              *)

\* The last n entries of a sequence.
LastOnes(s, n) ==
    LET size == IF Len(s) > n THEN n ELSE Len(s)
    IN [i \in 1 .. size |-> s[Len(s) - size + i]]

\* The snapshots taken on a day, by their positions.
OnDay(day) == {i \in DOMAIN recorded : recorded[i].at \div DaySecs = day}

\* What DailyBucket's fields say of their day is what its snapshots sum up to.
SumsUp(b) ==
    LET of == OnDay(b.day)
    IN  /\ \E first, last \in of :
              /\ b.open = recorded[first].price /\ b.close = recorded[last].price
              /\ \A i \in of : first <= i /\ i <= last
        /\ \A i \in of : b.low <= recorded[i].price /\ recorded[i].price <= b.high
        /\ {b.low, b.high} \subseteq {recorded[i].price : i \in of}
        /\ b.volume = SumFunctionOnSet([i \in of |-> recorded[i].volume], of)
        /\ b.count = Cardinality(of)

\* However often the rings wrap, the history is the latest snapshots in the
\* order they were taken; the daily history sums up day after day, and a day
\* with a snapshot is left out only if it is before a full ring of them; and a
\* change is measured against the snapshot before.
HistorySound ==
    /\ Chronological(snapshots, Capacity) = LastOnes(recorded, Capacity)
    /\ LET daily == Chronological(buckets, DailyCapacity)
       IN /\ \A i \in DOMAIN daily : SumsUp(daily[i])
          /\ \A i, j \in DOMAIN daily : i < j => daily[i].day < daily[j].day
          /\ \A i \in DOMAIN recorded :
                \/ \E j \in DOMAIN daily : i \in OnDay(daily[j].day)
                \/ /\ Len(daily) = DailyCapacity
                   /\ recorded[i].at \div DaySecs < daily[1].day
    /\ Len(recorded) > 1 => compared = recorded[Len(recorded) - 1]
    /\ recorded # <<>> =>
          snapshots.slot[Latest(snapshots, Capacity)][1] = recorded[Len(recorded)]
=============================================================================
