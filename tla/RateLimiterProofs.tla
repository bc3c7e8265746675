------------------------- MODULE RateLimiterProofs -------------------------
(***************************************************************************)
(* LimiterSound for any number of users, all limits, lengths of windows    *)
(* and cooldowns.                                                          *)
(*                                                                         *)
(* The argument is about the log as a sequence.  Each window's counters    *)
(* are those of the transfers since it began (Running), each transfer was  *)
(* counted in a window that began a full length after the last one it does *)
(* not share (Spaced), and no cooldown that is due is above the one stored *)
(* (Cooled).  The lemmas say how each of these survives one more event and *)
(* a later time; LimiterInv has them of log and now.                       *)
(***************************************************************************)
EXTENDS RateLimiter, FiniteSums

\* The parts of the assumption that the proofs cite.
LEMMA LimiterValues ==
    /\ \A n \in Values : n \in Nat
    /\ \A n \in Cooldowns : n \in Nat
    /\ \A limits \in LimitSets : limits \in Limits
    /\ \A score \in RiskScores : score \in Nat /\ score <= 10000
    /\ MaxDays \in Nat \ {0}
<1>1. \A n \in Values : n \in Nat
    BY LimiterAssumption, SMTT(30)
<1>2. \A n \in Cooldowns : n \in Nat
    BY LimiterAssumption, SMTT(30)
<1>3. \A limits \in LimitSets : limits \in Limits
    BY LimiterAssumption, SMTT(30)
<1>4. \A score \in RiskScores : score \in Nat /\ score <= 10000
    BY LimiterAssumption, SMTT(30)
<1>5. MaxDays \in Nat \ {0}
    BY LimiterAssumption, SMTT(30)
<1> QED
    BY <1>1, <1>2, <1>3, <1>4, <1>5

-----------------------------------------------------------------------------
(* RateLimiter: what its log is, as a sequence by itself.                    *)

LimiterEvent ==
    [kind : {"transfer", "breach", "clear"}, user : Sender, value : Nat, at : Nat,
     until : Nat, limit : [Window -> Nat]]

LimiterWindow == [value : Nat, count : Nat, start : Nat]

\* A log longer by one event.
Extends(M, L, e) ==
    /\ L \in Seq(LimiterEvent) /\ M \in Seq(LimiterEvent) /\ e \in LimiterEvent
    /\ Len(L) \in Nat /\ DOMAIN L = 1 .. Len(L) /\ DOMAIN M = 1 .. (Len(L) + 1)
    /\ \A i \in 1 .. Len(L) : M[i] = L[i]
    /\ M[Len(L) + 1] = e

\* Transfers of some users, since a time and on a day, and what they come to.
SentIn(L, U) == {i \in DOMAIN L : L[i].kind = "transfer" /\ L[i].user \in U}
SinceIn(L, U, s) == {i \in SentIn(L, U) : L[i].at >= s}
DayIn(L, U, len, d) == {i \in SentIn(L, U) : L[i].at \div len = d}
AmountIn(L) == [i \in DOMAIN L |-> L[i].value]
SumIn(L, P) == SumFunctionOnSet(AmountIn(L), P)
HoldsIn(L, used, P) == used.value = SumIn(L, P) /\ used.count = Cardinality(P)

\* The log up to t, in the order of time.
PastIn(L, t) ==
    /\ L \in Seq(LimiterEvent) /\ t \in Nat
    /\ \A i \in DOMAIN L : L[i].at <= t
    /\ \A i, j \in DOMAIN L : i < j => L[i].at <= L[j].at

\* A window's counters: of the transfers since it began, none of which is
\* after its end.
Running(L, t, used, U, len) ==
    /\ used \in LimiterWindow /\ used.start <= t
    /\ HoldsIn(L, used, SinceIn(L, U, used.start))
    /\ \A i \in SentIn(L, U) : L[i].at < used.start + len

LEMMA AppendExtends ==
    ASSUME NEW L \in Seq(LimiterEvent), NEW e \in LimiterEvent
    PROVE  Extends(Append(L, e), L, e)
BY DEF Extends

LEMMA IndicesFinite ==
    ASSUME NEW n \in Nat, NEW P \in SUBSET (1 .. n)
    PROVE  IsFiniteSet(P) /\ Cardinality(P) \in Nat /\ n + 1 \notin P
<1>1. IsFiniteSet(1 .. n)
    BY FS_Interval
<1>2. IsFiniteSet(P)
    BY <1>1, FS_Subset
<1>3. Cardinality(P) \in Nat
    BY <1>2, FS_CardinalityType
<1>4. \A x \in P : x \in Int /\ x <= n
    OBVIOUS
<1> QED
    BY <1>2, <1>3, <1>4

LEMMA SumInNat ==
    ASSUME NEW L \in Seq(LimiterEvent), NEW P \in SUBSET (DOMAIN L)
    PROVE  /\ IsFiniteSet(P) /\ Cardinality(P) \in Nat /\ SumIn(L, P) \in Nat
           /\ \A i \in P : AmountIn(L)[i] \in Nat
<1>1. DOMAIN L = 1 .. Len(L) /\ Len(L) \in Nat
    OBVIOUS
<1>2. IsFiniteSet(P) /\ Cardinality(P) \in Nat
    BY <1>1, IndicesFinite
<1>3. ASSUME NEW i \in P PROVE AmountIn(L)[i] \in Nat
    <2>1. L[i] \in LimiterEvent
        BY <1>1
    <2> QED
        BY <2>1 DEF AmountIn, LimiterEvent
<1>4. SumIn(L, P) \in Nat
    BY <1>2, <1>3, SumNat DEF SumIn
<1> QED
    BY <1>2, <1>3, <1>4

\* The sum over positions the log had stays, and one more position adds the
\* event's value.
LEMMA SumKept ==
    ASSUME NEW M, NEW L, NEW e, Extends(M, L, e), NEW P \in SUBSET (DOMAIN L)
    PROVE  SumIn(M, P) = SumIn(L, P)
<1>1. L \in Seq(LimiterEvent)
    BY DEF Extends
<1>2. IsFiniteSet(P)
    BY <1>1, SumInNat
<1>3. \A i \in P : AmountIn(M)[i] = AmountIn(L)[i]
    BY DEF Extends, AmountIn
<1> QED
    BY <1>2, <1>3, SumSame DEF SumIn

LEMMA SumOneMore ==
    ASSUME NEW M, NEW L, NEW e, Extends(M, L, e), NEW P \in SUBSET (DOMAIN L)
    PROVE  /\ SumIn(M, P \cup {Len(L) + 1}) = SumIn(L, P) + e.value
           /\ Cardinality(P \cup {Len(L) + 1}) = Cardinality(P) + 1
<1> DEFINE y == Len(L) + 1
<1>1. L \in Seq(LimiterEvent) /\ DOMAIN L = 1 .. Len(L) /\ Len(L) \in Nat
      /\ e \in LimiterEvent
    BY DEF Extends
<1>2. IsFiniteSet(P) /\ y \notin P
    BY <1>1, IndicesFinite
<1>3. \A i \in P : AmountIn(L)[i] \in Nat
    BY <1>1, SumInNat
<1>4. \A i \in P : AmountIn(M)[i] = AmountIn(L)[i]
    BY DEF Extends, AmountIn
<1>5. AmountIn(M)[y] = e.value
    BY <1>1 DEF Extends, AmountIn
<1>6. e.value \in Nat
    BY <1>1 DEF LimiterEvent
<1>7. \A i \in P : AmountIn(L)[i] \in Int /\ AmountIn(M)[i] = AmountIn(L)[i]
    BY <1>3, <1>4
<1>8. Cardinality(P \cup {y}) = Cardinality(P) + 1
    BY <1>2, FS_AddElement
<1> HIDE DEF y
<1>9. SumFunctionOnSet(AmountIn(M), P \cup {y})
        = SumFunctionOnSet(AmountIn(L), P) + AmountIn(M)[y]
    BY <1>2, <1>5, <1>6, <1>7, SumExtend
<1> QED
    BY <1>5, <1>8, <1>9 DEF SumIn, y

LEMMA SentKept ==
    ASSUME NEW M, NEW L, NEW e, Extends(M, L, e), NEW U,
           ~ (e.kind = "transfer" /\ e.user \in U)
    PROVE  SentIn(M, U) = SentIn(L, U)
BY DEF Extends, SentIn

LEMMA SentMore ==
    ASSUME NEW M, NEW L, NEW e, Extends(M, L, e), NEW U,
           e.kind = "transfer" /\ e.user \in U
    PROVE  SentIn(M, U) = SentIn(L, U) \cup {Len(L) + 1}
BY DEF Extends, SentIn

\* A window at a later time.
LEMMA RunningLater ==
    ASSUME NEW L, NEW t \in Nat, NEW s \in Nat, t <= s, NEW used, NEW U, NEW len,
           Running(L, t, used, U, len)
    PROVE  Running(L, s, used, U, len)
<1>1. used \in LimiterWindow /\ used.start <= t
    BY DEF Running
<1>2. used.start <= s
    BY <1>1 DEF LimiterWindow
<1> QED
    BY <1>1, <1>2 DEF Running

\* A window that starts when no transfer was made yet, or all are over.
LEMMA RunningFresh ==
    ASSUME NEW L, NEW t \in Nat, NEW U, NEW len \in Nat \ {0}, PastIn(L, t),
           SinceIn(L, U, t) = {}
    PROVE  Running(L, t, [value |-> 0, count |-> 0, start |-> t], U, len)
<1> DEFINE x == [value |-> 0, count |-> 0, start |-> t]
<1>1. x \in LimiterWindow /\ x.start <= t /\ x.value = 0 /\ x.count = 0 /\ x.start = t
    BY DEF LimiterWindow
<1> HIDE DEF x
<1>2. SumIn(L, {}) = 0 /\ Cardinality({}) = 0
    BY SumEmpty, FS_EmptySet DEF SumIn
<1>3. HoldsIn(L, x, SinceIn(L, U, x.start))
    BY <1>1, <1>2 DEF HoldsIn
<1>4. ASSUME NEW i \in SentIn(L, U) PROVE L[i].at < t + len
    <2>1. i \in DOMAIN L /\ L[i] \in LimiterEvent /\ L[i].at <= t
        BY DEF PastIn, SentIn
    <2>2. L[i].at \in Nat
        BY <2>1 DEF LimiterEvent
    <2> QED
        BY <2>1, <2>2
<1>5. Running(L, t, x, U, len)
    BY <1>1, <1>3, <1>4 DEF Running
<1> QED
    BY <1>5 DEF x

\* A window as it decays.
Decaying(used, t, len) ==
    IF t >= used.start + len THEN [value |-> 0, count |-> 0, start |-> t] ELSE used

LEMMA RunningDecayed ==
    ASSUME NEW L, NEW t \in Nat, NEW U, NEW len \in Nat \ {0}, NEW used, PastIn(L, t),
           Running(L, t, used, U, len)
    PROVE  /\ Running(L, t, Decaying(used, t, len), U, len)
           /\ t < Decaying(used, t, len).start + len
           /\ Decaying(used, t, len).start = used.start
              \/ used.start + len <= Decaying(used, t, len).start
<1>1. used.start \in Nat
    BY DEF Running, LimiterWindow
<1>2. CASE t >= used.start + len
    <2>1. Decaying(used, t, len) = [value |-> 0, count |-> 0, start |-> t]
        BY <1>2 DEF Decaying
    <2>2. SinceIn(L, U, t) = {}
        <3> SUFFICES ASSUME NEW i \in SentIn(L, U), L[i].at >= t PROVE FALSE
            BY DEF SinceIn
        <3>1. i \in DOMAIN L /\ L[i] \in LimiterEvent /\ L[i].at < used.start + len
            BY DEF PastIn, SentIn, Running
        <3>2. L[i].at \in Nat
            BY <3>1 DEF LimiterEvent
        <3> QED
            BY <1>1, <1>2, <3>1, <3>2
    <2>3. Running(L, t, [value |-> 0, count |-> 0, start |-> t], U, len)
        BY <2>2, RunningFresh
    <2>4. t < t + len
        OBVIOUS
    <2> QED
        BY <1>2, <2>1, <2>3, <2>4
<1>3. CASE ~ (t >= used.start + len)
    <2>1. Decaying(used, t, len) = used
        BY <1>3 DEF Decaying
    <2>2. t < used.start + len
        BY <1>1, <1>3
    <2> QED
        BY <2>1, <2>2
<1> QED
    BY <1>2, <1>3

\* Another event leaves the window, a transfer adds to it.
LEMMA RunningKept ==
    ASSUME NEW M, NEW L, NEW e, Extends(M, L, e), NEW U, NEW t, NEW used, NEW len,
           ~ (e.kind = "transfer" /\ e.user \in U), Running(L, t, used, U, len)
    PROVE  Running(M, t, used, U, len)
<1>1. SentIn(M, U) = SentIn(L, U)
    BY SentKept
<1>2. \A i \in SentIn(L, U) : i \in DOMAIN L /\ M[i] = L[i]
    BY DEF SentIn, Extends
<1>3. SinceIn(M, U, used.start) = SinceIn(L, U, used.start)
    BY <1>1, <1>2 DEF SinceIn
<1>4. SinceIn(L, U, used.start) \in SUBSET (DOMAIN L)
    BY <1>2 DEF SinceIn
<1>5. SumIn(M, SinceIn(L, U, used.start)) = SumIn(L, SinceIn(L, U, used.start))
    BY <1>4, SumKept
<1>6. HoldsIn(M, used, SinceIn(M, U, used.start))
    BY <1>3, <1>5 DEF HoldsIn, Running
<1>7. \A i \in SentIn(M, U) : M[i].at < used.start + len
    BY <1>1, <1>2 DEF Running
<1> QED
    BY <1>6, <1>7 DEF Running

LEMMA AddedIs ==
    ASSUME NEW used \in LimiterWindow, NEW n \in Nat
    PROVE  Added(used, n)
             = [value |-> used.value + n, count |-> used.count + 1, start |-> used.start]
<1> DEFINE y == [used EXCEPT !.value = @ + n]
<1>1. y \in LimiterWindow /\ y.value = used.value + n /\ y.count = used.count
      /\ y.start = used.start
    BY DEF LimiterWindow
<1> HIDE DEF y
<1>2. [y EXCEPT !.count = @ + 1]
        = [value |-> used.value + n, count |-> used.count + 1, start |-> used.start]
    BY <1>1 DEF LimiterWindow
<1>3. [y EXCEPT !.count = @ + 1] = Added(used, n)
    BY <1>1 DEF y, Added
<1> QED
    BY <1>2, <1>3

LEMMA RunningMore ==
    ASSUME NEW M, NEW L, NEW e, Extends(M, L, e), NEW U, NEW t \in Nat, NEW used,
           NEW len \in Nat \ {0}, e.kind = "transfer", e.user \in U, e.at = t,
           Running(L, t, used, U, len), t < used.start + len
    PROVE  Running(M, t, Added(used, e.value), U, len)
<1> DEFINE s == used.start
           x == Added(used, e.value)
           P == SinceIn(L, U, s)
<1>1. SentIn(M, U) = SentIn(L, U) \cup {Len(L) + 1}
    BY SentMore
<1>2. \A i \in SentIn(L, U) : i \in DOMAIN L /\ M[i] = L[i]
    BY DEF SentIn, Extends
<1>3. M[Len(L) + 1] = e /\ e \in LimiterEvent
    BY DEF Extends
<1>4. used \in LimiterWindow /\ s <= t
    BY DEF Running
<1>5. e.value \in Nat
    BY <1>3 DEF LimiterEvent
<1>6. x \in LimiterWindow /\ x.value = used.value + e.value /\ x.count = used.count + 1
      /\ x.start = s
    BY <1>4, <1>5, AddedIs DEF LimiterWindow
<1> HIDE DEF x
<1>7. SinceIn(M, U, s) = P \cup {Len(L) + 1}
    <2>1. e.at >= s
        BY <1>4 DEF LimiterWindow
    <2> QED
        BY <1>1, <1>2, <1>3, <2>1 DEF SinceIn
<1>8. P \in SUBSET (DOMAIN L)
    BY <1>2 DEF SinceIn
<1>9. used.value = SumIn(L, P) /\ used.count = Cardinality(P)
    BY DEF Running, HoldsIn
<1> HIDE DEF P
<1>10. /\ SumIn(M, P \cup {Len(L) + 1}) = SumIn(L, P) + e.value
       /\ Cardinality(P \cup {Len(L) + 1}) = Cardinality(P) + 1
    BY <1>8, SumOneMore
<1>11. HoldsIn(M, x, SinceIn(M, U, x.start))
    BY <1>6, <1>7, <1>9, <1>10 DEF HoldsIn
<1>12. \A i \in SentIn(M, U) : M[i].at < x.start + len
    BY <1>1, <1>2, <1>3, <1>6 DEF Running
<1>13. x.start <= t
    BY <1>4, <1>6
<1>14. Running(M, t, x, U, len)
    BY <1>6, <1>11, <1>12, <1>13 DEF Running
<1> QED
    BY <1>14 DEF x

\* S gives every transfer the beginning of the window it was counted in: the
\* transfers of that window so far were within the limit of then, and one
\* from before the window was counted in one that was over when it began.
UpTo(L, u, j, s) == {i \in SentIn(L, {u}) : i <= j /\ L[i].at >= s}

Counted(s, L, u, w, start, len, j) ==
    /\ s \in Nat /\ s <= L[j].at /\ s <= start
    /\ L[j].at < start => s + len <= start
    /\ SumIn(L, UpTo(L, u, j, s)) <= L[j].limit[w]

SpacedBy(S, L, u, w, start, len) ==
    /\ \A j \in SentIn(L, {u}) : Counted(S[j], L, u, w, start, len, j)
    /\ \A k, j \in SentIn(L, {u}) : k < j /\ L[k].at < S[j] => S[k] + len <= S[j]

Spaced(L, u, w, start, len) == \E S : SpacedBy(S, L, u, w, start, len)

LEMMA EventTyped ==
    ASSUME NEW L \in Seq(LimiterEvent), NEW i \in DOMAIN L
    PROVE  L[i] \in LimiterEvent /\ L[i].at \in Nat /\ L[i].until \in Nat
           /\ i \in Int /\ \A w \in Window : L[i].limit[w] \in Nat
<1>1. L[i] \in LimiterEvent /\ i \in Int
    OBVIOUS
<1> QED
    BY <1>1 DEF LimiterEvent

\* The window begins again, at its end or later.
LEMMA SpacedStart ==
    ASSUME NEW L \in Seq(LimiterEvent), NEW u, NEW w, NEW start \in Nat, NEW new \in Nat,
           NEW len \in Nat, new = start \/ start + len <= new,
           Spaced(L, u, w, start, len)
    PROVE  Spaced(L, u, w, new, len)
<1>1. CASE new = start
    BY <1>1
<1>2. CASE start + len <= new
    <2>1. PICK S : SpacedBy(S, L, u, w, start, len)
        BY DEF Spaced
    <2>2. ASSUME NEW j \in SentIn(L, {u})
          PROVE  S[j] <= new /\ S[j] + len <= new
        <3>1. S[j] \in Nat /\ S[j] <= start
            BY <2>1 DEF SpacedBy, Counted
        <3> QED
            BY <1>2, <3>1
    <2>3. SpacedBy(S, L, u, w, new, len)
        BY <2>1, <2>2 DEF SpacedBy, Counted
    <2> QED
        BY <2>3 DEF Spaced
<1> QED
    BY <1>1, <1>2

Agree(R, S, D) == \A i \in D : R[i] = S[i]

\* What S says of the transfers the log had, it says of them in a longer log.
LEMMA SpacedOld ==
    ASSUME NEW M, NEW L, NEW e, Extends(M, L, e), NEW u, NEW w, NEW start \in Nat,
           NEW len \in Nat, NEW S, NEW R, SpacedBy(S, L, u, w, start, len),
           Agree(R, S, DOMAIN L), NEW j \in SentIn(L, {u})
    PROVE  Counted(R[j], M, u, w, start, len, j)
<1>1. j \in DOMAIN L /\ M[j] = L[j] /\ R[j] = S[j] /\ DOMAIN L = 1 .. Len(L) /\ Len(L) \in Nat
    BY DEF SentIn, Extends, Agree
<1>2. UpTo(M, u, j, R[j]) = UpTo(L, u, j, S[j])
    <2>1. SentIn(M, {u}) = SentIn(L, {u}) \/ SentIn(M, {u}) = SentIn(L, {u}) \cup {Len(L) + 1}
        BY SentKept, SentMore
    <2>2. \A i \in SentIn(L, {u}) : M[i] = L[i]
        BY DEF SentIn, Extends
    <2>3. ~ (Len(L) + 1 <= j)
        BY <1>1
    <2> QED
        BY <1>1, <2>1, <2>2, <2>3 DEF UpTo
<1>3. UpTo(L, u, j, S[j]) \in SUBSET (DOMAIN L)
    BY DEF UpTo, SentIn
<1>4. SumIn(M, UpTo(M, u, j, R[j])) = SumIn(L, UpTo(L, u, j, S[j]))
    BY <1>2, <1>3, SumKept
<1> QED
    BY <1>1, <1>4 DEF SpacedBy, Counted

LEMMA SpacedKept ==
    ASSUME NEW M, NEW L, NEW e, Extends(M, L, e), NEW u, NEW w, NEW start \in Nat,
           NEW len \in Nat, ~ (e.kind = "transfer" /\ e.user = u),
           Spaced(L, u, w, start, len)
    PROVE  Spaced(M, u, w, start, len)
<1>1. PICK S : SpacedBy(S, L, u, w, start, len)
    BY DEF Spaced
<1>2. SentIn(M, {u}) = SentIn(L, {u})
    BY SentKept
<1>3. \A i \in SentIn(L, {u}) : M[i] = L[i]
    BY DEF SentIn, Extends
<1>4. \A j \in SentIn(L, {u}) : Counted(S[j], M, u, w, start, len, j)
    <2>1. Agree(S, S, DOMAIN L)
        BY DEF Agree
    <2> QED
        BY <1>1, <2>1, SpacedOld
<1>5. SpacedBy(S, M, u, w, start, len)
    BY <1>1, <1>2, <1>3, <1>4 DEF SpacedBy
<1> QED
    BY <1>5 DEF Spaced

\* What a log and one event more have in common.
LEMMA ExtendsLength ==
    ASSUME NEW M, NEW L, NEW e, Extends(M, L, e)
    PROVE  /\ Len(L) \in Nat /\ Len(M) = Len(L) + 1
           /\ DOMAIN L = 1 .. Len(L) /\ DOMAIN M = 1 .. (Len(L) + 1)
           /\ M[Len(L) + 1] = e
           /\ \A i \in 1 .. Len(L) : M[i] = L[i]
<1>1. M \in Seq(LimiterEvent) /\ DOMAIN M = 1 .. (Len(L) + 1) /\ Len(L) + 1 \in Nat
    BY DEF Extends
<1>2. Len(M) \in Nat /\ DOMAIN M = 1 .. Len(M)
    BY <1>1
<1>3. Len(M) = Len(L) + 1
    BY <1>1, <1>2
<1> QED
    BY <1>3 DEF Extends

\* A transfer, counted in the window that began at start.
LEMMA SpacedMore ==
    ASSUME NEW M, NEW L, NEW e, Extends(M, L, e), NEW u, NEW w, NEW start \in Nat,
           NEW len \in Nat, e.kind = "transfer", e.user = u, start <= e.at,
           SumIn(M, SinceIn(M, {u}, start)) <= e.limit[w],
           Spaced(L, u, w, start, len)
    PROVE  Spaced(M, u, w, start, len)
<1> DEFINE y == Len(L) + 1
<1>1. PICK S : SpacedBy(S, L, u, w, start, len)
    BY DEF Spaced
<1> DEFINE R == [i \in DOMAIN M |-> IF i = y THEN start ELSE S[i]]
<1>2. SentIn(M, {u}) = SentIn(L, {u}) \cup {y}
    BY SentMore
<1>3. /\ M[y] = e /\ y \in DOMAIN M /\ e \in LimiterEvent /\ e.at \in Nat
      /\ \A i \in DOMAIN L : i \in DOMAIN M /\ i \in Int /\ i < y /\ M[i] = L[i]
    <2>1. e \in LimiterEvent
        BY DEF Extends
    <2>2. e.at \in Nat
        BY <2>1 DEF LimiterEvent
    <2>3. /\ Len(L) \in Nat /\ M[y] = e
          /\ DOMAIN L = 1 .. Len(L) /\ DOMAIN M = 1 .. (Len(L) + 1)
          /\ \A i \in 1 .. Len(L) : M[i] = L[i]
        BY ExtendsLength
    <2> QED
        BY <2>1, <2>2, <2>3
<1>4. \A i \in DOMAIN L : R[i] = S[i]
    BY <1>3
<1>5. R[y] = start
    BY <1>3
<1> HIDE DEF R, y
<1>6. \A j \in SentIn(L, {u}) : Counted(R[j], M, u, w, start, len, j)
    <2>1. Agree(R, S, DOMAIN L)
        BY <1>4 DEF Agree
    <2> QED
        BY <1>1, <2>1, SpacedOld
<1>7. UpTo(M, u, y, start) = SinceIn(M, {u}, start)
    <2>1. y \in Int
        BY DEF y, Extends
    <2>2. \A i \in SentIn(M, {u}) : i <= y
        BY <1>2, <1>3, <2>1 DEF SentIn
    <2> QED
        BY <2>2 DEF UpTo, SinceIn
<1>8. ~ (e.at < start)
    BY <1>3
<1>9. Counted(R[y], M, u, w, start, len, y)
    BY <1>3, <1>5, <1>7, <1>8 DEF Counted
<1>10. \A j \in SentIn(M, {u}) : Counted(R[j], M, u, w, start, len, j)
    BY <1>2, <1>6, <1>9
<1>11. ASSUME NEW k \in SentIn(M, {u}), NEW j \in SentIn(M, {u}), k < j, M[k].at < R[j]
      PROVE  R[k] + len <= R[j]
    <2>1. k # y
        <3> SUFFICES ASSUME k = y PROVE FALSE
            OBVIOUS
        <3>1. y \in Int
            BY DEF y, Extends
        <3>2. CASE j = y
            BY <1>11, <3>1, <3>2
        <3>3. CASE j \in SentIn(L, {u})
            <4>1. j \in Int /\ j < y
                BY <1>3, <3>3 DEF SentIn
            <4> QED
                BY <1>11, <3>1, <4>1
        <3> QED
            BY <1>2, <3>2, <3>3
    <2>2. k \in SentIn(L, {u}) /\ M[k] = L[k] /\ R[k] = S[k]
        BY <1>2, <1>3, <1>4, <2>1 DEF SentIn
    <2>3. CASE j = y
        BY <1>1, <1>5, <1>11, <2>2, <2>3 DEF SpacedBy, Counted
    <2>4. CASE j \in SentIn(L, {u})
        <3>1. R[j] = S[j]
            BY <1>4, <2>4 DEF SentIn
        <3> QED
            BY <1>1, <1>11, <2>2, <2>4, <3>1 DEF SpacedBy
    <2> QED
        BY <1>2, <2>3, <2>4
<1>12. SpacedBy(R, M, u, w, start, len)
    BY <1>10, <1>11 DEF SpacedBy
<1> QED
    BY <1>12 DEF Spaced

SpanIn(L, u, t, len) == {i \in SentIn(L, {u}) : L[i].at \in t .. (t + len - 1)}

\* In no span as long as a window more than twice the highest limit.
LEMMA SpanBounded ==
    ASSUME NEW L, NEW now0, PastIn(L, now0), NEW u, NEW w \in Window, NEW start,
           NEW len \in Nat \ {0}, Spaced(L, u, w, start, len), NEW t \in Nat,
           SpanIn(L, u, t, len) # {}
    PROVE  \E i \in SpanIn(L, u, t, len) :
               SumIn(L, SpanIn(L, u, t, len)) <= 2 * L[i].limit[w]
<1> DEFINE span == SpanIn(L, u, t, len)
<1>1. span = {i \in SentIn(L, {u}) : L[i].at \in t .. (t + len - 1)} /\ span # {}
    BY DEF SpanIn
<1> HIDE DEF span
<1> SUFFICES \E i \in span : SumIn(L, span) <= 2 * L[i].limit[w]
    BY DEF span
<1>2. PICK S : SpacedBy(S, L, u, w, start, len)
    BY DEF Spaced
<1>3. L \in Seq(LimiterEvent) /\ DOMAIN L = 1 .. Len(L) /\ Len(L) \in Nat
    BY DEF PastIn
<1>4. \A i \in DOMAIN L : L[i].at \in Nat /\ i \in Int /\ L[i].limit[w] \in Nat
    BY <1>3, EventTyped
<1>5. span \in SUBSET (1 .. Len(L)) /\ span \in SUBSET (DOMAIN L)
    BY <1>3, <1>1 DEF SentIn
<1>6. PICK j \in span : \A i \in span : i <= j
    BY <1>3, <1>5, <1>1, LastOf
<1> DEFINE A == {i \in span : L[i].at >= S[j]}
           B == {i \in span : ~ (L[i].at >= S[j])}
           a == SumIn(L, A)
           b == SumIn(L, B)
           p == L[j].limit[w]
<1>7. S[j] \in Nat /\ S[j] <= L[j].at /\ j \in SentIn(L, {u}) /\ j \in DOMAIN L
    BY <1>1, <1>2, <1>6 DEF SpacedBy, Counted, SentIn
<1>8. a <= p
    <2>1. A \in SUBSET UpTo(L, u, j, S[j])
        BY <1>6, <1>1 DEF UpTo
    <2>2. UpTo(L, u, j, S[j]) \in SUBSET (DOMAIN L)
        BY DEF UpTo, SentIn
    <2>3. /\ IsFiniteSet(UpTo(L, u, j, S[j]))
          /\ SumIn(L, UpTo(L, u, j, S[j])) \in Nat
          /\ \A i \in UpTo(L, u, j, S[j]) : AmountIn(L)[i] \in Nat
        BY <1>3, <2>2, SumInNat
    <2>4. a <= SumIn(L, UpTo(L, u, j, S[j]))
        BY <2>1, <2>3, SumMonotone DEF SumIn
    <2>5. SumIn(L, UpTo(L, u, j, S[j])) <= p
        BY <1>2, <1>7 DEF SpacedBy, Counted
    <2>6. a \in Nat /\ p \in Nat
        BY <1>3, <1>4, <1>5, <1>7, SumInNat
    <2> DEFINE c == SumIn(L, UpTo(L, u, j, S[j]))
    <2>7. c \in Nat
        BY <2>3
    <2>8. a <= c
        BY <2>4
    <2>9. c <= p
        BY <2>5
    <2> HIDE DEF a, p, c
    <2> QED
        BY <2>6, <2>7, <2>8, <2>9
<1>9. a \in Nat /\ b \in Nat /\ p \in Nat
    <2>1. A \in SUBSET (DOMAIN L) /\ B \in SUBSET (DOMAIN L)
        BY <1>5
    <2> QED
        BY <1>3, <1>4, <1>7, <2>1, SumInNat
<1>10. SumIn(L, span) = a + b
    <2>1. A \cap B = {} /\ A \cup B = span
        OBVIOUS
    <2>2. /\ IsFiniteSet(A) /\ IsFiniteSet(B)
          /\ \A i \in span : AmountIn(L)[i] \in Nat
        BY <1>3, <1>5, SumInNat
    <2>3. \A i \in A \cup B : AmountIn(L)[i] \in Int
        BY <2>1, <2>2
    <2> HIDE DEF A, B
    <2> QED
        BY <2>1, <2>2, <2>3, SumUnion DEF SumIn
<1>11. CASE B = {}
    <2>1. b = 0
        BY <1>11, SumEmpty DEF SumIn
    <2>2. SumIn(L, span) <= 2 * p
        <3> HIDE DEF a, b, p
        <3> QED
            BY <1>8, <1>9, <1>10, <2>1
    <2> QED
        BY <1>6, <2>2
<1>12. CASE B # {}
    <2>1. B \in SUBSET (1 .. Len(L))
        BY <1>5
    <2>2. PICK k \in B : \A i \in B : i <= k
        <3> HIDE DEF B
        <3> QED
            BY <1>3, <1>12, <2>1, LastOf
    <2> DEFINE q == L[k].limit[w]
    <2>3. k \in span /\ k \in SentIn(L, {u}) /\ k \in DOMAIN L /\ L[k].at \in Nat
          /\ k \in Int /\ j \in Int /\ q \in Nat /\ ~ (L[k].at >= S[j])
        BY <1>4, <1>5, <1>7, <1>1
    <2>4. k < j /\ L[k].at < S[j]
        <3>1. k <= j /\ k # j
            BY <1>6, <1>7, <2>3
        <3> QED
            BY <1>7, <2>3, <3>1
    <2>5. S[k] \in Nat /\ S[k] + len <= S[j]
        BY <1>2, <1>7, <2>3, <2>4 DEF SpacedBy, Counted
    <2>6. \A i \in span : L[i].at \in Nat /\ t <= L[i].at /\ L[i].at <= t + len - 1
        BY <1>4, <1>5, <1>1
    <2>7. S[k] < t
        BY <1>6, <1>7, <2>5, <2>6
    <2>8. \A i \in B : L[i].at >= S[k]
        BY <2>5, <2>6, <2>7
    <2>9. b <= q
        <3>1. B \in SUBSET UpTo(L, u, k, S[k])
            BY <1>1, <2>2, <2>8 DEF UpTo
        <3>2. UpTo(L, u, k, S[k]) \in SUBSET (DOMAIN L)
            BY DEF UpTo, SentIn
        <3>3. /\ IsFiniteSet(UpTo(L, u, k, S[k]))
              /\ SumIn(L, UpTo(L, u, k, S[k])) \in Nat
              /\ \A i \in UpTo(L, u, k, S[k]) : AmountIn(L)[i] \in Nat
            BY <1>3, <3>2, SumInNat
        <3>4. b <= SumIn(L, UpTo(L, u, k, S[k]))
            BY <3>1, <3>3, SumMonotone DEF SumIn
        <3>5. SumIn(L, UpTo(L, u, k, S[k])) <= q
            BY <1>2, <2>3 DEF SpacedBy, Counted
        <3> DEFINE c == SumIn(L, UpTo(L, u, k, S[k]))
        <3>6. c \in Nat
            BY <3>3
        <3>7. b <= c
            BY <3>4
        <3>8. c <= q
            BY <3>5
        <3>9. b \in Nat /\ q \in Nat
            BY <1>9, <2>3
        <3> HIDE DEF b, q, c
        <3> QED
            BY <3>6, <3>7, <3>8, <3>9
    <2>10. SumIn(L, span) <= 2 * p \/ SumIn(L, span) <= 2 * q
        <3> HIDE DEF a, b, p, q
        <3>1. a + b <= p + q
            BY <1>8, <1>9, <2>3, <2>9
        <3>2. a + b <= 2 * p \/ a + b <= 2 * q
            BY <1>9, <2>3, <3>1
        <3> QED
            BY <1>10, <3>2
    <2> QED
        BY <1>6, <2>3, <2>10
<1> QED
    BY <1>11, <1>12

\* Every cooldown that is not over or cleared is at most until.
Cooled(L, u, until) ==
    \A i \in DOMAIN L :
        L[i].kind = "breach" /\ L[i].user = u =>
            \/ L[i].until <= until
            \/ \E k \in i .. Len(L) : L[k].kind = "clear" /\ L[k].user = u

CooldownsIn(L) ==
    \A i, j \in DOMAIN L :
        /\ i < j /\ L[i].kind = "breach" /\ L[j].kind = "transfer"
        /\ L[i].user = L[j].user /\ L[j].at < L[i].until
        => \E k \in i .. j : L[k].kind = "clear" /\ L[k].user = L[i].user

LEMMA CooledKept ==
    ASSUME NEW M, NEW L, NEW e, Extends(M, L, e), NEW u, NEW until,
           ~ (e.kind = "breach" /\ e.user = u), Cooled(L, u, until)
    PROVE  Cooled(M, u, until)
<1> DEFINE n == Len(L)
<1>1. /\ n \in Nat /\ Len(M) = n + 1 /\ DOMAIN L = 1 .. n /\ DOMAIN M = 1 .. (n + 1)
      /\ M[n + 1] = e
      /\ \A i \in 1 .. n : M[i] = L[i]
    BY ExtendsLength
<1>2. SUFFICES ASSUME NEW i \in DOMAIN M, M[i].kind = "breach" /\ M[i].user = u,
                      ~ (M[i].until <= until)
               PROVE  \E k \in i .. Len(M) : M[k].kind = "clear" /\ M[k].user = u
    BY DEF Cooled
<1>3. i \in 1 .. n
    <2>1. i # n + 1
        BY <1>1, <1>2
    <2> QED
        BY <1>1, <2>1
<1>4. PICK k \in i .. n : L[k].kind = "clear" /\ L[k].user = u
    BY <1>1, <1>2, <1>3 DEF Cooled
<1>5. k \in 1 .. n /\ k \in i .. (n + 1)
    BY <1>1, <1>3, <1>4
<1> QED
    BY <1>1, <1>4, <1>5

LEMMA CooledBreach ==
    ASSUME NEW M, NEW L, NEW e, Extends(M, L, e), NEW u, NEW until \in Nat,
           until <= e.until, Cooled(L, u, until)
    PROVE  Cooled(M, u, e.until)
<1> DEFINE n == Len(L)
<1>1. /\ n \in Nat /\ Len(M) = n + 1 /\ DOMAIN L = 1 .. n /\ DOMAIN M = 1 .. (n + 1)
      /\ M[n + 1] = e
      /\ \A i \in 1 .. n : M[i] = L[i]
    BY ExtendsLength
<1>2. L \in Seq(LimiterEvent) /\ e.until \in Nat
    BY DEF Extends, LimiterEvent
<1>3. SUFFICES ASSUME NEW i \in DOMAIN M, M[i].kind = "breach" /\ M[i].user = u,
                      ~ (M[i].until <= e.until)
               PROVE  \E k \in i .. Len(M) : M[k].kind = "clear" /\ M[k].user = u
    BY DEF Cooled
<1>4. i \in 1 .. n
    <2>1. i # n + 1
        BY <1>1, <1>2, <1>3
    <2> QED
        BY <1>1, <2>1
<1>5. L[i].until \in Nat
    BY <1>1, <1>2, <1>4, EventTyped
<1>6. ~ (L[i].until <= until)
    BY <1>1, <1>2, <1>3, <1>4, <1>5
<1>7. PICK k \in i .. n : L[k].kind = "clear" /\ L[k].user = u
    BY <1>1, <1>3, <1>4, <1>6 DEF Cooled
<1>8. k \in 1 .. n /\ k \in i .. (n + 1)
    BY <1>1, <1>4, <1>7
<1> QED
    BY <1>1, <1>7, <1>8

LEMMA CooledClear ==
    ASSUME NEW M, NEW L, NEW e, Extends(M, L, e), NEW u, NEW until,
           e.kind = "clear" /\ e.user = u
    PROVE  Cooled(M, u, until)
<1>1. \A i \in DOMAIN M : Len(L) + 1 \in i .. Len(M)
    BY ExtendsLength
<1>2. M[Len(L) + 1] = e
    BY ExtendsLength
<1> QED
    BY <1>1, <1>2 DEF Cooled

\* A transfer when no cooldown is on.
LEMMA CooldownsMore ==
    ASSUME NEW M, NEW L, NEW e, Extends(M, L, e), CooldownsIn(L), NEW until \in Nat,
           e.kind = "transfer" => Cooled(L, e.user, until) /\ until <= e.at
    PROVE  CooldownsIn(M)
<1> DEFINE n == Len(L)
<1>1. /\ n \in Nat /\ Len(M) = n + 1 /\ DOMAIN L = 1 .. n /\ DOMAIN M = 1 .. (n + 1)
      /\ M[n + 1] = e
      /\ \A i \in 1 .. n : M[i] = L[i]
    BY ExtendsLength
<1>2. L \in Seq(LimiterEvent) /\ e.at \in Nat
    BY DEF Extends, LimiterEvent
<1>3. SUFFICES ASSUME NEW i \in DOMAIN M, NEW j \in DOMAIN M,
                      i < j, M[i].kind = "breach", M[j].kind = "transfer",
                      M[i].user = M[j].user, M[j].at < M[i].until
               PROVE  \E k \in i .. j : M[k].kind = "clear" /\ M[k].user = M[i].user
    BY DEF CooldownsIn
<1>4. i \in 1 .. n /\ M[i] = L[i]
    BY <1>1, <1>3
<1>5. CASE j \in 1 .. n
    <2>1. M[j] = L[j]
        BY <1>1, <1>5
    <2>2. PICK k \in i .. j : L[k].kind = "clear" /\ L[k].user = L[i].user
        BY <1>1, <1>3, <1>4, <1>5, <2>1 DEF CooldownsIn
    <2>3. M[k] = L[k]
        BY <1>1, <1>4, <1>5
    <2> QED
        BY <1>4, <2>2, <2>3
<1>6. CASE j = n + 1
    <2>1. M[j] = e
        BY <1>1, <1>6
    <2>2. Cooled(L, e.user, until) /\ until <= e.at
        BY <1>3, <2>1
    <2>3. L[i].until \in Nat
        BY <1>1, <1>2, <1>4, EventTyped
    <2>4. ~ (L[i].until <= until)
        BY <1>2, <1>3, <1>4, <2>1, <2>2, <2>3
    <2>5. PICK k \in i .. n : L[k].kind = "clear" /\ L[k].user = e.user
        BY <1>1, <1>3, <1>4, <2>1, <2>2, <2>4 DEF Cooled
    <2>6. M[k] = L[k] /\ k \in i .. j
        BY <1>1, <1>4, <1>6
    <2> QED
        BY <1>3, <2>1, <2>5, <2>6
<1> QED
    BY <1>1, <1>5, <1>6

\* A user's history: days in their order with what was transferred on each,
\* and no transfer after the last of them.
DayEntry == [day : Nat, value : Nat, count : Nat]

DaysRight(L, t, h, U, len) ==
    /\ h \in Seq(DayEntry)
    /\ \A i \in DOMAIN h :
          HoldsIn(L, h[i], DayIn(L, U, len, h[i].day)) /\ h[i].day <= t \div len
    /\ \A i, j \in DOMAIN h : i < j => h[i].day < h[j].day

DaysLast(L, h, U, len) ==
    \A k \in SentIn(L, U) : h # <<>> /\ L[k].at \div len <= h[Len(h)].day

DaysHeld(L, t, h, U, len) == DaysRight(L, t, h, U, len) /\ DaysLast(L, h, U, len)

LEMMA QuotientMonotone ==
    ASSUME NEW a \in Nat, NEW c \in Nat, a <= c, NEW b \in Nat \ {0}
    PROVE  a \div b \in Nat /\ c \div b \in Nat /\ a \div b <= c \div b
OBVIOUS

LEMMA DaysLater ==
    ASSUME NEW L, NEW t \in Nat, NEW s \in Nat, t <= s, NEW h, NEW U, NEW len \in Nat \ {0},
           DaysHeld(L, t, h, U, len)
    PROVE  DaysHeld(L, s, h, U, len)
<1> DEFINE q == t \div len
           r == s \div len
<1>1. q \in Nat /\ r \in Nat /\ q <= r
    BY QuotientMonotone
<1>2. h \in Seq(DayEntry) /\ \A i \in DOMAIN h : h[i].day <= q
    BY DEF DaysHeld, DaysRight
<1> HIDE DEF q, r
<1>3. \A i \in DOMAIN h : h[i].day <= r
    <2> SUFFICES ASSUME NEW i \in DOMAIN h PROVE h[i].day <= r
        OBVIOUS
    <2>1. h[i] \in DayEntry
        BY <1>2
    <2>2. h[i].day \in Nat
        BY <2>1 DEF DayEntry
    <2> QED
        BY <1>1, <1>2, <2>2
<1> QED
    BY <1>3 DEF r, DaysHeld, DaysRight

LEMMA DaysKept ==
    ASSUME NEW M, NEW L, NEW e, Extends(M, L, e), NEW U, NEW t, NEW h, NEW len,
           ~ (e.kind = "transfer" /\ e.user \in U), DaysHeld(L, t, h, U, len)
    PROVE  DaysHeld(M, t, h, U, len)
<1>1. SentIn(M, U) = SentIn(L, U)
    BY SentKept
<1>2. \A i \in SentIn(L, U) : i \in DOMAIN L /\ M[i] = L[i]
    BY DEF SentIn, Extends
<1>3. ASSUME NEW d
      PROVE  DayIn(M, U, len, d) = DayIn(L, U, len, d)
             /\ SumIn(M, DayIn(L, U, len, d)) = SumIn(L, DayIn(L, U, len, d))
    <2>1. DayIn(L, U, len, d) \in SUBSET (DOMAIN L)
        BY <1>2 DEF DayIn
    <2>2. SumIn(M, DayIn(L, U, len, d)) = SumIn(L, DayIn(L, U, len, d))
        BY <2>1, SumKept
    <2> QED
        BY <1>1, <1>2, <2>2 DEF DayIn
<1>4. \A i \in DOMAIN h : HoldsIn(M, h[i], DayIn(M, U, len, h[i].day))
    BY <1>3 DEF HoldsIn, DaysHeld, DaysRight
<1>5. DaysLast(M, h, U, len)
    BY <1>1, <1>2 DEF DaysHeld, DaysLast
<1> QED
    BY <1>4, <1>5 DEF DaysHeld, DaysRight

\* The history less its first day.
LEMMA DaysTail ==
    ASSUME NEW L, NEW t, NEW h, NEW U, NEW len, DaysRight(L, t, h, U, len), h # <<>>
    PROVE  DaysRight(L, t, Tail(h), U, len)
<1>1. h \in Seq(DayEntry) /\ Len(h) \in Nat \ {0} /\ DOMAIN h = 1 .. Len(h)
    BY DEF DaysRight
<1>2. /\ Tail(h) \in Seq(DayEntry) /\ DOMAIN Tail(h) = 1 .. (Len(h) - 1)
      /\ \A i \in 1 .. (Len(h) - 1) : Tail(h)[i] = h[i + 1]
    BY <1>1
<1> DEFINE g == Tail(h)
<1> HIDE DEF g
<1>3. \A i \in DOMAIN g : i \in Int /\ i + 1 \in DOMAIN h /\ g[i] = h[i + 1]
    BY <1>1, <1>2 DEF g
<1>4. ASSUME NEW i \in DOMAIN g
      PROVE  HoldsIn(L, g[i], DayIn(L, U, len, g[i].day)) /\ g[i].day <= t \div len
    <2>1. HoldsIn(L, h[i + 1], DayIn(L, U, len, h[i + 1].day)) /\ h[i + 1].day <= t \div len
        BY <1>3 DEF DaysRight
    <2>2. g[i] = h[i + 1]
        BY <1>3
    <2> QED
        BY <2>1, <2>2
<1>5. ASSUME NEW i \in DOMAIN g, NEW j \in DOMAIN g, i < j
      PROVE  g[i].day < g[j].day
    <2>1. i + 1 < j + 1 /\ i + 1 \in DOMAIN h /\ j + 1 \in DOMAIN h
        BY <1>3, <1>5
    <2>2. h[i + 1].day < h[j + 1].day
        BY <2>1 DEF DaysRight
    <2> QED
        BY <1>3, <2>2
<1>6. DaysRight(L, t, g, U, len)
    BY <1>2, <1>4, <1>5 DEF DaysRight, g
<1> QED
    BY <1>6 DEF g

\* A transfer of today: on the other days there are the transfers there were.
LEMMA OtherDays ==
    ASSUME NEW M, NEW L, NEW e, Extends(M, L, e), NEW U, NEW len, NEW used, NEW d,
           e.kind = "transfer", e.user \in U, e.at \div len # d,
           HoldsIn(L, used, DayIn(L, U, len, d))
    PROVE  HoldsIn(M, used, DayIn(M, U, len, d))
<1>1. SentIn(M, U) = SentIn(L, U) \cup {Len(L) + 1} /\ M[Len(L) + 1] = e
    BY SentMore, ExtendsLength
<1>2. \A i \in SentIn(L, U) : i \in DOMAIN L /\ M[i] = L[i]
    BY DEF SentIn, Extends
<1>3. DayIn(M, U, len, d) = DayIn(L, U, len, d) /\ DayIn(L, U, len, d) \in SUBSET (DOMAIN L)
    BY <1>1, <1>2 DEF DayIn
<1>4. SumIn(M, DayIn(L, U, len, d)) = SumIn(L, DayIn(L, U, len, d))
    BY <1>3, SumKept
<1> QED
    BY <1>3, <1>4 DEF HoldsIn

LEMMA ThisDay ==
    ASSUME NEW M, NEW L, NEW e, Extends(M, L, e), NEW U, NEW len, NEW used, NEW new,
           e.kind = "transfer", e.user \in U,
           HoldsIn(L, used, DayIn(L, U, len, e.at \div len)),
           new.value = used.value + e.value, new.count = used.count + 1
    PROVE  HoldsIn(M, new, DayIn(M, U, len, e.at \div len))
<1> DEFINE P == DayIn(L, U, len, e.at \div len)
<1>1. SentIn(M, U) = SentIn(L, U) \cup {Len(L) + 1} /\ M[Len(L) + 1] = e
    BY SentMore, ExtendsLength
<1>2. \A i \in SentIn(L, U) : i \in DOMAIN L /\ M[i] = L[i]
    BY DEF SentIn, Extends
<1>3. DayIn(M, U, len, e.at \div len) = P \cup {Len(L) + 1}
    BY <1>1, <1>2 DEF DayIn
<1>4. P \in SUBSET (DOMAIN L)
    BY <1>2 DEF DayIn
<1> HIDE DEF P
<1>5. /\ SumIn(M, P \cup {Len(L) + 1}) = SumIn(L, P) + e.value
      /\ Cardinality(P \cup {Len(L) + 1}) = Cardinality(P) + 1
    BY <1>4, SumOneMore
<1>6. used.value = SumIn(L, P) /\ used.count = Cardinality(P)
    BY DEF HoldsIn, P
<1> QED
    BY <1>3, <1>5, <1>6 DEF HoldsIn

\* The history with a transfer of n on a day, as Recorded has it.
Entered(h, day, n) ==
    IF h # <<>> /\ h[Len(h)].day = day
    THEN [h EXCEPT ![Len(h)].value = @ + n, ![Len(h)].count = @ + 1]
    ELSE Append(IF Len(h) >= MaxDays THEN Tail(h) ELSE h,
                [day |-> day, value |-> n, count |-> 1])

LEMMA EntryMore ==
    ASSUME NEW x \in DayEntry, NEW n \in Nat
    PROVE  /\ [x EXCEPT !.value = @ + n] \in DayEntry
           /\ [x EXCEPT !.value = @ + n].day = x.day
           /\ [x EXCEPT !.value = @ + n].value = x.value + n
           /\ [x EXCEPT !.value = @ + n].count = x.count
           /\ [x EXCEPT !.count = @ + 1] \in DayEntry
           /\ [x EXCEPT !.count = @ + 1].day = x.day
           /\ [x EXCEPT !.count = @ + 1].value = x.value
           /\ [x EXCEPT !.count = @ + 1].count = x.count + 1
BY DEF DayEntry

LEMMA EnteredLast ==
    ASSUME NEW h \in Seq(DayEntry), h # <<>>, NEW n \in Nat, NEW day,
           h[Len(h)].day = day
    PROVE  LET g == Entered(h, day, n) IN
           /\ g \in Seq(DayEntry) /\ DOMAIN g = DOMAIN h /\ Len(g) = Len(h)
           /\ g[Len(h)].day = day
           /\ g[Len(h)].value = h[Len(h)].value + n
           /\ g[Len(h)].count = h[Len(h)].count + 1
           /\ \A i \in DOMAIN h : i # Len(h) => g[i] = h[i]
<1> DEFINE l == Len(h)
           y == [h EXCEPT ![l].value = @ + n]
           g == [y EXCEPT ![l].count = @ + 1]
<1>1. l \in DOMAIN h /\ l \in Nat /\ DOMAIN h = 1 .. l
    OBVIOUS
<1>2. h[l] \in DayEntry
    BY <1>1
<1> DEFINE a == [h[l] EXCEPT !.value = @ + n]
<1>3. a \in DayEntry /\ a.day = h[l].day /\ a.value = h[l].value + n
      /\ a.count = h[l].count
    BY <1>2, EntryMore
<1>4. y = [h EXCEPT ![l] = a]
    BY <1>1
<1> HIDE DEF a, l
<1>5. /\ y \in Seq(DayEntry) /\ DOMAIN y = DOMAIN h /\ y[l] = a /\ Len(y) = Len(h)
      /\ \A i \in DOMAIN h : i # l => y[i] = h[i]
    <2>1. y = [i \in DOMAIN h |-> IF i = l THEN a ELSE h[i]]
        BY <1>1, <1>4
    <2>2. DOMAIN y = 1 .. l /\ \A i \in DOMAIN y : y[i] \in DayEntry
        BY <1>1, <1>3, <2>1
    <2> HIDE DEF y
    <2>3. y \in Seq(DayEntry) /\ Len(y) = l
        BY <1>1, <2>1, <2>2
    <2> QED
        BY <1>1, <2>1, <2>3 DEF l
<1> HIDE DEF y
<1> DEFINE b == [a EXCEPT !.count = @ + 1]
<1>6. b \in DayEntry /\ b.day = a.day /\ b.value = a.value /\ b.count = a.count + 1
    BY <1>3, EntryMore
<1>7. g = [y EXCEPT ![l] = b]
    BY <1>1, <1>5
<1> HIDE DEF b
<1>8. /\ g \in Seq(DayEntry) /\ DOMAIN g = DOMAIN h /\ g[l] = b /\ Len(g) = Len(h)
      /\ \A i \in DOMAIN h : i # l => g[i] = h[i]
    <2>1. g = [i \in DOMAIN h |-> IF i = l THEN b ELSE y[i]]
        BY <1>1, <1>5, <1>7
    <2>2. DOMAIN g = 1 .. l /\ \A i \in DOMAIN g : g[i] \in DayEntry
        BY <1>1, <1>5, <1>6, <2>1
    <2> HIDE DEF g
    <2>3. g \in Seq(DayEntry) /\ Len(g) = l
        BY <1>1, <2>1, <2>2
    <2> QED
        BY <1>1, <1>5, <2>1, <2>3 DEF l
<1>9. Entered(h, day, n) = g
    BY DEF Entered, g, y, l
<1> QED
    BY <1>3, <1>6, <1>8, <1>9 DEF l

\* A new day at the end of a history.
LEMMA DaysAppend ==
    ASSUME NEW M, NEW L, NEW e, Extends(M, L, e), NEW t \in Nat, NEW U,
           NEW len \in Nat \ {0}, PastIn(L, t),
           e.kind = "transfer", e.user \in U, e.at = t, NEW g,
           DaysRight(L, t, g, U, len), \A i \in DOMAIN g : g[i].day < t \div len,
           DayIn(L, U, len, t \div len) = {}
    PROVE  DaysHeld(M, t, Append(g, [day |-> t \div len, value |-> e.value, count |-> 1]),
                    U, len)
<1> DEFINE d == t \div len
           x == [day |-> d, value |-> e.value, count |-> 1]
           none == [day |-> d, value |-> 0, count |-> 0]
           f == Append(g, x)
           n == Len(g)
<1>1. d \in Nat /\ \A i \in DOMAIN L : L[i].at \in Nat /\ L[i].at <= t
    <2>1. d \in Nat
        BY QuotientMonotone
    <2>2. ASSUME NEW i \in DOMAIN L PROVE L[i].at \in Nat /\ L[i].at <= t
        <3>1. L \in Seq(LimiterEvent) /\ L[i].at <= t
            BY DEF PastIn
        <3> QED
            BY <3>1, EventTyped
    <2> QED
        BY <2>1, <2>2
<1>2. x \in DayEntry /\ x.day = d /\ x.value = e.value /\ x.count = 1
      /\ none.day = d /\ none.value = 0 /\ none.count = 0 /\ e.value \in Nat
    <2>1. e.value \in Nat
        BY DEF Extends, LimiterEvent
    <2> QED
        BY <1>1, <2>1 DEF DayEntry
<1>3. HoldsIn(M, x, DayIn(M, U, len, d))
    <2>1. SumIn(L, {}) = 0 /\ Cardinality({}) = 0
        BY SumEmpty, FS_EmptySet DEF SumIn
    <2>2. DayIn(L, U, len, e.at \div len) = {}
        OBVIOUS
    <2> HIDE DEF x, none
    <2>3. HoldsIn(L, none, DayIn(L, U, len, e.at \div len))
        BY <1>2, <2>1, <2>2 DEF HoldsIn
    <2>4. x.value = none.value + e.value /\ x.count = none.count + 1
        BY <1>2
    <2>5. HoldsIn(M, x, DayIn(M, U, len, e.at \div len))
        BY <2>3, <2>4, ThisDay
    <2> QED
        BY <2>5
<1>4. g \in Seq(DayEntry) /\ n \in Nat /\ DOMAIN g = 1 .. n
    BY DEF DaysRight
<1>5. /\ f \in Seq(DayEntry) /\ Len(f) = n + 1 /\ DOMAIN f = 1 .. (n + 1) /\ f[n + 1] = x
      /\ \A i \in 1 .. n : f[i] = g[i]
    <2> HIDE DEF x
    <2> QED
        BY <1>2, <1>4
<1> HIDE DEF x, f, n
<1>6. ASSUME NEW i \in DOMAIN f
      PROVE  HoldsIn(M, f[i], DayIn(M, U, len, f[i].day)) /\ f[i].day <= d
    <2>1. CASE i = n + 1
        BY <1>1, <1>2, <1>3, <1>5, <2>1
    <2>2. CASE i \in DOMAIN g
        <3>1. f[i] = g[i] /\ g[i] \in DayEntry /\ g[i].day < d
            BY <1>4, <1>5, <2>2
        <3>2. g[i].day \in Nat
            BY <3>1 DEF DayEntry
        <3>3. HoldsIn(L, g[i], DayIn(L, U, len, g[i].day))
            BY <2>2 DEF DaysRight
        <3>4. e.at \div len # g[i].day
            <4>1. e.at \div len = d
                OBVIOUS
            <4> HIDE DEF d
            <4> QED
                BY <1>1, <3>1, <3>2, <4>1
        <3>5. HoldsIn(M, g[i], DayIn(M, U, len, g[i].day))
            BY <3>3, <3>4, OtherDays
        <3> HIDE DEF d
        <3>6. g[i].day <= d
            BY <1>1, <3>1, <3>2
        <3> QED
            BY <3>1, <3>5, <3>6
    <2> QED
        BY <1>4, <1>5, <2>1, <2>2
<1>7. ASSUME NEW i \in DOMAIN f, NEW j \in DOMAIN f, i < j
      PROVE  f[i].day < f[j].day
    <2>1. i \in DOMAIN g /\ i \in Int
        BY <1>4, <1>5, <1>7
    <2>2. CASE j = n + 1
        BY <1>2, <1>4, <1>5, <2>1, <2>2
    <2>3. CASE j \in DOMAIN g
        <3>1. f[i] = g[i] /\ f[j] = g[j]
            BY <1>4, <1>5, <2>1, <2>3
        <3> QED
            BY <1>7, <2>1, <2>3, <3>1 DEF DaysRight
    <2> QED
        BY <1>4, <1>5, <2>2, <2>3
<1>8. ASSUME NEW k \in SentIn(M, U)
      PROVE  f # <<>> /\ M[k].at \div len <= f[Len(f)].day
    <2>1. f # <<>> /\ f[Len(f)].day = d
        BY <1>2, <1>4, <1>5
    <2>2. M[k].at \in Nat /\ M[k].at <= t
        <3>1. SentIn(M, U) = SentIn(L, U) \cup {Len(L) + 1} /\ M[Len(L) + 1] = e
            BY SentMore, ExtendsLength
        <3>2. \A i \in SentIn(L, U) : i \in DOMAIN L /\ M[i] = L[i]
            BY DEF SentIn, Extends
        <3> QED
            BY <1>1, <3>1, <3>2
    <2>3. M[k].at \div len <= d
        BY <2>2, QuotientMonotone
    <2> QED
        BY <2>1, <2>3
<1>9. DaysRight(M, t, f, U, len)
    BY <1>5, <1>6, <1>7 DEF DaysRight
<1>10. DaysLast(M, f, U, len)
    BY <1>8 DEF DaysLast
<1> QED
    BY <1>9, <1>10 DEF DaysHeld, f, x

\* A transfer entered in the history.
LEMMA DaysMore ==
    ASSUME NEW M, NEW L, NEW e, Extends(M, L, e), NEW t \in Nat, NEW U,
           NEW len \in Nat \ {0}, PastIn(L, t),
           e.kind = "transfer", e.user \in U, e.at = t, NEW h,
           DaysHeld(L, t, h, U, len), MaxDays \in Nat \ {0}
    PROVE  DaysHeld(M, t, Entered(h, t \div len, e.value), U, len)
<1> DEFINE d == t \div len
           l == Len(h)
<1>1. d \in Nat /\ e.value \in Nat /\ e.at \div len = d
    <2>1. d \in Nat
        BY QuotientMonotone
    <2>2. e.value \in Nat
        BY DEF Extends, LimiterEvent
    <2> QED
        BY <2>1, <2>2
<1>2. h \in Seq(DayEntry) /\ l \in Nat /\ DOMAIN h = 1 .. l
    BY DEF DaysHeld, DaysRight
<1>3. ASSUME NEW i \in DOMAIN h
      PROVE  /\ h[i].day \in Nat /\ h[i].day <= d
             /\ HoldsIn(L, h[i], DayIn(L, U, len, h[i].day))
    <2>1. h[i] \in DayEntry
        BY <1>2
    <2> QED
        BY <2>1 DEF DaysHeld, DaysRight, DayEntry
<1>4. CASE h # <<>> /\ h[l].day = d
    <2> DEFINE g == Entered(h, d, e.value)
    <2>0. l \in DOMAIN h
        BY <1>2, <1>4
    <2>1. /\ g \in Seq(DayEntry) /\ DOMAIN g = DOMAIN h /\ Len(g) = l
          /\ g[l].day = d /\ g[l].value = h[l].value + e.value
          /\ g[l].count = h[l].count + 1
          /\ \A i \in DOMAIN h : i # l => g[i] = h[i]
        BY <1>1, <1>2, <1>4, EnteredLast
    <2> HIDE DEF g
    <2>2. \A i \in DOMAIN h : g[i].day = h[i].day
        BY <1>4, <2>1
    <2>3. ASSUME NEW i \in DOMAIN g
          PROVE  HoldsIn(M, g[i], DayIn(M, U, len, g[i].day)) /\ g[i].day <= d
        <3>1. CASE i = l
            <4>1. HoldsIn(L, h[l], DayIn(L, U, len, e.at \div len))
                BY <1>1, <1>3, <1>4, <2>0
            <4>2. HoldsIn(M, g[l], DayIn(M, U, len, e.at \div len))
                BY <2>1, <4>1, ThisDay
            <4>3. d <= d
                <5> HIDE DEF d
                <5> QED
                    BY <1>1
            <4> QED
                BY <1>1, <2>1, <3>1, <4>2, <4>3
        <3>2. CASE i # l
            <4>1. g[i] = h[i] /\ i \in DOMAIN h
                BY <2>1, <3>2
            <4>2. h[i].day < h[l].day
                BY <1>2, <2>0, <3>2, <4>1 DEF DaysHeld, DaysRight
            <4>3. e.at \div len # h[i].day
                <5> HIDE DEF d
                <5> QED
                    BY <1>1, <1>3, <1>4, <4>1, <4>2
            <4>4. HoldsIn(M, h[i], DayIn(M, U, len, h[i].day))
                BY <1>3, <4>1, <4>3, OtherDays
            <4> QED
                BY <1>3, <4>1, <4>4
        <3> QED
            BY <3>1, <3>2
    <2>4. \A i, j \in DOMAIN g : i < j => g[i].day < g[j].day
        BY <2>1, <2>2 DEF DaysHeld, DaysRight
    <2>5. ASSUME NEW k \in SentIn(M, U)
          PROVE  g # <<>> /\ M[k].at \div len <= g[Len(g)].day
        <3>1. g # <<>> /\ g[Len(g)].day = d
            BY <2>0, <2>1
        <3>2. M[k].at \in Nat /\ M[k].at <= t
            <4>1. SentIn(M, U) = SentIn(L, U) \cup {Len(L) + 1} /\ M[Len(L) + 1] = e
                BY SentMore, ExtendsLength
            <4>2. \A i \in SentIn(L, U) : i \in DOMAIN L /\ M[i] = L[i]
                BY DEF SentIn, Extends
            <4>3. \A i \in SentIn(L, U) : L[i].at \in Nat /\ L[i].at <= t
                BY <4>2, EventTyped DEF PastIn
            <4> QED
                BY <4>1, <4>2, <4>3
        <3>3. M[k].at \div len <= d
            BY <3>2, QuotientMonotone
        <3> QED
            BY <3>1, <3>3
    <2>6. DaysRight(M, t, g, U, len)
        BY <2>1, <2>3, <2>4 DEF DaysRight
    <2>7. DaysLast(M, g, U, len)
        BY <2>5 DEF DaysLast
    <2> QED
        BY <2>6, <2>7 DEF DaysHeld, g
<1>5. CASE ~ (h # <<>> /\ h[l].day = d)
    <2> DEFINE g == IF l >= MaxDays THEN Tail(h) ELSE h
    <2>1. Entered(h, d, e.value)
            = Append(g, [day |-> t \div len, value |-> e.value, count |-> 1])
        BY <1>5 DEF Entered
    <2>2. \A i \in DOMAIN h : h[i].day < d
        <3> SUFFICES ASSUME NEW i \in DOMAIN h PROVE h[i].day < d
            OBVIOUS
        <3>1. l \in DOMAIN h /\ h # <<>> /\ h[l].day # d
            BY <1>2, <1>5
        <3>2. h[l].day < d
            <4> HIDE DEF d
            <4> QED
                BY <1>1, <1>3, <3>1
        <3>3. i = l \/ h[i].day < h[l].day
            BY <1>2, <3>1 DEF DaysHeld, DaysRight
        <3> HIDE DEF d
        <3> QED
            BY <1>1, <1>3, <3>1, <3>2, <3>3
    <2>3. DaysRight(L, t, g, U, len) /\ \A i \in DOMAIN g : g[i].day < d
        <3>1. CASE l >= MaxDays
            <4>1. h # <<>>
                BY <1>2, <3>1
            <4>2. DaysRight(L, t, Tail(h), U, len)
                BY <4>1, DaysTail DEF DaysHeld
            <4>3. \A i \in DOMAIN Tail(h) : i + 1 \in DOMAIN h /\ Tail(h)[i] = h[i + 1]
                BY <1>2, <4>1
            <4> QED
                BY <2>2, <3>1, <4>2, <4>3
        <3>2. CASE ~ (l >= MaxDays)
            BY <2>2, <3>2 DEF DaysHeld
        <3> QED
            BY <3>1, <3>2
    <2>4. DayIn(L, U, len, d) = {}
        <3> SUFFICES ASSUME NEW k \in SentIn(L, U), L[k].at \div len = d PROVE FALSE
            BY DEF DayIn
        <3>1. h # <<>> /\ L[k].at \div len <= h[l].day
            BY DEF DaysHeld, DaysLast
        <3>2. l \in DOMAIN h
            BY <1>2, <3>1
        <3>3. h[l].day < d /\ h[l].day \in Nat /\ d <= h[l].day
            BY <1>3, <2>2, <3>1, <3>2
        <3> HIDE DEF d
        <3> QED
            BY <1>1, <3>3
    <2> HIDE DEF g
    <2>5. DaysHeld(M, t, Append(g, [day |-> t \div len, value |-> e.value, count |-> 1]),
                   U, len)
        BY <2>3, <2>4, DaysAppend
    <2> QED
        BY <2>1, <2>5
<1> QED
    BY <1>4, <1>5

\* A user's stored usage: windows that run, and whose limits were kept; the
\* cooldown is not below one that is due; without it nothing was transferred.
UserUsage == [windows : [Window -> LimiterWindow], until : Nat, first : Nat]

Active(L, t, u, windows) ==
    \A w \in Window :
        /\ Running(L, t, windows[w], {u}, Length[w])
        /\ Spaced(L, u, w, windows[w].start, Length[w])

UsageHolds(L, t, u, use) ==
    /\ use \in UserUsage \cup {NoUsage} /\ use.until \in Nat /\ use.first \in Nat
    /\ use.first <= t
    /\ use = NoUsage => SentIn(L, {u}) = {}
    /\ use # NoUsage => Active(L, t, u, use.windows)
    /\ Cooled(L, u, use.until)

\* get_or_init_usage and the windows as they decay
Started(use, t) ==
    IF use # NoUsage THEN use
    ELSE [windows |-> [w \in Window |-> [value |-> 0, count |-> 0, start |-> t]],
          until |-> 0, first |-> t]

DecayedAll(windows, t) == [w \in Window |-> Decaying(windows[w], t, Length[w])]

LEMMA LengthPositive == ASSUME NEW w \in Window PROVE Length[w] \in Nat \ {0}
BY LimiterAssumption

LEMMA UserUsageStored ==
    ASSUME NEW use \in UserUsage
    PROVE  use # NoUsage /\ use.until \in Nat /\ use.first \in Nat
           /\ use.windows \in [Window -> LimiterWindow]
BY DEF UserUsage, NoUsage, Window

LEMMA SpacedEmpty ==
    ASSUME NEW L, NEW u, NEW w, NEW start, NEW len, SentIn(L, {u}) = {}
    PROVE  Spaced(L, u, w, start, len)
<1>1. SpacedBy({}, L, u, w, start, len)
    BY DEF SpacedBy
<1> QED
    BY <1>1 DEF Spaced

LEMMA RunningTyped ==
    ASSUME NEW L, NEW t, NEW used, NEW U, NEW len, Running(L, t, used, U, len)
    PROVE  used \in LimiterWindow /\ used.start \in Nat /\ used.value \in Nat
           /\ used.count \in Nat /\ used.start <= t
BY DEF Running, LimiterWindow

LEMMA UsageLater ==
    ASSUME NEW L, NEW t \in Nat, NEW s \in Nat, t <= s, NEW u, NEW use,
           UsageHolds(L, t, u, use)
    PROVE  UsageHolds(L, s, u, use)
<1>1. use.first <= s
    BY DEF UsageHolds
<1>2. ASSUME use # NoUsage, NEW w \in Window
      PROVE  Running(L, s, use.windows[w], {u}, Length[w])
             /\ Spaced(L, u, w, use.windows[w].start, Length[w])
    <2>1. Running(L, t, use.windows[w], {u}, Length[w])
          /\ Spaced(L, u, w, use.windows[w].start, Length[w])
        BY <1>2 DEF UsageHolds, Active
    <2> QED
        BY <2>1, RunningLater
<1>3. use # NoUsage => Active(L, s, u, use.windows)
    BY <1>2 DEF Active
<1> QED
    BY <1>1, <1>3 DEF UsageHolds

\* Another user's event.
LEMMA UsageOther ==
    ASSUME NEW M, NEW L, NEW e, Extends(M, L, e), NEW t, NEW u, NEW use,
           e.user # u, UsageHolds(L, t, u, use)
    PROVE  UsageHolds(M, t, u, use)
<1>1. ~ (e.kind = "transfer" /\ e.user \in {u}) /\ ~ (e.kind = "transfer" /\ e.user = u)
      /\ ~ (e.kind = "breach" /\ e.user = u)
    OBVIOUS
<1>2. SentIn(M, {u}) = SentIn(L, {u})
    BY <1>1, SentKept
<1>3. Cooled(M, u, use.until)
    BY <1>1, CooledKept DEF UsageHolds
<1>4. ASSUME use # NoUsage, NEW w \in Window
      PROVE  Running(M, t, use.windows[w], {u}, Length[w])
             /\ Spaced(M, u, w, use.windows[w].start, Length[w])
    <2>1. Running(L, t, use.windows[w], {u}, Length[w])
          /\ Spaced(L, u, w, use.windows[w].start, Length[w])
        BY <1>4 DEF UsageHolds, Active
    <2>2. Running(M, t, use.windows[w], {u}, Length[w])
        BY <1>1, <2>1, RunningKept
    <2>3. use.windows[w].start \in Nat /\ Length[w] \in Nat
        BY <2>1, RunningTyped, LengthPositive
    <2> QED
        BY <1>1, <2>1, <2>2, <2>3, SpacedKept
<1>5. use # NoUsage => Active(M, t, u, use.windows)
    BY <1>4 DEF Active
<1> QED
    BY <1>2, <1>3, <1>5 DEF UsageHolds

\* The usage a call starts from, and its windows as they decay.
LEMMA StartedActive ==
    ASSUME NEW L, NEW t \in Nat, PastIn(L, t), NEW u, NEW use, UsageHolds(L, t, u, use)
    PROVE  /\ Started(use, t) \in UserUsage
           /\ Started(use, t).until = use.until
           /\ Started(use, t).first <= t
           /\ Active(L, t, u, Started(use, t).windows)
<1>1. CASE use # NoUsage
    BY <1>1 DEF UsageHolds, Started
<1>2. CASE use = NoUsage
    <2> DEFINE x == Started(use, t)
               f == [value |-> 0, count |-> 0, start |-> t]
    <2>1. x = [windows |-> [w \in Window |-> f], until |-> 0, first |-> t]
        BY <1>2 DEF Started
    <2>2. f \in LimiterWindow /\ f.start = t
        BY DEF LimiterWindow
    <2>3. use.until = 0
        BY <1>2 DEF NoUsage
    <2>4. SentIn(L, {u}) = {}
        BY <1>2 DEF UsageHolds
    <2>5. SinceIn(L, {u}, t) = {}
        BY <2>4 DEF SinceIn
    <2>6. \A w \in Window : Running(L, t, f, {u}, Length[w])
        BY <2>5, RunningFresh, LengthPositive
    <2> HIDE DEF f, x
    <2>7. x \in UserUsage /\ x.until = 0 /\ x.first = t
          /\ \A w \in Window : x.windows[w] = f
        BY <2>1, <2>2 DEF UserUsage
    <2>8. Active(L, t, u, x.windows)
        BY <2>4, <2>6, <2>7, SpacedEmpty DEF Active
    <2>9. t <= t
        OBVIOUS
    <2> QED
        BY <2>3, <2>7, <2>8, <2>9 DEF x
<1> QED
    BY <1>1, <1>2

LEMMA DecayedActive ==
    ASSUME NEW L, NEW t \in Nat, PastIn(L, t), NEW u, NEW windows, Active(L, t, u, windows)
    PROVE  /\ DecayedAll(windows, t) \in [Window -> LimiterWindow]
           /\ Active(L, t, u, DecayedAll(windows, t))
           /\ \A w \in Window : t < DecayedAll(windows, t)[w].start + Length[w]
<1> SUFFICES ASSUME NEW w \in Window
             PROVE  LET d == Decaying(windows[w], t, Length[w]) IN
                    /\ d \in LimiterWindow
                    /\ Running(L, t, d, {u}, Length[w])
                    /\ Spaced(L, u, w, d.start, Length[w])
                    /\ t < d.start + Length[w]
    BY DEF DecayedAll, Active
<1> DEFINE d == Decaying(windows[w], t, Length[w])
           len == Length[w]
<1>1. len \in Nat \ {0}
    BY LengthPositive
<1>2. Running(L, t, windows[w], {u}, len) /\ Spaced(L, u, w, windows[w].start, len)
    BY DEF Active
<1> HIDE DEF len
<1>3. /\ Running(L, t, Decaying(windows[w], t, len), {u}, len)
      /\ t < Decaying(windows[w], t, len).start + len
      /\ \/ Decaying(windows[w], t, len).start = windows[w].start
         \/ windows[w].start + len <= Decaying(windows[w], t, len).start
    BY <1>1, <1>2, RunningDecayed
<1> USE DEF len
<1> HIDE DEF d
<1>4. /\ Running(L, t, d, {u}, len) /\ t < d.start + len
      /\ d.start = windows[w].start \/ windows[w].start + len <= d.start
    BY <1>3 DEF d
<1> HIDE DEF len
<1>5. d \in LimiterWindow /\ d.start \in Nat /\ windows[w].start \in Nat
    BY <1>2, <1>4, RunningTyped
<1>6. L \in Seq(LimiterEvent)
    BY DEF PastIn
<1>7. Spaced(L, u, w, d.start, len)
    BY <1>1, <1>2, <1>4, <1>5, <1>6, SpacedStart
<1> QED
    BY <1>4, <1>5, <1>7 DEF d, len

\* The three events of a user's own.
LEMMA UsageBreached ==
    ASSUME NEW M, NEW L, NEW e, Extends(M, L, e), NEW t \in Nat, PastIn(L, t),
           NEW u, e.kind = "breach", e.user = u, NEW use, UsageHolds(L, t, u, use),
           use.until <= e.until
    PROVE  UsageHolds(M, t, u, [windows |-> DecayedAll(Started(use, t).windows, t),
                                until |-> e.until, first |-> Started(use, t).first])
<1> DEFINE x == Started(use, t)
           d == DecayedAll(x.windows, t)
           new == [windows |-> d, until |-> e.until, first |-> x.first]
<1>1. x \in UserUsage /\ x.first <= t /\ Active(L, t, u, x.windows)
    BY StartedActive
<1>2. d \in [Window -> LimiterWindow] /\ Active(L, t, u, d)
    BY <1>1, DecayedActive
<1> HIDE DEF x, d
<1>3. e.until \in Nat
    BY DEF Extends, LimiterEvent
<1>4. new \in UserUsage /\ new.windows = d /\ new.until = e.until /\ new.first = x.first
      /\ x.first \in Nat
    BY <1>1, <1>2, <1>3 DEF UserUsage
<1> HIDE DEF new
<1>5. Cooled(M, u, e.until)
    BY CooledBreach DEF UsageHolds
<1>6. ASSUME NEW w \in Window
      PROVE  Running(M, t, d[w], {u}, Length[w]) /\ Spaced(M, u, w, d[w].start, Length[w])
    <2>1. Running(L, t, d[w], {u}, Length[w]) /\ Spaced(L, u, w, d[w].start, Length[w])
        BY <1>2 DEF Active
    <2>2. ~ (e.kind = "transfer" /\ e.user \in {u}) /\ ~ (e.kind = "transfer" /\ e.user = u)
        OBVIOUS
    <2>3. d[w].start \in Nat /\ Length[w] \in Nat
        BY <2>1, RunningTyped, LengthPositive
    <2>4. Running(M, t, d[w], {u}, Length[w])
        BY <2>1, <2>2, RunningKept
    <2> QED
        BY <2>1, <2>2, <2>3, <2>4, SpacedKept
<1>7. Active(M, t, u, new.windows)
    BY <1>4, <1>6 DEF Active
<1>8. new # NoUsage
    BY <1>4, UserUsageStored
<1>9. UsageHolds(M, t, u, new)
    BY <1>1, <1>3, <1>4, <1>5, <1>7, <1>8 DEF UsageHolds
<1> QED
    BY <1>9 DEF new, d, x

LEMMA UsageCleared ==
    ASSUME NEW M, NEW L, NEW e, Extends(M, L, e), NEW t \in Nat, PastIn(L, t),
           NEW u, e.kind = "clear", e.user = u, NEW use, UsageHolds(L, t, u, use)
    PROVE  UsageHolds(M, t, u, [Started(use, t) EXCEPT !.until = 0])
<1> DEFINE x == Started(use, t)
           new == [x EXCEPT !.until = 0]
<1>1. x \in UserUsage /\ x.first <= t /\ Active(L, t, u, x.windows)
    BY StartedActive
<1> HIDE DEF x
<1>2. new \in UserUsage /\ new.windows = x.windows /\ new.until = 0 /\ new.first = x.first
      /\ x.first \in Nat
    BY <1>1 DEF UserUsage
<1> HIDE DEF new
<1>3. Cooled(M, u, 0)
    BY CooledClear
<1>4. ASSUME NEW w \in Window
      PROVE  Running(M, t, x.windows[w], {u}, Length[w])
             /\ Spaced(M, u, w, x.windows[w].start, Length[w])
    <2> DEFINE d == x.windows
    <2>1. Running(L, t, d[w], {u}, Length[w]) /\ Spaced(L, u, w, d[w].start, Length[w])
        BY <1>1 DEF Active
    <2>2. ~ (e.kind = "transfer" /\ e.user \in {u}) /\ ~ (e.kind = "transfer" /\ e.user = u)
        OBVIOUS
    <2> HIDE DEF d
    <2>3. d[w].start \in Nat /\ Length[w] \in Nat
        BY <2>1, RunningTyped, LengthPositive
    <2>4. Running(M, t, d[w], {u}, Length[w])
        BY <2>1, <2>2, RunningKept
    <2>5. Spaced(M, u, w, d[w].start, Length[w])
        BY <2>1, <2>2, <2>3, SpacedKept
    <2> QED
        BY <2>4, <2>5 DEF d
<1>5. Active(M, t, u, new.windows)
    BY <1>2, <1>4 DEF Active
<1>6. new # NoUsage
    BY <1>2, UserUsageStored
<1>7. UsageHolds(M, t, u, new)
    BY <1>1, <1>2, <1>3, <1>5, <1>6 DEF UsageHolds
<1> QED
    BY <1>7 DEF new, x

LEMMA UsageSent ==
    ASSUME NEW M, NEW L, NEW e, Extends(M, L, e), NEW t \in Nat, PastIn(L, t),
           NEW u, e.kind = "transfer", e.user = u, e.at = t,
           NEW use, UsageHolds(L, t, u, use), NEW d,
           d = DecayedAll(Started(use, t).windows, t),
           \A w \in Window : d[w].value + e.value <= e.limit[w]
    PROVE  UsageHolds(M, t, u, [windows |-> [w \in Window |-> Added(d[w], e.value)],
                                until |-> Started(use, t).until,
                                first |-> Started(use, t).first])
<1> DEFINE x == Started(use, t)
           more == [w \in Window |-> Added(d[w], e.value)]
           new == [windows |-> more, until |-> x.until, first |-> x.first]
<1>1. x \in UserUsage /\ x.first <= t /\ Active(L, t, u, x.windows) /\ x.until = use.until
    BY StartedActive
<1>2. /\ d \in [Window -> LimiterWindow] /\ Active(L, t, u, d)
      /\ \A w \in Window : t < d[w].start + Length[w]
    BY <1>1, DecayedActive
<1> HIDE DEF x
<1>3. e.value \in Nat /\ e.user \in {u} /\ ~ (e.kind = "breach" /\ e.user = u)
    BY DEF Extends, LimiterEvent
<1>4. ASSUME NEW w \in Window
      PROVE  /\ more[w] \in LimiterWindow /\ Running(M, t, more[w], {u}, Length[w])
             /\ Spaced(M, u, w, more[w].start, Length[w])
    <2> DEFINE y == Added(d[w], e.value)
    <2>1. Running(L, t, d[w], {u}, Length[w]) /\ Spaced(L, u, w, d[w].start, Length[w])
        BY <1>2 DEF Active
    <2>2. Length[w] \in Nat \ {0} /\ d[w] \in LimiterWindow /\ d[w].start \in Nat
          /\ d[w].start <= t
        BY <2>1, RunningTyped, LengthPositive
    <2>3. Running(M, t, y, {u}, Length[w])
        BY <1>2, <1>3, <2>1, <2>2, RunningMore
    <2>4. y.value = d[w].value + e.value /\ y.start = d[w].start
        BY <1>3, <2>2, AddedIs
    <2> HIDE DEF y
    <2>5. SumIn(M, SinceIn(M, {u}, d[w].start)) = y.value
        BY <2>3, <2>4 DEF Running, HoldsIn
    <2>6. SumIn(M, SinceIn(M, {u}, d[w].start)) <= e.limit[w]
        BY <2>4, <2>5
    <2>7. d[w].start <= e.at /\ Length[w] \in Nat
        BY <2>2
    <2>8. Spaced(M, u, w, d[w].start, Length[w])
        BY <2>1, <2>2, <2>6, <2>7, SpacedMore
    <2>9. more[w] = y
        BY DEF y
    <2> QED
        BY <2>3, <2>4, <2>8, <2>9, RunningTyped
<1> HIDE DEF more
<1>5. more \in [Window -> LimiterWindow]
    BY <1>4 DEF more
<1>6. new \in UserUsage /\ new.windows = more /\ new.until = x.until /\ new.first = x.first
      /\ x.first \in Nat /\ x.until \in Nat
    BY <1>1, <1>5 DEF UserUsage
<1> HIDE DEF new
<1>7. Cooled(M, u, use.until)
    BY <1>3, CooledKept DEF UsageHolds
<1>8. Active(M, t, u, new.windows)
    BY <1>4, <1>6 DEF Active
<1>9. new # NoUsage
    BY <1>6, UserUsageStored
<1>10. UsageHolds(M, t, u, new)
    BY <1>1, <1>6, <1>7, <1>8, <1>9 DEF UsageHolds
<1> QED
    BY <1>10 DEF new, more, x

-----------------------------------------------------------------------------
(* RateLimiter: the invariant and its steps.                                 *)

LimiterTypes ==
    /\ now \in Nat
    /\ DOMAIN usage = Sender /\ DOMAIN total = Shared /\ DOMAIN days = Sender
    /\ custom \in [Sender -> Limits \cup {NoLimits}] /\ defaults \in Limits
    /\ factor \in [Sender -> Nat] /\ cooldown \in Nat

\* Every user's usage and history and the shared totals are those of the log,
\* and no transfer of it was made in a cooldown.
LimiterInv ==
    /\ LimiterTypes
    /\ PastIn(log, now)
    /\ \A u \in Sender : UsageHolds(log, now, u, usage[u])
    /\ \A w \in Shared : Running(log, now, total[w], Sender, Length[w])
    /\ \A u \in Sender : DaysHeld(log, now, days[u], {u}, Length["daily"])
    /\ CooldownsIn(log)

LEMMA SharedWindows == "daily" \in Window /\ Shared \subseteq Window
BY DEF Window, Shared

LEMMA DecayedIs ==
    ASSUME NEW u
    PROVE  /\ get_or_init_usage(u) = Started(usage[u], now)
           /\ Decayed(u) = DecayedAll(Started(usage[u], now).windows, now)
<1>1. get_or_init_usage(u) = Started(usage[u], now)
    BY DEF get_or_init_usage, Started, Fresh
<1> QED
    BY <1>1 DEF Decayed, DecayedAll, decayed_usage, Decaying, Fresh

LEMMA ProductNat == ASSUME NEW a \in Nat, NEW b \in Nat PROVE a * b \in Nat
OBVIOUS

LEMMA PerTenThousand == ASSUME NEW a \in Nat PROVE a \div 10000 \in Nat
OBVIOUS

\* The limits in force are numbers.
LEMMA EffectiveTyped ==
    ASSUME LimiterInv, NEW u \in Sender
    PROVE  effective(u).value \in [Window -> Nat]
<1> DEFINE base == IF custom[u] # NoLimits THEN custom[u] ELSE defaults
           times == IF u \in trusted THEN 2 ELSE 1
           intervals == (now - usage[u].first) \div Tenure
           earned == IF intervals * Bonus < MaxBonus THEN intervals * Bonus ELSE MaxBonus
           bonus == IF usage[u] = NoUsage THEN 0 ELSE earned
           scaled(n) == (((n * times * factor[u]) \div 10000) * (10000 + bonus)) \div 10000
<1>1. base \in Limits
    BY DEF LimiterInv, LimiterTypes
<1>2. base.value \in [Window -> Nat]
    <2> HIDE DEF base
    <2> QED
        BY <1>1 DEF Limits
<1>3. times \in Nat /\ factor[u] \in Nat
    BY DEF LimiterInv, LimiterTypes
<1>4. intervals \in Nat
    <2>1. now - usage[u].first \in Nat
        <3>1. now \in Nat /\ usage[u].first \in Nat /\ usage[u].first <= now
            BY DEF LimiterInv, LimiterTypes, UsageHolds
        <3> QED
            BY <3>1
    <2>2. Tenure \in Nat \ {0}
        BY LimiterAssumption
    <2> QED
        BY <2>1, <2>2, QuotientMonotone
<1> HIDE DEF intervals
<1>5. earned \in Nat
    BY <1>4, LimiterAssumption, ProductNat
<1> HIDE DEF earned
<1>6. bonus \in Nat
    BY <1>5
<1> HIDE DEF bonus, times
<1>7. ASSUME NEW n \in Nat PROVE scaled(n) \in Nat
    <2>1. n * times \in Nat
        BY <1>3, ProductNat
    <2>2. (n * times) * factor[u] \in Nat
        BY <1>3, <2>1, ProductNat
    <2> DEFINE a == n * times * factor[u]
    <2>3. a \in Nat
        BY <2>2
    <2> HIDE DEF a
    <2> DEFINE b == a \div 10000
               c == 10000 + bonus
    <2>4. b \in Nat /\ c \in Nat
        BY <1>6, <2>3, PerTenThousand
    <2> HIDE DEF b, c
    <2>5. b * c \in Nat
        BY <2>4, ProductNat
    <2>6. (b * c) \div 10000 \in Nat
        BY <2>5, PerTenThousand
    <2> QED
        BY <2>6 DEF a, b, c
<1>8. effective(u).value
        = [w \in Window |-> IF scaled(base.value[w]) < 1 THEN 1 ELSE scaled(base.value[w])]
    BY DEF effective, bonus, earned, intervals, times
<1> HIDE DEF scaled, base
<1>9. \A w \in Window : scaled(base.value[w]) \in Nat
    BY <1>2, <1>7
<1> QED
    BY <1>8, <1>9

LEMMA EffectiveCount ==
    ASSUME LimiterInv, NEW u \in Sender, NEW w \in Window
    PROVE  effective(u).count[w] \in Nat
<1> DEFINE base == IF custom[u] # NoLimits THEN custom[u] ELSE defaults
           times == IF u \in trusted THEN 2 ELSE 1
<1>1. base \in Limits
    BY DEF LimiterInv, LimiterTypes
<1>2. base.count \in [Window -> Nat]
    <2> HIDE DEF base
    <2> QED
        BY <1>1 DEF Limits
<1>3. times \in Nat
    OBVIOUS
<1>4. effective(u).count[w] = base.count[w] * times
    BY DEF effective
<1> HIDE DEF base, times
<1> QED
    BY <1>2, <1>3, <1>4, ProductNat

\* A call that logs an event.
LEMMA LoggedExtends ==
    ASSUME LimiterInv, NEW u \in Sender, NEW kind \in {"transfer", "breach", "clear"},
           NEW n \in Nat, NEW until \in Nat, Logged(kind, u, n, until)
    PROVE  \E e : /\ Extends(log', log, e)
                  /\ e.kind = kind /\ e.user = u /\ e.value = n /\ e.at = now
                  /\ e.until = until /\ e.limit = effective(u).value
<1> DEFINE e == [kind |-> kind, user |-> u, value |-> n, at |-> now,
                 until |-> until, limit |-> effective(u).value]
<1>1. effective(u).value \in [Window -> Nat] /\ now \in Nat /\ log \in Seq(LimiterEvent)
    BY EffectiveTyped DEF LimiterInv, LimiterTypes, PastIn
<1>2. e \in LimiterEvent
    BY <1>1 DEF LimiterEvent
<1>3. log' = Append(log, e)
    BY DEF Logged
<1>4. Extends(log', log, e)
    BY <1>1, <1>2, <1>3, AppendExtends
<1> QED
    BY <1>4

LEMMA PastMore ==
    ASSUME NEW M, NEW L, NEW e, Extends(M, L, e), NEW t, PastIn(L, t), e.at = t
    PROVE  PastIn(M, t)
<1>1. /\ Len(L) \in Nat /\ DOMAIN L = 1 .. Len(L) /\ DOMAIN M = 1 .. (Len(L) + 1)
      /\ M[Len(L) + 1] = e
      /\ \A i \in 1 .. Len(L) : M[i] = L[i]
    BY ExtendsLength
<1>2. M \in Seq(LimiterEvent) /\ t \in Nat
    BY DEF PastIn, Extends
<1>3. \A i \in DOMAIN M : M[i].at <= t
    BY <1>1, <1>2 DEF PastIn
<1>4. ASSUME NEW i \in DOMAIN M, NEW j \in DOMAIN M, i < j
      PROVE  M[i].at <= M[j].at
    <2>1. CASE j = Len(L) + 1
        BY <1>1, <1>3, <2>1
    <2>2. CASE j \in DOMAIN L
        <3>1. i \in DOMAIN L
            BY <1>1, <1>4, <2>2
        <3> QED
            BY <1>1, <1>4, <2>2, <3>1 DEF PastIn
    <2> QED
        BY <1>1, <2>1, <2>2
<1> QED
    BY <1>2, <1>3, <1>4 DEF PastIn

\* Every part of the invariant but the types says nothing of the settings.
LEMMA LimiterAdminStep ==
    ASSUME LimiterInv, UNCHANGED <<usage, total, days, log, now>>, LimiterTypes'
    PROVE  LimiterInv'
BY DEF LimiterInv

LEMMA ClockStep ==
    ASSUME LimiterInv, Tick, UNCHANGED limiterVars
    PROVE  LimiterInv'
<1>1. now \in Nat /\ now' \in Nat /\ now <= now'
    BY DEF LimiterInv, LimiterTypes, Tick
<1>2. UNCHANGED <<usage, total, days, custom, defaults, factor, cooldown, log>>
    BY DEF limiterVars
<1>3. LimiterTypes'
    BY <1>1, <1>2 DEF LimiterInv, LimiterTypes
<1>4. PastIn(log, now')
    <2>1. \A i \in DOMAIN log : log[i].at \in Nat
        BY EventTyped DEF LimiterInv, PastIn
    <2> QED
        BY <1>1, <2>1 DEF LimiterInv, PastIn
<1>5. \A u \in Sender : UsageHolds(log, now', u, usage[u])
    BY <1>1, UsageLater DEF LimiterInv
<1>6. \A w \in Shared : Running(log, now', total[w], Sender, Length[w])
    BY <1>1, RunningLater DEF LimiterInv
<1>7. \A u \in Sender : DaysHeld(log, now', days[u], {u}, Length["daily"])
    BY <1>1, DaysLater, LengthPositive, SharedWindows DEF LimiterInv
<1> QED
    BY <1>2, <1>3, <1>4, <1>5, <1>6, <1>7 DEF LimiterInv

\* A breach or a cleared cooldown: totals and histories stay.
LEMMA QuietStep ==
    ASSUME LimiterInv, NEW u \in Sender, NEW e, Extends(log', log, e),
           e.kind # "transfer", e.user = u, e.at = now,
           UNCHANGED <<now, total, days, settings>>, NEW new,
           usage' = [usage EXCEPT ![u] = new], UsageHolds(log', now, u, new)
    PROVE  LimiterInv'
<1>1. UNCHANGED <<now, total, days, custom, defaults, factor, cooldown>>
    BY DEF settings
<1>2. PastIn(log', now)
    BY PastMore DEF LimiterInv
<1>3. ASSUME NEW v \in Sender PROVE UsageHolds(log', now, v, usage'[v])
    <2>1. CASE v = u
        <3>1. usage'[v] = new
            BY <2>1 DEF LimiterInv, LimiterTypes
        <3> QED
            BY <2>1, <3>1
    <2>2. CASE v # u
        <3>1. usage'[v] = usage[v]
            BY <2>2 DEF LimiterInv, LimiterTypes
        <3>2. UsageHolds(log, now, v, usage[v])
            BY DEF LimiterInv
        <3>3. UsageHolds(log', now, v, usage[v])
            BY <2>2, <3>2, UsageOther
        <3> QED
            BY <3>1, <3>3
    <2> QED
        BY <2>1, <2>2
<1>4. ASSUME NEW w \in Shared PROVE Running(log', now, total[w], Sender, Length[w])
    BY RunningKept DEF LimiterInv
<1>5. ASSUME NEW v \in Sender PROVE DaysHeld(log', now, days[v], {v}, Length["daily"])
    BY DaysKept DEF LimiterInv
<1>6. CooldownsIn(log')
    <2>1. CooldownsIn(log) /\ 0 \in Nat
        BY DEF LimiterInv
    <2> QED
        BY <2>1, CooldownsMore
<1>7. LimiterTypes'
    BY <1>1 DEF LimiterInv, LimiterTypes
<1> QED
    BY <1>1, <1>2, <1>3, <1>4, <1>5, <1>6, <1>7 DEF LimiterInv

LEMMA BreachStep ==
    ASSUME LimiterInv, NEW u \in Sender, NEW n \in Values, breach(u, n), UNCHANGED now
    PROVE  LimiterInv'
<1> DEFINE x == Started(usage[u], now)
           until == now + cooldown
           new == [windows |-> DecayedAll(x.windows, now), until |-> until, first |-> x.first]
<1>1. now \in Nat /\ until \in Nat /\ n \in Nat /\ now <= until
    <2>1. n \in Nat
        BY LimiterValues
    <2>2. now \in Nat /\ cooldown \in Nat
        BY DEF LimiterInv, LimiterTypes
    <2> QED
        BY <2>1, <2>2
<1>2. UsageHolds(log, now, u, usage[u]) /\ PastIn(log, now)
    BY DEF LimiterInv
<1>3. usage[u].until <= until
    <2>1. x.until = usage[u].until /\ x.until <= now
        BY <1>1, <1>2, StartedActive, DecayedIs DEF breach, Open
    <2>2. usage[u].until \in Nat
        BY <1>2 DEF UsageHolds
    <2> HIDE DEF until, x
    <2> QED
        BY <1>1, <2>1, <2>2
<1>4. usage' = [usage EXCEPT ![u] = new] /\ UNCHANGED <<now, total, days, settings>>
    BY DecayedIs DEF breach
<1>5. Logged("breach", u, n, until)
    BY DEF breach
<1> HIDE DEF until
<1>6. PICK e : /\ Extends(log', log, e)
               /\ e.kind = "breach" /\ e.user = u /\ e.at = now /\ e.until = until
    BY <1>1, <1>5, LoggedExtends
<1>7. UsageHolds(log', now, u, new)
    BY <1>1, <1>2, <1>3, <1>6, UsageBreached
<1>8. e.kind # "transfer"
    BY <1>6
<1> HIDE DEF new
<1> QED
    BY <1>4, <1>6, <1>7, <1>8, QuietStep

LEMMA ClearStep ==
    ASSUME LimiterInv, NEW u \in Sender, clear_cooldown(u), UNCHANGED now
    PROVE  LimiterInv'
<1> DEFINE new == [Started(usage[u], now) EXCEPT !.until = 0]
<1>1. now \in Nat /\ 0 \in Nat
    BY DEF LimiterInv, LimiterTypes
<1>2. UsageHolds(log, now, u, usage[u]) /\ PastIn(log, now)
    BY DEF LimiterInv
<1>3. usage' = [usage EXCEPT ![u] = new] /\ UNCHANGED <<now, total, days, settings>>
    BY DecayedIs DEF clear_cooldown
<1>4. PICK e : /\ Extends(log', log, e)
               /\ e.kind = "clear" /\ e.user = u /\ e.at = now
    BY <1>1, LoggedExtends DEF clear_cooldown
<1>5. UsageHolds(log', now, u, new)
    BY <1>1, <1>2, <1>4, UsageCleared
<1>6. e.kind # "transfer"
    BY <1>4
<1> HIDE DEF new
<1> QED
    BY <1>3, <1>4, <1>5, <1>6, QuietStep

LEMMA TransferStep ==
    ASSUME LimiterInv, NEW u \in Sender, NEW n \in Values, transfer(u, n), UNCHANGED now
    PROVE  LimiterInv'
<1> DEFINE x == Started(usage[u], now)
           d == DecayedAll(x.windows, now)
           new == [windows |-> [w \in Window |-> Added(d[w], n)],
                   until |-> x.until, first |-> x.first]
<1>1. now \in Nat /\ n \in Nat /\ 0 \in Nat /\ UNCHANGED now
    <2>1. n \in Nat
        BY LimiterValues
    <2>2. now \in Nat
        BY DEF LimiterInv, LimiterTypes
    <2> QED
        BY <2>1, <2>2
<1>2. UsageHolds(log, now, u, usage[u]) /\ PastIn(log, now)
    BY DEF LimiterInv
<1>3. /\ usage' = [usage EXCEPT ![u] = new]
      /\ total' = [w \in Shared |-> Added(DecayedTotal[w], n)]
      /\ days' = [days EXCEPT ![u] = Recorded(u, n)]
      /\ UNCHANGED settings
    <2>1. get_or_init_usage(u) = x /\ Decayed(u) = d
        BY DecayedIs
    <2> HIDE DEF x, d
    <2>2. usage' = [usage EXCEPT ![u] = new]
        BY <2>1 DEF transfer
    <2> QED
        BY <2>2 DEF transfer
<1>4. PICK e : /\ Extends(log', log, e)
               /\ e.kind = "transfer" /\ e.user = u /\ e.value = n /\ e.at = now
               /\ e.limit = effective(u).value
    BY <1>1, LoggedExtends DEF transfer
<1>5. Active(log, now, u, x.windows) /\ x.until = usage[u].until
    BY <1>1, <1>2, StartedActive
<1>6. d \in [Window -> LimiterWindow] /\ Decayed(u) = d
    BY <1>1, <1>2, <1>5, DecayedActive, DecayedIs
<1>7. ASSUME NEW w \in Window PROVE d[w].value + n <= e.limit[w]
    <2>1. ~ (d[w].value + n > effective(u).value[w])
        BY <1>6 DEF transfer, Exceeds
    <2>2. d[w].value \in Nat /\ effective(u).value[w] \in Nat
        <3>1. d[w] \in LimiterWindow /\ effective(u).value \in [Window -> Nat]
            BY <1>6, EffectiveTyped
        <3> HIDE DEF d
        <3> QED
            BY <3>1 DEF LimiterWindow
    <2> HIDE DEF d
    <2> QED
        BY <1>1, <1>4, <2>1, <2>2
<1>8. UsageHolds(log', now, u, new)
    <2>1. \A w \in Window : d[w].value + e.value <= e.limit[w]
        BY <1>4, <1>7
    <2>2. UsageHolds(log', now, u, [windows |-> [w \in Window |-> Added(d[w], e.value)],
                                    until |-> x.until, first |-> x.first])
        BY <1>1, <1>2, <1>4, <2>1, UsageSent
    <2> QED
        BY <1>4, <2>2
<1> HIDE DEF d, new
<1>9. ASSUME NEW v \in Sender PROVE UsageHolds(log', now, v, usage'[v])
    <2>1. CASE v = u
        <3>1. usage'[v] = new
            BY <1>3, <2>1 DEF LimiterInv, LimiterTypes
        <3> QED
            BY <1>8, <2>1, <3>1
    <2>2. CASE v # u
        <3>1. usage'[v] = usage[v]
            BY <1>3, <2>2 DEF LimiterInv, LimiterTypes
        <3>2. UsageHolds(log, now, v, usage[v]) /\ e.user # v
            BY <1>4, <2>2 DEF LimiterInv
        <3>3. UsageHolds(log', now, v, usage[v])
            BY <1>4, <3>2, UsageOther
        <3> QED
            BY <3>1, <3>3
    <2> QED
        BY <2>1, <2>2
<1>10. ASSUME NEW w \in Shared PROVE Running(log', now, total'[w], Sender, Length[w])
    <2> DEFINE y == Decaying(total[w], now, Length[w])
               len == Length[w]
    <2>1. len \in Nat \ {0}
        BY SharedWindows, LengthPositive
    <2>2. Running(log, now, total[w], Sender, len)
        BY DEF LimiterInv
    <2> HIDE DEF len
    <2>3. Running(log, now, Decaying(total[w], now, len), Sender, len)
          /\ now < Decaying(total[w], now, len).start + len
        BY <1>1, <1>2, <2>1, <2>2, RunningDecayed
    <2> USE DEF len
    <2> HIDE DEF y
    <2>4. Running(log, now, y, Sender, len) /\ now < y.start + len
        BY <2>3 DEF y
    <2>5. total'[w] = Added(y, e.value)
        BY <1>3, <1>4 DEF DecayedTotal, decayed_usage, Decaying, Fresh, y
    <2> HIDE DEF len
    <2>6. Running(log', now, Added(y, e.value), Sender, len)
        BY <1>1, <1>4, <2>1, <2>4, RunningMore
    <2> QED
        BY <2>5, <2>6 DEF len
<1>11. ASSUME NEW v \in Sender PROVE DaysHeld(log', now, days'[v], {v}, Length["daily"])
    <2>1. Length["daily"] \in Nat \ {0} /\ MaxDays \in Nat \ {0}
        BY SharedWindows, LengthPositive, LimiterValues
    <2>2. DaysHeld(log, now, days[v], {v}, Length["daily"])
        BY DEF LimiterInv
    <2>3. CASE v = u
        <3>1. days'[v] = Entered(days[v], now \div Length["daily"], n)
            BY <1>3, <2>3 DEF LimiterInv, LimiterTypes, Recorded, Entered
        <3>2. e.user \in {v}
            BY <1>4, <2>3
        <3>3. DaysHeld(log', now, Entered(days[v], now \div Length["daily"], e.value),
                       {v}, Length["daily"])
            BY <1>1, <1>2, <1>4, <2>1, <2>2, <3>2, DaysMore
        <3> QED
            BY <1>4, <3>1, <3>3
    <2>4. CASE v # u
        <3>1. days'[v] = days[v]
            BY <1>3, <2>4 DEF LimiterInv, LimiterTypes
        <3>2. ~ (e.kind = "transfer" /\ e.user \in {v})
            BY <1>4, <2>4
        <3>3. DaysHeld(log', now, days[v], {v}, Length["daily"])
            BY <1>4, <2>2, <3>2, DaysKept
        <3> QED
            BY <3>1, <3>3
    <2> QED
        BY <2>3, <2>4
<1>12. CooldownsIn(log')
    <2>1. Cooled(log, u, usage[u].until) /\ usage[u].until \in Nat /\ CooldownsIn(log)
        BY <1>2 DEF UsageHolds, LimiterInv
    <2>2. usage[u].until <= now
        BY <1>5, DecayedIs DEF transfer, Open
    <2>3. e.kind = "transfer" => Cooled(log, e.user, usage[u].until) /\ usage[u].until <= e.at
        BY <1>4, <2>1, <2>2
    <2> QED
        BY <1>4, <2>1, <2>3, CooldownsMore
<1>13. PastIn(log', now)
    BY <1>2, <1>4, PastMore
<1>14. LimiterTypes'
    BY <1>1, <1>3 DEF LimiterInv, LimiterTypes, settings
<1> QED
    BY <1>1, <1>9, <1>10, <1>11, <1>12, <1>13, <1>14 DEF LimiterInv

Reduced(limits, bps) ==
    [limits EXCEPT !.value = [w \in Window |->
        LET less == (@[w] * (10000 - bps)) \div 10000 IN IF less < 1 THEN 1 ELSE less]]

LEMMA ReducedTyped ==
    ASSUME NEW limits \in Limits, NEW bps \in Nat, bps <= 10000
    PROVE  Reduced(limits, bps) \in Limits
<1>1. limits.value \in [Window -> Nat]
    BY DEF Limits
<1>2. 10000 - bps \in Nat
    OBVIOUS
<1> DEFINE less(w) == (limits.value[w] * (10000 - bps)) \div 10000
           f == [w \in Window |-> IF less(w) < 1 THEN 1 ELSE less(w)]
<1>3. ASSUME NEW w \in Window PROVE less(w) \in Nat
    <2> DEFINE a == limits.value[w] * (10000 - bps)
    <2>1. a \in Nat
        BY <1>1, <1>2, ProductNat
    <2> HIDE DEF a
    <2>2. a \div 10000 \in Nat
        BY <2>1, PerTenThousand
    <2> QED
        BY <2>2 DEF a
<1> HIDE DEF less
<1>4. f \in [Window -> Nat]
    BY <1>3
<1> HIDE DEF f
<1>5. [limits EXCEPT !.value = f] \in Limits
    BY <1>4 DEF Limits
<1> QED
    BY <1>5 DEF f, less, Reduced

LEMMA FactorTyped ==
    ASSUME NEW score \in Nat, score <= 10000
    PROVE  calculate_adjustment_factor(score) \in Nat
<1>1. CASE score <= 2000 \/ score >= 7000
    BY <1>1 DEF calculate_adjustment_factor
<1>2. CASE ~ (score <= 2000 \/ score >= 7000)
    <2>1. calculate_adjustment_factor(score) = 12000 - ((score - 2000) * 7000) \div 5000
        BY <1>2 DEF calculate_adjustment_factor
    <2>2. ((score - 2000) * 7000) \div 5000 \in Nat
          /\ ((score - 2000) * 7000) \div 5000 <= 12000
        BY <1>2
    <2> QED
        BY <2>1, <2>2
<1> QED
    BY <1>1, <1>2

LEMMA FactorSet ==
    ASSUME NEW score \in RiskScores
    PROVE  calculate_adjustment_factor(score) \in Nat
<1>1. score \in Nat /\ score <= 10000
    BY LimiterValues
<1> QED
    BY <1>1, FactorTyped

LEMMA ReducedSet ==
    ASSUME NEW limits \in Limits, NEW bps \in Reductions
    PROVE  Reduced(limits, bps) \in Limits
<1>1. bps \in Nat /\ bps <= 10000
    BY LimiterAssumption
<1> QED
    BY <1>1, ReducedTyped

LEMMA AdminStep ==
    ASSUME LimiterInv, LimiterAdmin, UNCHANGED now
    PROVE  LimiterInv'
<1>1. ASSUME NEW bps \in Reductions, emergency_reduce_limits(bps)
      PROVE  defaults' \in Limits
    <2>1. defaults \in Limits
        BY DEF LimiterInv, LimiterTypes
    <2>2. defaults' = Reduced(defaults, bps)
        BY <1>1 DEF emergency_reduce_limits, Reduced
    <2> QED
        BY <2>1, <2>2, ReducedSet
<1> USE DEF LimiterInv, LimiterTypes
<1>2. ASSUME NEW u \in Sender, set_whitelisted(u) PROVE LimiterInv'
    BY <1>2, LimiterAdminStep DEF set_whitelisted
<1>3. ASSUME NEW u \in Sender, NEW limits \in LimitSets, update_user_limit(u, limits)
      PROVE  LimiterInv'
    <2>1. limits \in Limits
        BY LimiterValues
    <2>2. LimiterTypes'
        BY <1>3, <2>1 DEF update_user_limit
    <2> QED
        BY <1>3, <2>2, LimiterAdminStep DEF update_user_limit
<1>4. ASSUME NEW u \in Sender, NEW score \in RiskScores, update_risk_score(u, score)
      PROVE  LimiterInv'
    <2>1. calculate_adjustment_factor(score) \in Nat
        BY FactorSet
    <2>2. LimiterTypes'
        BY <1>4, <2>1 DEF update_risk_score
    <2> QED
        BY <1>4, <2>2, LimiterAdminStep DEF update_risk_score
<1>5. ASSUME NEW limits \in LimitSets, update_default_limits(limits) PROVE LimiterInv'
    <2>1. limits \in Limits
        BY LimiterValues
    <2>2. LimiterTypes'
        BY <1>5, <2>1 DEF update_default_limits
    <2> QED
        BY <1>5, <2>2, LimiterAdminStep DEF update_default_limits
<1>6. ASSUME NEW bps \in Reductions, emergency_reduce_limits(bps) PROVE LimiterInv'
    <2>2. defaults' \in Limits
        BY <1>6, <1>1
    <2>3. LimiterTypes'
        BY <1>6, <2>2 DEF emergency_reduce_limits
    <2> QED
        BY <1>6, <2>3, LimiterAdminStep DEF emergency_reduce_limits
<1>7. ASSUME NEW values \in GlobalValues, update_global_limit(values) PROVE LimiterInv'
    <2>1. LimiterTypes'
        BY <1>7 DEF update_global_limit
    <2> QED
        BY <1>7, <2>1, LimiterAdminStep DEF update_global_limit
<1>8. ASSUME NEW secs \in Cooldowns, set_cooldown_duration(secs) PROVE LimiterInv'
    <2>1. secs \in Nat
        BY LimiterValues
    <2>2. LimiterTypes'
        BY <1>8, <2>1 DEF set_cooldown_duration
    <2> QED
        BY <1>8, <2>2, LimiterAdminStep DEF set_cooldown_duration
<1>9. ASSUME NEW which, NEW on, set_halted(which, on) PROVE LimiterInv'
    BY <1>9, LimiterAdminStep DEF set_halted
<1> HIDE DEF LimiterInv, LimiterTypes
<1> QED
    BY <1>2, <1>3, <1>4, <1>5, <1>6, <1>7, <1>8, <1>9 DEF LimiterAdmin

LEMMA LimiterStep ==
    ASSUME LimiterInv,
           [LimiterNext \/ (Tick /\ UNCHANGED limiterVars)]_<<now, limiterVars>>
    PROVE  LimiterInv'
<1>1. CASE LimiterCalls /\ UNCHANGED now
    BY <1>1, BreachStep, ClearStep, TransferStep DEF LimiterCalls, consume_limit
<1>2. CASE LimiterAdmin /\ UNCHANGED now
    BY <1>2, AdminStep
<1>3. CASE Tick /\ UNCHANGED limiterVars
    BY <1>3, ClockStep
<1>4. CASE UNCHANGED <<now, limiterVars>>
    <2>1. UNCHANGED <<now, usage, total, days, custom, defaults, factor, cooldown, log>>
        BY <1>4 DEF limiterVars
    <2>2. LimiterTypes'
        BY <2>1 DEF LimiterInv, LimiterTypes
    <2> QED
        BY <2>1, <2>2, LimiterAdminStep
<1> QED
    BY <1>1, <1>2, <1>3, <1>4 DEF LimiterNext

LEMMA LimiterStart == ASSUME ClockInit, LimiterInit PROVE LimiterInv
<1>1. /\ now = 0 /\ log = <<>> /\ usage = [u \in Sender |-> NoUsage]
      /\ total = [w \in Shared |-> Fresh] /\ days = [u \in Sender |-> <<>>]
    BY DEF ClockInit, LimiterInit
<1>2. LimiterTypes
    <2>1. defaults \in Limits /\ cooldown \in Nat
        BY LimiterValues DEF LimiterInit
    <2>2. \A u \in Sender : custom[u] \in Limits \cup {NoLimits} /\ factor[u] \in Nat
        BY DEF LimiterInit
    <2>3. custom = [u \in Sender |-> NoLimits] /\ factor = [u \in Sender |-> 10000]
        BY DEF LimiterInit
    <2> QED
        BY <1>1, <2>1, <2>3 DEF LimiterTypes
<1>3. PastIn(log, now) /\ \A U : SentIn(log, U) = {}
    BY <1>1 DEF PastIn, SentIn
<1>4. ASSUME NEW u \in Sender PROVE UsageHolds(log, now, u, usage[u])
    <2>1. usage[u] = NoUsage
        BY <1>1
    <2>2. NoUsage.until = 0 /\ NoUsage.first = 0
        BY DEF NoUsage
    <2>3. Cooled(log, u, 0)
        BY <1>1 DEF Cooled
    <2> QED
        BY <1>1, <1>3, <2>1, <2>2, <2>3 DEF UsageHolds
<1>5. ASSUME NEW w \in Shared PROVE Running(log, now, total[w], Sender, Length[w])
    <2>1. total[w] = [value |-> 0, count |-> 0, start |-> now]
        BY <1>1 DEF Fresh
    <2>2. SinceIn(log, Sender, now) = {} /\ now \in Nat /\ Length[w] \in Nat \ {0}
        BY <1>1, <1>3, LengthPositive, SharedWindows DEF SinceIn
    <2> QED
        BY <1>3, <2>1, <2>2, RunningFresh
<1>6. ASSUME NEW u \in Sender PROVE DaysHeld(log, now, days[u], {u}, Length["daily"])
    <2>1. days[u] = <<>>
        BY <1>1
    <2> QED
        BY <1>3, <2>1 DEF DaysHeld, DaysRight, DaysLast
<1>7. CooldownsIn(log)
    BY <1>1 DEF CooldownsIn
<1> QED
    BY <1>2, <1>3, <1>4, <1>5, <1>6, <1>7 DEF LimiterInv

\* The properties of RateLimiter from the invariant.
LEMMA UsageFollows == ASSUME LimiterInv PROVE UsageIsTransfers
<1>1. Amount = AmountIn(log) /\ \A P : Sum(P) = SumIn(log, P)
    BY DEF Amount, AmountIn, Sum, SumIn
<1>2. \A i \in DOMAIN log : log[i].at \in Nat /\ log[i].at <= now /\ log[i].user \in Sender
    <2>1. log \in Seq(LimiterEvent) /\ \A i \in DOMAIN log : log[i].at <= now
        BY DEF LimiterInv, PastIn
    <2>2. \A i \in DOMAIN log : log[i] \in LimiterEvent
        BY <2>1
    <2> QED
        BY <2>1, <2>2 DEF LimiterEvent
<1>3. ASSUME NEW u \in Sender, usage[u] # NoUsage, NEW w \in Window
      PROVE  Accounts(usage[u].windows[w], Sent(u, usage[u].windows[w].start, now))
    <2> DEFINE x == usage[u].windows[w]
    <2>1. Running(log, now, x, {u}, Length[w])
        BY <1>3 DEF LimiterInv, UsageHolds, Active
    <2>2. x.start \in Nat /\ now \in Nat
        BY <2>1, RunningTyped DEF LimiterInv, LimiterTypes
    <2> HIDE DEF x
    <2>3. Sent(u, x.start, now) = SinceIn(log, {u}, x.start)
        <3>1. \A i \in DOMAIN log : log[i].at \in x.start .. now <=> log[i].at >= x.start
            BY <1>2, <2>2
        <3> QED
            BY <3>1 DEF Sent, IsSent, SinceIn, SentIn
    <2>4. HoldsIn(log, x, SinceIn(log, {u}, x.start))
        BY <2>1 DEF Running
    <2>5. Accounts(x, Sent(u, x.start, now))
        BY <1>1, <2>3, <2>4 DEF Accounts, HoldsIn
    <2> QED
        BY <2>5 DEF x
<1>4. ASSUME NEW w \in Shared
      PROVE  Accounts(total[w], SentByAll(total[w].start))
    <2>1. HoldsIn(log, total[w], SinceIn(log, Sender, total[w].start))
        BY DEF LimiterInv, Running
    <2>2. SentByAll(total[w].start) = SinceIn(log, Sender, total[w].start)
        BY <1>2 DEF SentByAll, SinceIn, SentIn
    <2> QED
        BY <1>1, <2>1, <2>2 DEF Accounts, HoldsIn
<1>5. ASSUME NEW u \in Sender, NEW i \in DOMAIN days[u]
      PROVE  /\ Accounts(days[u][i], SentOn(u, days[u][i].day))
             /\ i > 1 => days[u][i - 1].day < days[u][i].day
    <2>1. DaysRight(log, now, days[u], {u}, Length["daily"])
        BY DEF LimiterInv, DaysHeld
    <2>2. SentOn(u, days[u][i].day) = DayIn(log, {u}, Length["daily"], days[u][i].day)
        BY DEF SentOn, IsSent, DayIn, SentIn
    <2>3. Accounts(days[u][i], SentOn(u, days[u][i].day))
        BY <1>1, <2>1, <2>2 DEF Accounts, HoldsIn, DaysRight
    <2>4. ASSUME i > 1 PROVE days[u][i - 1].day < days[u][i].day
        <3>1. days[u] \in Seq(DayEntry)
            BY <2>1 DEF DaysRight
        <3>2. i - 1 \in DOMAIN days[u] /\ i - 1 < i
            BY <2>4, <3>1
        <3> QED
            BY <2>1, <3>2 DEF DaysRight
    <2> QED
        BY <2>3, <2>4
<1> QED
    BY <1>3, <1>4, <1>5 DEF UsageIsTransfers

LEMMA SpansFollow == ASSUME LimiterInv PROVE SpansAreBounded
<1>1. SUFFICES ASSUME NEW u \in Sender, NEW w \in Window, NEW t \in 0 .. now,
                      Sent(u, t, t + Length[w] - 1) # {}
               PROVE  \E i \in Sent(u, t, t + Length[w] - 1) :
                         Sum(Sent(u, t, t + Length[w] - 1)) <= 2 * log[i].limit[w]
    BY DEF SpansAreBounded
<1> DEFINE len == Length[w]
           span == Sent(u, t, t + len - 1)
<1>2. \A P : Sum(P) = SumIn(log, P)
    BY DEF Amount, AmountIn, Sum, SumIn
<1>3. span = SpanIn(log, u, t, len) /\ SpanIn(log, u, t, len) \in SUBSET SentIn(log, {u})
    BY DEF Sent, IsSent, SentIn, SpanIn
<1>4. PastIn(log, now) /\ now \in Nat /\ UsageHolds(log, now, u, usage[u])
    BY DEF LimiterInv, LimiterTypes
<1>5. usage[u] # NoUsage
    <2>1. SentIn(log, {u}) # {}
        BY <1>1, <1>3
    <2> QED
        BY <1>4, <2>1 DEF UsageHolds
<1>6. Spaced(log, u, w, usage[u].windows[w].start, len)
    BY <1>4, <1>5 DEF UsageHolds, Active
<1>7. len \in Nat \ {0} /\ t \in Nat
    BY <1>4, LengthPositive
<1> HIDE DEF len, span
<1>8. SpanIn(log, u, t, len) # {}
    BY <1>1, <1>3 DEF span, len
<1>9. \E i \in SpanIn(log, u, t, len) :
          SumIn(log, SpanIn(log, u, t, len)) <= 2 * log[i].limit[w]
    BY <1>4, <1>6, <1>7, <1>8, SpanBounded
<1>10. \E i \in span : SumIn(log, span) <= 2 * log[i].limit[w]
    BY <1>3, <1>9
<1> QED
    BY <1>2, <1>10 DEF span, len

LEMMA CheckFollows == ASSUME LimiterInv PROVE CheckAgrees
<1> SUFFICES ASSUME NEW u \in Sender, NEW n \in Values,
                    Open(u), ~ Exceeds(u, n), ~ ExceedsTotal(n)
             PROVE  check_limit(u, n)
    BY DEF CheckAgrees
<1>1. n \in Nat /\ now \in Nat
    <2>1. n \in Nat
        BY LimiterValues
    <2>2. now \in Nat
        BY DEF LimiterInv, LimiterTypes
    <2> QED
        BY <2>1, <2>2
<1>2. effective(u).value \in [Window -> Nat]
    BY EffectiveTyped
<1>3. Decayed(u) \in [Window -> LimiterWindow]
    <2>1. UsageHolds(log, now, u, usage[u]) /\ PastIn(log, now)
        BY DEF LimiterInv
    <2>2. Active(log, now, u, Started(usage[u], now).windows)
        BY <1>1, <2>1, StartedActive
    <2> QED
        BY <1>1, <2>1, <2>2, DecayedActive, DecayedIs
<1> DEFINE d == Decayed(u)
           limit == effective(u).value
           most == effective(u).count["daily"]
<1>4. ASSUME NEW w \in Window PROVE n <= limit[w] - d[w].value
    <2>1. ~ (d[w].value + n > limit[w])
        BY DEF Exceeds
    <2>2. d[w].value \in Nat /\ limit[w] \in Nat
        <3>1. d[w] \in LimiterWindow
            BY <1>3
        <3>2. d[w].value \in Nat
            BY <3>1 DEF LimiterWindow
        <3> QED
            BY <1>2, <3>2
    <2> HIDE DEF d, limit
    <2> QED
        BY <1>1, <2>1, <2>2
<1>5. d["daily"].count < most
    <2>1. ~ (d["daily"].count + 1 > most)
        BY SharedWindows DEF Exceeds
    <2>2. d["daily"].count \in Nat /\ most \in Nat
        <3>1. d["daily"] \in LimiterWindow
            BY <1>3, SharedWindows
        <3>2. d["daily"].count \in Nat
            BY <3>1 DEF LimiterWindow
        <3>3. most \in Nat
            BY EffectiveCount, SharedWindows
        <3> QED
            BY <3>2, <3>3
    <2> HIDE DEF d, most
    <2> QED
        BY <2>1, <2>2
<1> QED
    BY <1>4, <1>5 DEF check_limit

\* Usage and histories are the transfers made, over breaches, decays and
\* changed limits; no span as long as a window has more than twice the highest
\* limit in force; cooldowns hold; and consume_limit takes what check_limit
\* allows: for every value of the constants.
THEOREM LimiterSoundHolds == LimiterSpec => []LimiterSound
<1>1. ClockInit /\ LimiterInit => LimiterInv
    BY LimiterStart
<1>2. LimiterInv /\ [LimiterNext \/ (Tick /\ UNCHANGED limiterVars)]_<<now, limiterVars>>
        => LimiterInv'
    BY LimiterStep
<1>3. LimiterInv => LimiterSound
    <2> SUFFICES ASSUME LimiterInv PROVE LimiterSound
        OBVIOUS
    <2>1. CooldownsHold
        BY DEF LimiterInv, CooldownsIn, CooldownsHold
    <2> QED
        BY <2>1, UsageFollows, SpansFollow, CheckFollows DEF LimiterSound
<1> QED
    BY <1>1, <1>2, <1>3, PTL DEF LimiterSpec
=============================================================================
