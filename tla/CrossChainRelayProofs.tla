------------------------ MODULE CrossChainRelayProofs ------------------------
(***************************************************************************)
(* TypeOK, QueueSound, DeliveriesAgree and ClosedForGood of the relay, for *)
(* every number of senders, operators, chains, messages and batch items.   *)
(*                                                                         *)
(* FullInv is inductive.  Every operation is one of three kinds of step    *)
(* for the rest of the proof: it sends a message, it relays one, or it is  *)
(* Quiet, that is it sends and relays nothing but may verify, age or       *)
(* expire messages.  The queue after a step is what is left of it when     *)
(* some positions are kept (QueueThinned), or it has one message more, at  *)
(* the place QueuePosition gives (QueueSent); the accounts follow the sets *)
(* of relayed and of ended messages.                                       *)
(***************************************************************************)
EXTENDS CrossChainRelay, FiniteSums

-----------------------------------------------------------------------------
(* Sequences.                                                              *)

\* Putting an element in at a position.
\* Concatenation, in the form the lemmas on positions need.
LEMMA Joined ==
    ASSUME NEW T, NEW a \in Seq(T), NEW b \in Seq(T), NEW m \in Nat, NEW n \in Nat,
           Len(a) = m, Len(b) = n
    PROVE  /\ a \o b \in Seq(T)
           /\ Len(a \o b) = m + n
           /\ \A i \in 1..m : (a \o b)[i] = a[i]
           /\ \A i \in 1..n : (a \o b)[m + i] = b[i]
<1>1. a \o b \in Seq(T)
  OBVIOUS
<1>2. Len(a \o b) = m + n
  OBVIOUS
<1>3. ASSUME NEW i \in 1..m PROVE (a \o b)[i] = a[i]
  OBVIOUS
<1>4. ASSUME NEW i \in 1..n PROVE (a \o b)[m + i] = b[i]
  OBVIOUS
<1> QED
  BY <1>1, <1>2, <1>3, <1>4

LEMMA JoinedAfter ==
    ASSUME NEW T, NEW a \in Seq(T), NEW b \in Seq(T), NEW k \in 1..Len(b)
    PROVE  (a \o b)[Len(a) + k] = b[k]
<1>1. Len(a) \in Nat /\ Len(b) \in Nat
  OBVIOUS
<1> QED
  BY <1>1, Joined

LEMMA Inserted ==
    ASSUME NEW T, NEW s \in Seq(T), NEW e \in T, NEW p \in 1..(Len(s) + 1)
    PROVE  /\ InsertAt(s, p, e) \in Seq(T)
           /\ Len(InsertAt(s, p, e)) = Len(s) + 1
           /\ \A i \in 1..(Len(s) + 1) : InsertAt(s, p, e)[i] =
                 IF i < p THEN s[i] ELSE IF i = p THEN e ELSE s[i - 1]
<1> DEFINE a == SubSeq(s, 1, p - 1)
           b == SubSeq(s, p, Len(s))
<1>0. Len(s) \in Nat /\ p \in Nat /\ p - 1 \in Nat /\ Len(s) - p + 1 \in Nat
  OBVIOUS
<1>1. a \in Seq(T) /\ Len(a) = p - 1 /\ \A i \in 1..(p - 1) : a[i] = s[i]
  OBVIOUS
<1>2. b \in Seq(T) /\ Len(b) = Len(s) - p + 1
      /\ \A i \in 1..(Len(s) - p + 1) : b[i] = s[p + i - 1]
  OBVIOUS
<1> HIDE DEF a, b
<1>3. InsertAt(s, p, e) = a \o <<e>> \o b
  BY DEF InsertAt, a, b
<1>4. <<e>> \in Seq(T) /\ Len(<<e>>) = 1 /\ <<e>>[1] = e
  OBVIOUS
<1> DEFINE c == a \o <<e>>
<1>5. c \in Seq(T) /\ Len(c) = p /\ c[p] = e /\ \A i \in 1..(p - 1) : c[i] = s[i]
  BY <1>1, <1>4
<1> HIDE DEF c
<1>6. c \o b \in Seq(T) /\ Len(c \o b) = Len(s) + 1
  BY <1>0, <1>2, <1>5, Joined
<1>7. ASSUME NEW i \in 1..(Len(s) + 1)
      PROVE  (c \o b)[i] = IF i < p THEN s[i] ELSE IF i = p THEN e ELSE s[i - 1]
  <2>1. CASE i <= p
    <3>1. i \in 1..p /\ (c \o b)[i] = c[i]
      BY <1>0, <1>2, <1>5, <2>1, Joined
    <3> QED
      BY <1>0, <1>5, <2>1, <3>1
  <2>2. CASE i > p
    <3> DEFINE k == i - p
    <3>1. k \in 1..(Len(s) - p + 1) /\ i = p + k
      BY <1>0, <2>2
    <3> HIDE DEF k
    <3>2. (c \o b)[p + k] = b[k] /\ b[k] = s[p + k - 1]
      BY <1>0, <1>2, <1>5, <3>1, Joined
    <3>3. p + k - 1 = i - 1 /\ ~ (i < p) /\ i # p
      BY <1>0, <2>2, <3>1
    <3> QED
      BY <3>1, <3>2, <3>3
  <2> QED
    <3>1. i \in Int
      BY <1>0
    <3>2. i <= p \/ i > p
      BY <1>0, <3>1
    <3> QED
      BY <2>1, <2>2, <3>2, Zenon
<1> QED
  BY <1>3, <1>6, <1>7 DEF c

\* Taking the element at a position out.
LEMMA TakenOut ==
    ASSUME NEW T, NEW s \in Seq(T), NEW p \in 1..Len(s)
    PROVE  /\ RemoveAt(s, p) \in Seq(T)
           /\ Len(RemoveAt(s, p)) = Len(s) - 1
           /\ \A i \in 1..(Len(s) - 1) : RemoveAt(s, p)[i] =
                 IF i < p THEN s[i] ELSE s[i + 1]
<1> DEFINE a == SubSeq(s, 1, p - 1)
           b == SubSeq(s, p + 1, Len(s))
<1>0. Len(s) \in Nat /\ p \in Nat /\ p - 1 \in Nat /\ Len(s) - p \in Nat
  OBVIOUS
<1>1. a \in Seq(T) /\ Len(a) = p - 1 /\ \A i \in 1..(p - 1) : a[i] = s[i]
  OBVIOUS
<1>2. b \in Seq(T) /\ Len(b) = Len(s) - p
      /\ \A i \in 1..(Len(s) - p) : b[i] = s[p + i]
  OBVIOUS
<1> HIDE DEF a, b
<1>3. RemoveAt(s, p) = a \o b
  BY DEF RemoveAt, a, b
<1>4. a \o b \in Seq(T) /\ Len(a \o b) = Len(s) - 1
  <2>1. a \o b \in Seq(T) /\ Len(a \o b) = (p - 1) + (Len(s) - p)
    <3> DEFINE m == p - 1
               n == Len(s) - p
    <3>1. m \in Nat /\ n \in Nat /\ Len(a) = m /\ Len(b) = n
      BY <1>0, <1>1, <1>2
    <3> HIDE DEF m, n
    <3>2. a \o b \in Seq(T) /\ Len(a \o b) = m + n
      BY <1>1, <1>2, <3>1, Joined
    <3> QED
      BY <1>0, <3>2 DEF m, n
  <2> QED
    BY <1>0, <2>1
<1>5. ASSUME NEW i \in 1..(Len(s) - 1)
      PROVE  (a \o b)[i] = IF i < p THEN s[i] ELSE s[i + 1]
  <2>1. CASE i < p
    <3>1. i \in 1..(p - 1) /\ (a \o b)[i] = a[i]
      BY <1>0, <1>1, <1>2, <2>1, Joined
    <3> QED
      BY <1>1, <2>1, <3>1
  <2>2. CASE i >= p
    <3> DEFINE k == i - (p - 1)
    <3>1. k \in 1..(Len(s) - p) /\ i = p - 1 + k
      BY <1>0, <2>2
    <3> HIDE DEF k
    <3>2. (a \o b)[p - 1 + k] = b[k] /\ b[k] = s[p + k]
      <4>1. k \in 1..Len(b) /\ b[k] = s[p + k] /\ Len(a) = p - 1
        BY <1>1, <1>2, <3>1
      <4>2. (a \o b)[Len(a) + k] = b[k]
        BY <1>1, <1>2, <4>1, JoinedAfter
      <4> QED
        BY <4>1, <4>2
    <3>3. p + k = i + 1 /\ ~ (i < p)
      BY <1>0, <2>2, <3>1
    <3> QED
      BY <3>1, <3>2, <3>3
  <2> QED
    <3>1. i \in Int
      BY <1>0
    <3>2. i < p \/ i >= p
      BY <1>0, <3>1
    <3> QED
      BY <2>1, <2>2, <3>2, Zenon
<1> QED
  BY <1>3, <1>4, <1>5

\* A set of positions has a first one.
LEMMA FirstPosition ==
    ASSUME NEW n \in Nat, NEW S \in SUBSET (1..n), S # {}
    PROVE  /\ Min(S) \in S
           /\ \A i \in S : Min(S) <= i
<1> DEFINE P == {T \in SUBSET (1..n) : T # {} => \E i \in T : \A j \in T : i <= j}
<1>1. IsFiniteSet(1..n)
  BY FS_Interval
<1>2. ASSUME NEW T \in SUBSET (1..n), \A i \in T : T \ {i} \in P
      PROVE  T \in P
  <2> SUFFICES ASSUME T # {} PROVE \E i \in T : \A j \in T : i <= j
    OBVIOUS
  <2>1. PICK i \in T : TRUE
    OBVIOUS
  <2>2. CASE T \ {i} = {}
    BY <2>1, <2>2
  <2>3. CASE T \ {i} # {}
    <3>1. PICK k \in T \ {i} : \A j \in T \ {i} : k <= j
      BY <1>2, <2>1, <2>3
    <3> QED
      BY <2>1, <3>1
  <2> QED
    BY <2>2, <2>3
<1> HIDE DEF P
<1>3. P = SUBSET (1..n)
  <2>1. P \in SUBSET SUBSET (1..n)
    BY DEF P
  <2> QED
    BY <1>1, <1>2, <2>1, SubsetInduction
<1>4. \E i \in S : \A j \in S : i <= j
  BY <1>3 DEF P
<1> QED
  BY <1>4 DEF Min

\* What Ascending enumerates.
Enumerates(f, S) ==
    /\ f \in [1..Cardinality(S) -> S]
    /\ \A i, j \in 1..Cardinality(S) : i < j => f[i] < f[j]

\* ... or a last one.
LEMMA LastPosition ==
    ASSUME NEW n \in Nat, NEW S \in SUBSET (1..n), S # {}
    PROVE  \E i \in S : \A j \in S : j <= i
<1> DEFINE R == {i \in 1..n : n + 1 - i \in S}
<1>1. ASSUME NEW i \in S PROVE n + 1 - i \in R
  <2>1. i \in 1..n /\ n + 1 - i \in 1..n /\ n + 1 - (n + 1 - i) = i
    OBVIOUS
  <2> QED
    BY <2>1
<1>2. R # {} /\ R \in SUBSET (1..n)
  BY <1>1
<1> HIDE DEF R
<1>3. PICK k \in R : \A j \in R : k <= j
  BY <1>2, FirstPosition
<1>4. k \in 1..n /\ n + 1 - k \in S
  BY DEF R
<1>5. ASSUME NEW j \in S PROVE j <= n + 1 - k
  <2>1. k <= n + 1 - j
    BY <1>1, <1>3
  <2> QED
    BY <1>4, <2>1
<1> QED
  BY <1>4, <1>5

LEMMA Enumerable ==
    ASSUME NEW n \in Nat, NEW S \in SUBSET (1..n)
    PROVE  \E f : Enumerates(f, S)
<1> DEFINE P == {T \in SUBSET (1..n) : \E f : Enumerates(f, T)}
<1>1. IsFiniteSet(1..n)
  BY FS_Interval
<1>2. ASSUME NEW T \in SUBSET (1..n), \A i \in T : T \ {i} \in P
      PROVE  T \in P
  <2>1. CASE T = {}
    <3>1. Cardinality(T) = 0
      BY <2>1, FS_EmptySet
    <3>2. Enumerates([i \in 1..0 |-> 0], T)
      BY <3>1 DEF Enumerates
    <3> QED
      BY <3>2
  <2>2. CASE T # {}
    <3>1. PICK x \in T : \A j \in T : j <= x
      BY <2>2, LastPosition
    <3> DEFINE U == T \ {x}
               m == Cardinality(U)
    <3>2. PICK g : Enumerates(g, U)
      BY <1>2, <3>1
    <3>3. m \in Nat /\ Cardinality(T) = m + 1
      <4>1. IsFiniteSet(T)
        BY <1>1, FS_Subset
      <4>2. IsFiniteSet(U) /\ Cardinality(U) = Cardinality(T) - 1
        BY <4>1, <3>1, FS_RemoveElement
      <4>3. Cardinality(T) \in Nat /\ Cardinality(U) \in Nat
        BY <4>1, <4>2, FS_CardinalityType
      <4> QED
        BY <4>2, <4>3
    <3> DEFINE f == [i \in 1..(m + 1) |-> IF i = m + 1 THEN x ELSE g[i]]
    <3>4. ASSUME NEW i \in U PROVE i < x
      BY <3>1, <3>4
    <3>5. U \subseteq T
      OBVIOUS
    <3> HIDE DEF m, U
    <3>6. g \in [1..m -> U] /\ \A i, j \in 1..m : i < j => g[i] < g[j]
      BY <3>2 DEF Enumerates, m
    <3>7. f \in [1..(m + 1) -> T]
      <4>1. ASSUME NEW i \in 1..(m + 1) PROVE f[i] \in T
        <5>1. CASE i = m + 1
          BY <5>1, <3>1
        <5>2. CASE i # m + 1
          <6>1. i \in 1..m
            BY <3>3, <5>2
          <6> QED
            BY <6>1, <5>2, <3>5, <3>6
        <5> QED
          BY <5>1, <5>2
      <4> QED
        BY <4>1
    <3>8. ASSUME NEW i \in 1..(m + 1), NEW j \in 1..(m + 1), i < j
          PROVE  f[i] < f[j]
      <4>1. i \in 1..m /\ f[i] = g[i]
        BY <3>3, <3>8
      <4>2. CASE j = m + 1
        BY <3>4, <3>6, <4>1, <4>2
      <4>3. CASE j # m + 1
        <5>1. j \in 1..m /\ f[j] = g[j]
          BY <3>3, <4>3
        <5> QED
          BY <3>6, <3>8, <4>1, <5>1
      <4> QED
        BY <4>2, <4>3
    <3> HIDE DEF f
    <3>9. Enumerates(f, T)
      BY <3>3, <3>7, <3>8 DEF Enumerates
    <3> QED
      BY <3>9
  <2> QED
    BY <2>1, <2>2
<1> HIDE DEF P
<1>3. P = SUBSET (1..n)
  <2>1. P \in SUBSET SUBSET (1..n)
    BY DEF P
  <2> QED
    BY <1>1, <1>2, <2>1, SubsetInduction
<1> QED
  BY <1>3 DEF P

LEMMA AscendingIs ==
    ASSUME NEW n \in Nat, NEW S \in SUBSET (1..n)
    PROVE  /\ Cardinality(S) \in Nat
           /\ Enumerates(Ascending(S), S)
           /\ \A x \in S : \E i \in 1..Cardinality(S) : Ascending(S)[i] = x
<1> DEFINE f == Ascending(S)
           m == Cardinality(S)
<1>0. IsFiniteSet(1..n)
  BY FS_Interval
<1>1. IsFiniteSet(S) /\ m \in Nat
  BY <1>0, FS_Subset, FS_CardinalityType
<1>2. Enumerates(f, S)
  <2>1. PICK g : Enumerates(g, S)
    BY Enumerable
  <2> QED
    BY <2>1 DEF Enumerates, Ascending
<1>3. IsFiniteSet(1..m) /\ Cardinality(1..m) = m
  BY <1>1, FS_Interval
<1>4. f \in [1..m -> S] /\ \A i, j \in 1..m : i < j => f[i] < f[j]
  BY <1>2 DEF Enumerates
<1> HIDE DEF f, m
<1>5. ASSUME NEW i \in 1..m, NEW j \in 1..m, f[i] = f[j] PROVE i = j
  <2>1. f[i] \in Int /\ f[j] \in Int
    <3>1. f[i] \in S /\ f[j] \in S
      BY <1>4
    <3>2. \A x \in S : x \in Int
      OBVIOUS
    <3> QED
      BY <3>1, <3>2
  <2>2. ~ (f[i] < f[j]) /\ ~ (f[j] < f[i])
    BY <1>5, <2>1
  <2>3. ~ (i < j) /\ ~ (j < i)
    BY <1>4, <2>2
  <2> QED
    BY <1>1, <2>3
<1>6. f \in Injection(1..m, S)
  BY <1>4, <1>5 DEF Injection, IsInjective
<1>7. f \in Surjection(1..m, S)
  BY <1>1, <1>3, <1>6, FS_Injection DEF m
<1>8. \A x \in S : \E i \in 1..m : f[i] = x
  BY <1>7 DEF Surjection
<1> QED
  BY <1>1, <1>2, <1>8 DEF f, m

-----------------------------------------------------------------------------
(* Messages.                                                               *)

RelayInv == message \in Seq(Message) /\ nonce \in [Sender -> Nat]

LEMMA RelayInit == Init => RelayInv
BY DEF Init, RelayInv

\* What one step may do to one message.
Kept(m, n) ==
    /\ m.status \notin Open => n.status \notin Open
    /\ m.status \in Open /\ n.status = "Expired" => m.left = 0
    /\ m.status \in Open /\ n.status = "Relayed" => m.left # 0
    /\ n.priority = m.priority

AllKept == \A id \in Ids : Kept(message[id], message'[id])

\* A step that sends nothing and relays nothing.
Quiet ==
    /\ Ids' = Ids
    /\ \A id \in Ids : message'[id].status = "Relayed" => message[id].status = "Relayed"

\* A step that relays one message.
Delivered(id) ==
    /\ id \in Ids
    /\ Ids' = Ids
    /\ message[id].status \in Open
    /\ message'[id].status = "Relayed"
    /\ \A i \in Ids : i # id => message'[i] = message[i]

LEMMA NothingWritten ==
    ASSUME RelayInv, message' = message, nonce' = nonce
    PROVE  RelayInv' /\ AllKept /\ Quiet
BY DEF RelayInv, AllKept, Kept, Quiet, Ids, Open

\* Giving one message a status.
LEMMA StatusWritten ==
    ASSUME RelayInv, NEW id \in Ids, NEW s \in MessageStatus, WithStatus(id, s)
    PROVE  /\ message' \in Seq(Message)
           /\ Ids' = Ids
           /\ \A i \in Ids : i # id => message'[i] = message[i]
           /\ message'[id].status = s
           /\ message'[id].priority = message[id].priority
<1> DEFINE new == [message[id] EXCEPT !.status = s]
<1>1. message \in Seq(Message) /\ id \in DOMAIN message
  BY DEF RelayInv, Ids
<1>2. message[id] \in Message
  BY <1>1
<1>3. new \in Message /\ new.status = s /\ new.priority = message[id].priority
  BY <1>2 DEF Message
<1>4. message' = [message EXCEPT ![id] = new]
  BY DEF WithStatus
<1> HIDE DEF new
<1>5. /\ message' \in Seq(Message) /\ message'[id] = new
      /\ \A i \in DOMAIN message : i # id => message'[i] = message[i]
      /\ DOMAIN message' = DOMAIN message
  BY <1>1, <1>3, <1>4
<1>6. Ids' = Ids /\ \A i \in Ids : i # id => message'[i] = message[i]
  BY <1>5 DEF Ids
<1>7. message'[id].status = s /\ message'[id].priority = message[id].priority
  BY <1>3, <1>5
<1> QED
  BY <1>5, <1>6, <1>7

LEMMA AdminStep ==
    ASSUME RelayInv, Admin
    PROVE  RelayInv' /\ AllKept /\ Quiet
<1>1. UNCHANGED <<message, nonce>>
  BY DEF Admin, configure_chain, register_relay_operator, deactivate_relay_operator
<1> QED
  BY <1>1, NothingWritten

LEMMA SendStep ==
    ASSUME RelayInv, NEW s \in Sender, NEW source \in Chain, NEW dest \in Chain,
           NEW priority \in Priority, NEW ttl \in TtlOverrides,
           send_message(s, source, dest, priority, ttl)
    PROVE  RelayInv' /\ AllKept
<1> DEFINE new == [sender |-> s, nonce |-> nonce[s], source |-> source, dest |-> dest,
                   priority |-> priority, status |-> "Pending",
                   left |-> IF ttl = 0 THEN DefaultTtl ELSE ttl]
<1>1. message' = Append(message, new) /\ nonce' = [nonce EXCEPT ![s] = @ + 1]
  BY DEF send_message
<1>2. (IF ttl = 0 THEN DefaultTtl ELSE ttl) \in Nat /\ nonce[s] \in Nat
  BY RelayAssumption DEF RelayInv
<1>3. new \in Message
  BY <1>2 DEF Message, MessageStatus
<1> HIDE DEF new
<1>4. RelayInv'
  BY <1>1, <1>3 DEF RelayInv
<1>5. \A id \in Ids : message'[id] = message[id]
  BY <1>1, <1>3 DEF RelayInv, Ids
<1> QED
  BY <1>4, <1>5 DEF AllKept, Kept, Open

LEMMA VerifyStep ==
    ASSUME RelayInv, NEW id \in Ids, NEW proof, verify_message(id, proof)
    PROVE  RelayInv' /\ AllKept /\ Quiet
<1>1. message[id].status = "Pending" /\ WithStatus(id, "Verified") /\ nonce' = nonce
  BY DEF verify_message
<1>2. /\ message' \in Seq(Message) /\ message'[id].status = "Verified"
      /\ Ids' = Ids /\ message'[id].priority = message[id].priority
      /\ \A i \in Ids : i # id => message'[i] = message[i]
  BY <1>1, StatusWritten DEF MessageStatus
<1> QED
  BY <1>1, <1>2 DEF RelayInv, AllKept, Kept, Open, Quiet

LEMMA DeliverStep ==
    ASSUME RelayInv, NEW op, NEW id, NEW good, Relays(op, id, good), Deliver(op, id),
           nonce' = nonce
    PROVE  RelayInv' /\ AllKept /\ Delivered(id)
<1>1. id \in Ids /\ message[id].left # 0 /\ message[id].status \in Open
  BY DEF Relays, is_expired, IsOpen
<1>2. WithStatus(id, "Relayed")
  BY DEF Deliver
<1>3. /\ message' \in Seq(Message) /\ message'[id].status = "Relayed"
      /\ Ids' = Ids /\ message'[id].priority = message[id].priority
      /\ \A i \in Ids : i # id => message'[i] = message[i]
  BY <1>1, <1>2, StatusWritten DEF MessageStatus
<1> QED
  BY <1>1, <1>3 DEF RelayInv, AllKept, Kept, Open, Delivered

\* An item of a batch is relayed, or at most marked expired.
BatchDelivers == Relays(batch.caller, Head(batch.items).id, Head(batch.items).good)
                 /\ Deliver(batch.caller, Head(batch.items).id)

BatchDeliversNot ==
    /\ UNCHANGED <<messagesRelayed, queue, totalRelayed>>
    /\ \/ MarksExpired(batch.caller, Head(batch.items).id)
          /\ WithStatus(Head(batch.items).id, "Expired")
       \/ message' = message

LEMMA BatchCases ==
    ASSUME BatchIteration
    PROVE  BatchDelivers \/ BatchDeliversNot
BY DEF BatchIteration, BatchDelivers, BatchDeliversNot

LEMMA BatchStep ==
    ASSUME RelayInv, BatchDeliversNot, nonce' = nonce
    PROVE  RelayInv' /\ AllKept /\ Quiet
<1> DEFINE op == batch.caller
           item == Head(batch.items)
<1>1. CASE MarksExpired(op, item.id) /\ WithStatus(item.id, "Expired")
  <2>1. item.id \in Ids /\ message[item.id].left = 0
    BY <1>1 DEF MarksExpired, is_expired
  <2> HIDE DEF item
  <2>2. /\ message' \in Seq(Message) /\ message'[item.id].status = "Expired"
        /\ Ids' = Ids /\ message'[item.id].priority = message[item.id].priority
        /\ \A i \in Ids : i # item.id => message'[i] = message[i]
    BY <1>1, <2>1, StatusWritten DEF MessageStatus
  <2> QED
    BY <2>1, <2>2 DEF RelayInv, AllKept, Kept, Open, Quiet
<1>2. CASE message' = message
  BY <1>2, NothingWritten
<1> QED
  BY <1>1, <1>2 DEF BatchDeliversNot

LEMMA CleanupStep ==
    ASSUME RelayInv, NEW n, cleanup_expired_messages(n)
    PROVE  RelayInv' /\ AllKept /\ Quiet
           /\ \A id \in Ids \cap CleanedIds(n) : message'[id].status \notin Open
<1> DEFINE cleaned == CleanedIds(n)
           New(id) == IF id \in cleaned /\ IsOpen(id)
                      THEN [message[id] EXCEPT !.status = "Expired"] ELSE message[id]
<1>1. nonce' = nonce /\ message' = [id \in Ids |-> New(id)]
  BY DEF cleanup_expired_messages
<1>2. ASSUME NEW id \in cleaned PROVE IsOpen(id) => message[id].left = 0
  BY DEF CleanedIds, Removable, is_expired
<1>3. ASSUME NEW id \in Ids 
      PROVE  /\ New(id) \in Message /\ Kept(message[id], New(id))
             /\ New(id).status = "Relayed" => message[id].status = "Relayed"
             /\ id \in cleaned => New(id).status \notin Open
  <2>1. message[id] \in Message
    BY DEF RelayInv, Ids
  <2> HIDE DEF cleaned
  <2> QED
    BY <1>2, <2>1 DEF Message, MessageStatus, Kept, IsOpen, Open
<1> HIDE DEF New
<1>4. message' \in Seq(Message) /\ Ids' = Ids
  BY <1>1, <1>3 DEF RelayInv, Ids
<1> HIDE DEF cleaned
<1>5. RelayInv' /\ AllKept /\ Quiet /\ \A id \in Ids \cap cleaned : message'[id].status \notin Open
  BY <1>1, <1>3, <1>4 DEF RelayInv, AllKept, Quiet
<1> QED
  BY <1>5 DEF cleaned

LEMMA TickStep ==
    ASSUME RelayInv, Tick
    PROVE  RelayInv' /\ AllKept /\ Quiet
<1> DEFINE Older(id) == [message[id] EXCEPT !.left = IF @ > 0 THEN @ - 1 ELSE 0]
<1>1. nonce' = nonce /\ message' = [id \in Ids |-> Older(id)]
  BY DEF Tick
<1>2. ASSUME NEW id \in Ids
      PROVE  Older(id) \in Message /\ Older(id).status = message[id].status
             /\ Older(id).priority = message[id].priority
  <2>1. message[id] \in Message
    BY DEF RelayInv, Ids
  <2> QED
    BY <2>1 DEF Message
<1>3. ASSUME NEW id \in Ids PROVE Kept(message[id], Older(id))
  BY <1>2 DEF Kept, Open
<1> HIDE DEF Older
<1>4. message' \in Seq(Message) /\ Ids' = Ids
  BY <1>1, <1>2 DEF RelayInv, Ids
<1> QED
  BY <1>1, <1>2, <1>3, <1>4 DEF RelayInv, AllKept, Quiet

-----------------------------------------------------------------------------
(* The queue.                                                              *)

QueueInv ==
    /\ message \in Seq(Message)
    /\ queue \in Seq(Ids)
    /\ QueueSound

\* A step that sends nothing: messages keep their priority, and a closed one
\* stays closed.
Stays(m, n) ==
    /\ n.priority = m.priority
    /\ n.status \in Open => m.status \in Open

MessagesStay ==
    /\ message' \in Seq(Message)
    /\ Ids' = Ids
    /\ \A id \in Ids : Stays(message[id], message'[id])

\* The queue that is left when the positions f are kept.
Thinned(f, m) ==
    /\ f \in [1..m -> 1..Len(queue)]
    /\ \A i, j \in 1..m : i < j => f[i] < f[j]
    /\ queue' \in Seq(Ids)
    /\ Len(queue') = m
    /\ \A i \in 1..m : queue'[i] = queue[f[i]]

LEMMA QueueIds ==
    ASSUME QueueInv
    PROVE  Len(queue) \in Nat /\ \A i \in 1..Len(queue) : queue[i] \in Ids
BY DEF QueueInv

\* Taking out of the queue messages that are no longer open leaves it sound.
LEMMA QueueThinned ==
    ASSUME QueueInv, MessagesStay, NEW m \in Nat, NEW f, Thinned(f, m),
           \A i \in 1..m : message'[queue[f[i]]].status # "Relayed",
           \A k \in 1..Len(queue) :
              message'[queue[k]].status \in Open => \E i \in 1..m : f[i] = k
    PROVE  QueueInv'
<1>1. /\ f \in [1..m -> 1..Len(queue)]
      /\ \A i, j \in 1..m : i < j => f[i] < f[j]
      /\ queue' \in Seq(Ids) /\ Len(queue') = m
      /\ \A i \in 1..m : queue'[i] = queue[f[i]]
  BY DEF Thinned
<1>2. /\ message' \in Seq(Message) /\ Ids' = Ids
      /\ \A id \in Ids : message'[id].priority = message[id].priority
      /\ \A id \in Ids : message'[id].status \in Open => message[id].status \in Open
  BY DEF MessagesStay, Stays
<1>3. QueueOrdered'
  <2> SUFFICES ASSUME NEW i \in 1..m, NEW j \in 1..m, i < j
               PROVE  \/ message'[queue'[i]].priority < message'[queue'[j]].priority
                      \/ /\ message'[queue'[i]].priority = message'[queue'[j]].priority
                         /\ queue'[i] < queue'[j]
    BY <1>1 DEF QueueOrdered
  <2>1. f[i] \in 1..Len(queue) /\ f[j] \in 1..Len(queue) /\ f[i] < f[j]
    BY <1>1
  <2>2. queue[f[i]] \in Ids /\ queue[f[j]] \in Ids
    BY <2>1, QueueIds
  <2>3. \/ message[queue[f[i]]].priority < message[queue[f[j]]].priority
        \/ /\ message[queue[f[i]]].priority = message[queue[f[j]]].priority
           /\ queue[f[i]] < queue[f[j]]
    BY <2>1 DEF QueueInv, QueueSound, QueueOrdered
  <2>4. queue'[i] = queue[f[i]] /\ queue'[j] = queue[f[j]]
    BY <1>1
  <2> QED
    BY <1>2, <2>2, <2>3, <2>4
<1>4. ASSUME NEW i \in 1..m, NEW j \in 1..m, queue'[i] = queue'[j] PROVE i = j
  <2>1. f[i] \in 1..Len(queue) /\ f[j] \in 1..Len(queue) /\ queue[f[i]] = queue[f[j]]
    BY <1>1, <1>4
  <2>2. f[i] = f[j]
    BY <2>1 DEF QueueInv, QueueSound, QueueIsBacklog
  <2>3. Len(queue) \in Nat
    BY QueueIds
  <2> QED
    BY <1>1, <2>1, <2>2, <2>3
<1>5. ASSUME NEW id \in Ids, message'[id].status \in Open
      PROVE  \E i \in 1..m : queue'[i] = id
  <2>1. message[id].status \in Open
    BY <1>2, <1>5
  <2>2. PICK k \in 1..Len(queue) : queue[k] = id
    BY <2>1 DEF QueueInv, QueueSound, QueueIsBacklog, IsOpen
  <2>3. PICK i \in 1..m : f[i] = k
    BY <1>5, <2>2
  <2>4. queue'[i] = queue[f[i]]
    BY <1>1
  <2> QED
    BY <2>2, <2>3, <2>4
<1>6. ASSUME NEW i \in 1..m PROVE message'[queue'[i]].status # "Relayed"
  BY <1>1
<1>7. QueueIsBacklog'
  BY <1>1, <1>2, <1>4, <1>5, <1>6 DEF QueueIsBacklog, IsOpen
<1> QED
  BY <1>1, <1>2, <1>3, <1>7 DEF QueueInv, QueueSound

\* The queue stays and nothing is relayed.
LEMMA QueueQuiet ==
    ASSUME QueueInv, MessagesStay, queue' = queue,
           \A id \in Ids : message'[id].status = "Relayed" => message[id].status = "Relayed"
    PROVE  QueueInv'
<1> DEFINE m == Len(queue)
           f == [i \in 1..m |-> i]
<1>1. m \in Nat /\ \A i \in 1..m : queue[i] \in Ids
  BY QueueIds
<1>2. Thinned(f, m)
  BY DEF Thinned, QueueInv
<1>3. \A i \in 1..m : message'[queue[i]].status # "Relayed"
  BY <1>1 DEF QueueInv, QueueSound, QueueIsBacklog
<1>4. /\ \A i \in 1..m : message'[queue[f[i]]].status # "Relayed"
      /\ \A k \in 1..m : \E i \in 1..m : f[i] = k
  BY <1>3
<1> HIDE DEF f
<1> QED
  BY <1>1, <1>2, <1>4, QueueThinned

\* Cleanup takes out messages that are not open any more.
LEMMA QueueCleaned ==
    ASSUME QueueInv, MessagesStay, NEW ids, queue' = QueueWithout(ids),
           \A id \in Ids \cap ids : message'[id].status \notin Open,
           \A id \in Ids : message'[id].status = "Relayed" => message[id].status = "Relayed"
    PROVE  QueueInv'
<1> DEFINE K == {i \in 1..Len(queue) : queue[i] \notin ids}
           m == Cardinality(K)
           f == Ascending(K)
<1>1. Len(queue) \in Nat /\ \A i \in 1..Len(queue) : queue[i] \in Ids
  BY QueueIds
<1>2. K \in SUBSET (1..Len(queue))
  OBVIOUS
<1> HIDE DEF K
<1>3. m \in Nat /\ Enumerates(f, K) /\ \A x \in K : \E i \in 1..m : f[i] = x
  BY <1>1, <1>2, AscendingIs
<1>4. queue' = [i \in DOMAIN f |-> queue[f[i]]]
  BY DEF QueueWithout, K
<1> HIDE DEF m, f
<1>5. /\ f \in [1..m -> K] /\ DOMAIN f = 1..m
      /\ \A i, j \in 1..m : i < j => f[i] < f[j]
  BY <1>3 DEF Enumerates, m
<1>6. \A i \in 1..m : f[i] \in K /\ f[i] \in 1..Len(queue)
  BY <1>2, <1>5
<1>7. queue' \in [1..m -> Ids] /\ \A i \in 1..m : queue'[i] = queue[f[i]]
  BY <1>1, <1>4, <1>5, <1>6
<1>8. queue' \in Seq(Ids) /\ Len(queue') = m
  BY <1>3, <1>7
<1>9. Thinned(f, m)
  BY <1>5, <1>6, <1>7, <1>8 DEF Thinned
<1>10. \A i \in 1..m : message'[queue[f[i]]].status # "Relayed"
  BY <1>1, <1>6 DEF QueueInv, QueueSound, QueueIsBacklog
<1>11. ASSUME NEW k \in 1..Len(queue), message'[queue[k]].status \in Open
       PROVE  \E i \in 1..m : f[i] = k
  <2>1. k \in K
    BY <1>1, <1>11 DEF K
  <2> QED
    BY <1>3, <2>1
<1> QED
  BY <1>3, <1>9, <1>10, <1>11, QueueThinned

\* A relayed message is taken out.
LEMMA QueueDelivered ==
    ASSUME QueueInv, MessagesStay, NEW id \in Ids, message[id].status \in Open,
           queue' = remove_from_queue(id),
           \A i \in Ids \ {id} : message'[i] = message[i],
           message'[id].status \notin Open
    PROVE  QueueInv'
<1>1. Len(queue) \in Nat /\ \A i \in 1..Len(queue) : queue[i] \in Ids
  BY QueueIds
<1> DEFINE P == {i \in 1..Len(queue) : queue[i] = id}
           p == Min(P)
           m == Len(queue) - 1
           f == [i \in 1..m |-> IF i < p THEN i ELSE i + 1]
<1>2. P # {}
  BY DEF QueueInv, QueueSound, QueueIsBacklog, IsOpen
<1>3. p \in P
  <2>1. P \in SUBSET (1..Len(queue))
    OBVIOUS
  <2> HIDE DEF P
  <2> QED
    BY <1>1, <1>2, <2>1, FirstPosition
<1>4. queue' = RemoveAt(queue, p)
  BY <1>2 DEF remove_from_queue, RemoveFirst, SelectInSeq
<1> HIDE DEF p
<1>5. p \in 1..Len(queue) /\ queue[p] = id
  BY <1>3
<1> HIDE DEF P
<1>6. /\ queue' \in Seq(Ids) /\ Len(queue') = m
      /\ \A i \in 1..m : queue'[i] = IF i < p THEN queue[i] ELSE queue[i + 1]
  <2>1. queue \in Seq(Ids)
    BY DEF QueueInv
  <2>2. /\ RemoveAt(queue, p) \in Seq(Ids) /\ Len(RemoveAt(queue, p)) = Len(queue) - 1
        /\ \A i \in 1..(Len(queue) - 1) : RemoveAt(queue, p)[i] =
              IF i < p THEN queue[i] ELSE queue[i + 1]
    BY <1>5, <2>1, TakenOut
  <2> QED
    BY <1>4, <2>2
<1>7. m \in Nat /\ \A i \in 1..m : f[i] \in 1..Len(queue) /\ f[i] # p
  BY <1>1, <1>5
<1>8. \A i, j \in 1..m : i < j => f[i] < f[j]
  BY <1>1, <1>5
<1>9. \A i \in 1..m : queue'[i] = queue[f[i]]
  BY <1>6
<1>10. \A k \in 1..Len(queue) : k # p => \E i \in 1..m : f[i] = k
  <2> SUFFICES ASSUME NEW k \in 1..Len(queue), k # p PROVE \E i \in 1..m : f[i] = k
    OBVIOUS
  <2>1. CASE k < p
    <3>1. k \in 1..m /\ f[k] = k
      BY <1>1, <1>5, <2>1
    <3> QED
      BY <3>1
  <2>2. CASE k > p
    <3>1. k - 1 \in 1..m /\ f[k - 1] = k
      BY <1>1, <1>5, <2>2
    <3> QED
      BY <3>1
  <2> QED
    BY <1>1, <1>5, <2>1, <2>2
<1>11. f \in [1..m -> 1..Len(queue)]
  BY <1>7
<1> HIDE DEF f, m
<1>12. Thinned(f, m)
  BY <1>6, <1>8, <1>9, <1>11 DEF Thinned
<1>13. ASSUME NEW i \in 1..m PROVE message'[queue[f[i]]].status # "Relayed"
  <2>1. f[i] \in 1..Len(queue) /\ queue[f[i]] # id
    BY <1>5, <1>7 DEF QueueInv, QueueSound, QueueIsBacklog
  <2> QED
    BY <1>1, <2>1 DEF QueueInv, QueueSound, QueueIsBacklog
<1>14. ASSUME NEW k \in 1..Len(queue), message'[queue[k]].status \in Open
       PROVE  \E i \in 1..m : f[i] = k
  BY <1>5, <1>10, <1>14
<1> QED
  BY <1>7, <1>12, <1>13, <1>14, QueueThinned

\* A message is sent: it goes in front of the first of a lower priority.
LEMMA QueueSent ==
    ASSUME QueueInv, NEW new \in Message, new.status = "Pending",
           new.priority \in Int, \A id \in Ids : message[id].priority \in Int,
           message' = Append(message, new),
           queue' = InsertAt(queue, QueuePosition(new.priority), Len(message) + 1)
    PROVE  QueueInv'
<1>1. Len(queue) \in Nat /\ \A i \in 1..Len(queue) : queue[i] \in Ids
  BY QueueIds
<1>2. message \in Seq(Message) /\ Len(message) \in Nat /\ Ids = 1..Len(message)
  BY DEF QueueInv, Ids
<1> DEFINE n == Len(message) + 1
           l == Len(queue) + 1
           p == QueuePosition(new.priority)
           At(i) == IF i < p THEN queue[i] ELSE IF i = p THEN n ELSE queue[i - 1]
<1>3. /\ message' \in Seq(Message) /\ Ids' = Ids \cup {n} /\ n \notin Ids
      /\ message'[n] = new /\ \A id \in Ids : message'[id] = message[id] /\ id < n
  BY <1>2 DEF Ids
<1>4. /\ p \in 1..l
      /\ \A i \in 1..Len(queue) : i < p => message[queue[i]].priority <= new.priority
      /\ p <= Len(queue) => new.priority < message[queue[p]].priority
  <2> DEFINE Q == {i \in 1..Len(queue) : new.priority < message[queue[i]].priority}
                     \cup {Len(queue) + 1}
  <2>1. p = Min(Q)
    BY DEF QueuePosition
  <2>2. Q \in SUBSET (1..l) /\ Q # {} /\ l \in Nat
    BY <1>1
  <2>3. p \in Q /\ \A i \in Q : p <= i
    <3> HIDE DEF Q, l, p
    <3> QED
      BY <2>1, <2>2, FirstPosition
  <2> HIDE DEF Q
  <2> HIDE DEF p
  <2>4. p \in 1..l
    BY <2>2, <2>3
  <2>5. ASSUME NEW i \in 1..Len(queue), i < p
        PROVE  message[queue[i]].priority <= new.priority
    <3>1. i \notin Q
      BY <2>3, <2>4, <2>5, <1>1
    <3>2. ~ (new.priority < message[queue[i]].priority)
      BY <3>1 DEF Q
    <3> QED
      BY <1>1, <3>2
  <2>6. p <= Len(queue) => new.priority < message[queue[p]].priority
    BY <1>1, <2>3 DEF Q
  <2> QED
    BY <2>4, <2>5, <2>6
<1> HIDE DEF p
<1>5. /\ queue' \in Seq(Ids') /\ Len(queue') = l
      /\ \A i \in 1..l : queue'[i] = At(i)
  <2>1. queue \in Seq(Ids')
    BY <1>3 DEF QueueInv
  <2>2. n \in Ids'
    BY <1>3
  <2>3. queue' = InsertAt(queue, p, n)
    BY DEF p
  <2> HIDE DEF n
  <2>4. /\ InsertAt(queue, p, n) \in Seq(Ids') /\ Len(InsertAt(queue, p, n)) = l
        /\ \A i \in 1..l : InsertAt(queue, p, n)[i] = At(i)
    BY <1>4, <2>1, <2>2, Inserted
  <2> QED
    BY <2>3, <2>4
\* Where the old messages are, and that the new one is before the lower ones.
<1> DEFINE Old(i) == IF i < p THEN i ELSE i - 1
<1>6. /\ l \in Nat /\ p \in 1..l
      /\ \A i \in 1..l : i # p => Old(i) \in 1..Len(queue) /\ At(i) = queue[Old(i)]
      /\ \A i, j \in 1..l : i # p /\ j # p /\ Old(i) = Old(j) => i = j
      /\ \A i, j \in 1..l : i # p /\ j # p /\ i < j => Old(i) < Old(j)
      /\ \A k \in 1..Len(queue) : \E i \in 1..l : i # p /\ Old(i) = k
  <2>1. l \in Nat /\ p \in 1..l
    BY <1>1, <1>4
  <2>2. \A i \in 1..l : i # p => Old(i) \in 1..Len(queue) /\ At(i) = queue[Old(i)]
    BY <1>1, <1>4
  <2>3. \A i, j \in 1..l : i # p /\ j # p /\ Old(i) = Old(j) => i = j
    BY <1>1, <1>4
  <2>4. \A i, j \in 1..l : i # p /\ j # p /\ i < j => Old(i) < Old(j)
    BY <1>1, <1>4
  <2>5. ASSUME NEW k \in 1..Len(queue) PROVE \E i \in 1..l : i # p /\ Old(i) = k
    <3>1. CASE k < p
      <4>1. k \in 1..l /\ k # p /\ Old(k) = k
        BY <1>1, <1>4, <3>1
      <4> QED
        BY <4>1
    <3>2. CASE k >= p
      <4>1. k + 1 \in 1..l /\ k + 1 # p /\ Old(k + 1) = k
        BY <1>1, <1>4, <3>2
      <4> QED
        BY <4>1
    <3> QED
      BY <1>1, <1>4, <3>1, <3>2
  <2> QED
    BY <2>1, <2>2, <2>3, <2>4, <2>5
<1>7. At(p) = n
  BY <1>4
<1>8. \A i \in 1..Len(queue) : p <= i => new.priority < message[queue[i]].priority
  <2> SUFFICES ASSUME NEW i \in 1..Len(queue), p <= i
               PROVE  new.priority < message[queue[i]].priority
    OBVIOUS
  <2>1. p \in 1..Len(queue) /\ new.priority < message[queue[p]].priority
    BY <1>1, <1>4
  <2>2. message[queue[p]].priority \in Int /\ message[queue[i]].priority \in Int
    BY <1>1, <2>1
  <2>3. CASE p = i
    BY <2>1, <2>3
  <2>4. CASE p < i
    <3>1. message[queue[p]].priority <= message[queue[i]].priority
      BY <2>1, <2>2, <2>4 DEF QueueInv, QueueSound, QueueOrdered
    <3> QED
      BY <2>1, <2>2, <3>1
  <2> QED
    BY <2>1, <2>3, <2>4
<1>9. \A i \in 1..Len(queue) : i < p => Old(i) = i
  BY <1>1, <1>4
<1>10. \A i \in 1..l : p < i => p <= Old(i)
  BY <1>1, <1>4
<1>11. \A i \in 1..l : i < p => i \in 1..Len(queue) /\ Old(i) = i
  BY <1>1, <1>4
<1> HIDE DEF At, n, l, Old
<1>12. ASSUME NEW i \in 1..l, i # p
       PROVE  /\ Old(i) \in 1..Len(queue) /\ queue'[i] = queue[Old(i)]
              /\ queue[Old(i)] \in Ids /\ message'[queue'[i]] = message[queue[Old(i)]]
              /\ queue[Old(i)] < n
  BY <1>1, <1>3, <1>5, <1>6, <1>12
<1>13. queue'[p] = n /\ message'[queue'[p]] = new
  BY <1>3, <1>5, <1>6, <1>7
<1>14. QueueOrdered'
  <2> SUFFICES ASSUME NEW i \in 1..l, NEW j \in 1..l, i < j
               PROVE  \/ message'[queue'[i]].priority < message'[queue'[j]].priority
                      \/ /\ message'[queue'[i]].priority = message'[queue'[j]].priority
                         /\ queue'[i] < queue'[j]
    BY <1>5 DEF QueueOrdered
  <2>1. CASE i = p
    <3>1. j # p /\ p < j
      BY <2>1
    <3>2. p <= Old(j) /\ Old(j) \in 1..Len(queue)
      BY <1>10, <1>12, <3>1
    <3>3. message'[queue'[i]].priority < message'[queue'[j]].priority
      BY <1>8, <1>12, <1>13, <2>1, <3>1, <3>2
    <3> QED
      BY <3>3
  <2>2. CASE j = p
    <3>1. i # p /\ i < p /\ i \in 1..Len(queue) /\ Old(i) = i
      BY <1>11, <2>2
    <3>2. queue'[i] < queue'[j]
      BY <1>12, <1>13, <2>2, <3>1
    <3>3. message'[queue'[i]].priority <= message'[queue'[j]].priority
      BY <1>4, <1>12, <1>13, <2>2, <3>1
    <3>4. message'[queue'[i]].priority \in Int /\ message'[queue'[j]].priority \in Int
      BY <1>12, <1>13, <2>2, <3>1
    <3> DEFINE a == message'[queue'[i]].priority
               b == message'[queue'[j]].priority
    <3>5. a < b \/ a = b
      <4>1. a <= b /\ a \in Int /\ b \in Int
        BY <3>3, <3>4
      <4> HIDE DEF a, b
      <4> QED
        BY <4>1
    <3> QED
      BY <3>2, <3>5
  <2>3. CASE i # p /\ j # p
    <3>1. Old(i) < Old(j)
      BY <1>6, <2>3
    <3>2. \/ message[queue[Old(i)]].priority < message[queue[Old(j)]].priority
          \/ /\ message[queue[Old(i)]].priority = message[queue[Old(j)]].priority
             /\ queue[Old(i)] < queue[Old(j)]
      BY <1>12, <2>3, <3>1 DEF QueueInv, QueueSound, QueueOrdered
    <3> QED
      BY <1>12, <2>3, <3>2
  <2> QED
    BY <2>1, <2>2, <2>3
<1>15. ASSUME NEW i \in 1..l, NEW j \in 1..l, queue'[i] = queue'[j] PROVE i = j
  <2>1. CASE i # p /\ j # p
    <3>1. queue[Old(i)] = queue[Old(j)] /\ Old(i) \in 1..Len(queue) /\ Old(j) \in 1..Len(queue)
      BY <1>12, <1>15, <2>1
    <3>2. Old(i) = Old(j)
      BY <3>1 DEF QueueInv, QueueSound, QueueIsBacklog
    <3> QED
      BY <1>6, <2>1, <3>2
  <2>2. ASSUME NEW k \in 1..l, k # p PROVE queue'[k] # n
    BY <1>3, <1>12, <2>2
  <2> QED
    BY <1>13, <1>15, <2>1, <2>2
<1>16. ASSUME NEW id \in Ids', message'[id].status \in Open
       PROVE  \E i \in 1..l : queue'[i] = id
  <2>1. CASE id = n
    BY <1>6, <1>13, <2>1
  <2>2. CASE id \in Ids
    <3>1. message[id].status \in Open
      BY <1>3, <1>16, <2>2
    <3>2. PICK k \in 1..Len(queue) : queue[k] = id
      BY <2>2, <3>1 DEF QueueInv, QueueSound, QueueIsBacklog, IsOpen
    <3>3. PICK i \in 1..l : i # p /\ Old(i) = k
      BY <1>6
    <3> QED
      BY <1>12, <3>2, <3>3
  <2> QED
    BY <1>3, <2>1, <2>2
<1>17. ASSUME NEW i \in 1..l PROVE message'[queue'[i]].status # "Relayed"
  <2>1. CASE i = p
    BY <1>13, <2>1
  <2>2. CASE i # p
    BY <1>12, <2>2 DEF QueueInv, QueueSound, QueueIsBacklog
  <2> QED
    BY <2>1, <2>2
<1>18. QueueIsBacklog'
  BY <1>5, <1>15, <1>16, <1>17 DEF QueueIsBacklog, IsOpen
<1>19. message' \in Seq(Message)
  BY <1>2
<1> QED
  BY <1>5, <1>14, <1>18, <1>19 DEF QueueInv, QueueSound

-----------------------------------------------------------------------------
(* The accounts of deliveries.                                             *)

RelayedIds == {id \in Ids : message[id].status \in {"Relayed"}}
EndedIds == {id \in Ids : message[id].status \in {"Relayed", "Expired"}}

OperatorsInv ==
    /\ operator \in [Operator -> {"none", "active", "inactive"}]
    /\ messagesRelayed \in [Operator -> Nat]
    /\ totalRelayed \in Nat
    /\ \A op \in Operator : operator[op] = "none" => messagesRelayed[op] = 0

Accounts ==
    /\ totalRelayed = SumFunctionOnSet(messagesRelayed, Operator)
    /\ Cardinality(RelayedIds) <= totalRelayed
    /\ totalRelayed <= Cardinality(EndedIds)

LEMMA AccountsAgree ==
    ASSUME OperatorsInv
    PROVE  DeliveriesAgree <=> Accounts
<1>1. DOMAIN messagesRelayed = Operator
  BY DEF OperatorsInv
<1> QED
  BY <1>1 DEF DeliveriesAgree, Accounts, SumFunction, RelayedIds, EndedIds

LEMMA IdsFinite ==
    ASSUME RelayInv
    PROVE  /\ IsFiniteSet(Ids) /\ IsFiniteSet(RelayedIds) /\ IsFiniteSet(EndedIds)
           /\ Cardinality(RelayedIds) \in Nat /\ Cardinality(EndedIds) \in Nat
<1>1. Len(message) \in Nat /\ Ids = 1..Len(message)
  BY DEF RelayInv, Ids
<1>2. IsFiniteSet(Ids)
  BY <1>1, FS_Interval
<1>3. RelayedIds \in SUBSET Ids /\ EndedIds \in SUBSET Ids
  BY DEF RelayedIds, EndedIds
<1>4. IsFiniteSet(RelayedIds) /\ IsFiniteSet(EndedIds)
  BY <1>2, <1>3, FS_Subset
<1> QED
  BY <1>2, <1>4, FS_CardinalityType

\* Nothing is sent and nothing relayed: relayed messages may become expired.
LEMMA AccountsQuiet ==
    ASSUME RelayInv, RelayInv', OperatorsInv, Accounts, AllKept, Quiet,
           UNCHANGED <<messagesRelayed, totalRelayed>>
    PROVE  Accounts'
<1>1. RelayedIds' \in SUBSET RelayedIds
  BY DEF RelayedIds, Quiet
<1>2. EndedIds \in SUBSET EndedIds'
  <2> SUFFICES ASSUME NEW id \in EndedIds PROVE id \in EndedIds'
    OBVIOUS
  <2>1. id \in Ids /\ id \in Ids' /\ message[id].status \notin Open
    BY DEF EndedIds, Quiet, Open
  <2>2. message'[id].status \notin Open
    BY <2>1 DEF AllKept, Kept
  <2>3. message'[id].status \in MessageStatus
    <3>1. message'[id] \in Message
      BY <2>1 DEF RelayInv, Ids
    <3> QED
      BY <3>1 DEF Message
  <2> QED
    BY <2>1, <2>2, <2>3 DEF EndedIds, Open, MessageStatus
<1>3. /\ Cardinality(RelayedIds') <= Cardinality(RelayedIds)
      /\ Cardinality(EndedIds) <= Cardinality(EndedIds')
      /\ Cardinality(RelayedIds') \in Nat /\ Cardinality(RelayedIds) \in Nat
      /\ Cardinality(EndedIds') \in Nat /\ Cardinality(EndedIds) \in Nat
  <2>1. IsFiniteSet(Ids) /\ RelayedIds \in SUBSET Ids /\ EndedIds' \in SUBSET Ids
    BY IdsFinite DEF RelayedIds, EndedIds, Quiet
  <2>2. IsFiniteSet(RelayedIds) /\ IsFiniteSet(EndedIds')
    BY <2>1, FS_Subset
  <2>3. /\ Cardinality(RelayedIds') <= Cardinality(RelayedIds)
        /\ IsFiniteSet(RelayedIds')
    BY <1>1, <2>2, FS_Subset
  <2>4. /\ Cardinality(EndedIds) <= Cardinality(EndedIds')
        /\ IsFiniteSet(EndedIds)
    BY <1>2, <2>2, FS_Subset
  <2> QED
    BY <2>2, <2>3, <2>4, FS_CardinalityType
<1> QED
  BY <1>3 DEF Accounts, OperatorsInv

\* A message is relayed: it joins both sets, and is credited twice.
LEMMA AccountsDelivered ==
    ASSUME RelayInv, RelayInv', OperatorsInv, Accounts, NEW id, Delivered(id),
           NEW op \in Operator,
           messagesRelayed' = [messagesRelayed EXCEPT ![op] = @ + 1],
           totalRelayed' = totalRelayed + 1
    PROVE  Accounts'
<1>1. /\ RelayedIds' = RelayedIds \cup {id} /\ id \notin RelayedIds
      /\ EndedIds' = EndedIds \cup {id} /\ id \notin EndedIds
  BY DEF RelayedIds, EndedIds, Delivered, Open
<1>2. /\ Cardinality(RelayedIds') = Cardinality(RelayedIds) + 1
      /\ Cardinality(EndedIds') = Cardinality(EndedIds) + 1
      /\ Cardinality(RelayedIds) \in Nat /\ Cardinality(EndedIds) \in Nat
  BY <1>1, IdsFinite, FS_AddElement
<1>3. SumFunctionOnSet(messagesRelayed', Operator)
          = SumFunctionOnSet(messagesRelayed, Operator) + 1
  <2>1. /\ messagesRelayed \in [Operator -> Nat]
        /\ \A x \in Operator : messagesRelayed[x] \in Int
        /\ messagesRelayed'[op] = messagesRelayed[op] + 1 /\ messagesRelayed'[op] \in Int
        /\ \A x \in Operator \ {op} : messagesRelayed'[x] = messagesRelayed[x]
    BY DEF OperatorsInv
  <2>2. SumFunctionOnSet(messagesRelayed', Operator)
           = SumFunctionOnSet(messagesRelayed, Operator) - messagesRelayed[op]
                + messagesRelayed'[op]
    <3>1. IsFiniteSet(Operator)
      BY RelayAssumption
    <3> DEFINE f == messagesRelayed
               h == messagesRelayed'
    <3>2. /\ \A x \in Operator : f[x] \in Int
          /\ h[op] \in Int
          /\ \A x \in Operator \ {op} : h[x] = f[x]
      BY <2>1
    <3> HIDE DEF f, h
    <3>3. SumFunctionOnSet(h, Operator) = SumFunctionOnSet(f, Operator) - f[op] + h[op]
      BY <3>1, <3>2, SumChange
    <3> QED
      BY <3>3 DEF f, h
  <2>3. SumFunctionOnSet(messagesRelayed, Operator) \in Int
    BY <2>1, RelayAssumption, SumInt
  <2> QED
    BY <2>1, <2>2, <2>3
<1> QED
  BY <1>2, <1>3 DEF Accounts, OperatorsInv

\* A message is sent.
LEMMA AccountsSent ==
    ASSUME RelayInv, RelayInv', OperatorsInv, Accounts, NEW new, new.status = "Pending",
           message' = Append(message, new),
           UNCHANGED <<messagesRelayed, totalRelayed>>
    PROVE  Accounts'
<1>1. /\ Ids' = Ids \cup {Len(message) + 1} /\ message'[Len(message) + 1] = new
      /\ \A id \in Ids : message'[id] = message[id]
  BY DEF RelayInv, Ids
<1>2. RelayedIds' = RelayedIds /\ EndedIds' = EndedIds
  BY <1>1 DEF RelayedIds, EndedIds
<1> QED
  BY <1>2 DEF Accounts

-----------------------------------------------------------------------------
(* All of it.                                                              *)

\* The batch under way has items left, and an operator's address as caller.
BatchInv ==
    \/ batch = Idle
    \/ batch \in [caller : Operator, items : Seq(BatchItem)] /\ batch.items # <<>>

OthersInv ==
    /\ chainConfig \in [Chain -> {"none", "enabled", "disabled"}]
    /\ Len(message) <= MaxMessages
    /\ BatchInv

FullInv == RelayInv /\ QueueInv /\ OperatorsInv /\ Accounts /\ OthersInv

LEMMA FullInvIs ==
    ASSUME FullInv
    PROVE  TypeOK /\ QueueSound /\ DeliveriesAgree
<1>1. DeliveriesAgree
  BY AccountsAgree DEF FullInv
<1> QED
  BY <1>1 DEF FullInv, RelayInv, QueueInv, OperatorsInv, OthersInv, BatchInv, TypeOK

LEMMA FullInit == Init => FullInv
<1> SUFFICES ASSUME Init PROVE FullInv
  OBVIOUS
<1>1. RelayInv /\ OperatorsInv
  BY DEF Init, RelayInv, OperatorsInv
<1>2. message = <<>> /\ queue = <<>> /\ Ids = {} /\ Len(queue) = 0 /\ Len(message) = 0
  BY DEF Init, Ids
<1>3. QueueInv
  BY <1>2 DEF QueueInv, QueueSound, QueueOrdered, QueueIsBacklog
<1>4. Accounts
  <2>1. RelayedIds = {} /\ EndedIds = {}
    BY <1>2 DEF RelayedIds, EndedIds
  <2>2. Cardinality(RelayedIds) = 0 /\ Cardinality(EndedIds) = 0
    BY <2>1, FS_EmptySet
  <2>3. SumFunctionOnSet(messagesRelayed, Operator) = 0 /\ totalRelayed = 0
    BY RelayAssumption, SumZero DEF Init
  <2> QED
    BY <2>2, <2>3 DEF Accounts
<1>5. OthersInv
  BY <1>2, RelayAssumption DEF Init, OthersInv, BatchInv
<1> QED
  BY <1>1, <1>3, <1>4, <1>5 DEF FullInv

LEMMA StaysQuiet ==
    ASSUME RelayInv', AllKept, Ids' = Ids
    PROVE  MessagesStay
BY DEF RelayInv, AllKept, Kept, MessagesStay, Stays

\* Messages, queue and accounts, in a step that sends and relays nothing.
LEMMA QuietStep ==
    ASSUME FullInv, RelayInv', AllKept, Quiet,
           UNCHANGED <<messagesRelayed, totalRelayed, queue>>
    PROVE  QueueInv' /\ Accounts' /\ Len(message') <= MaxMessages
<1>1. MessagesStay
  BY StaysQuiet DEF Quiet
<1>2. QueueInv'
  BY <1>1, QueueQuiet DEF FullInv, Quiet
<1>3. Accounts'
  BY AccountsQuiet DEF FullInv
<1>4. Len(message') = Len(message)
  <2>1. message \in Seq(Message) /\ message' \in Seq(Message) /\ DOMAIN message' = DOMAIN message
    BY DEF FullInv, RelayInv, Quiet, Ids
  <2>2. Len(message) \in Nat /\ Len(message') \in Nat /\ 1..Len(message) = 1..Len(message')
    BY <2>1
  <2> QED
    BY <2>2
<1> QED
  BY <1>2, <1>3, <1>4 DEF FullInv, OthersInv

LEMMA DeliverFull ==
    ASSUME FullInv, NEW op \in Operator, NEW id, NEW good,
           Relays(op, id, good), Deliver(op, id),
           UNCHANGED <<chainConfig, operator, nonce>>, BatchInv'
    PROVE  FullInv'
<1>1. RelayInv' /\ AllKept /\ Delivered(id)
  BY DeliverStep DEF FullInv
<1>2. /\ messagesRelayed' = [messagesRelayed EXCEPT ![op] = @ + 1]
      /\ totalRelayed' = totalRelayed + 1
      /\ queue' = remove_from_queue(id)
      /\ operator[op] = "active"
  BY DEF Deliver, Relays
<1>3. Accounts'
  BY <1>1, <1>2, AccountsDelivered DEF FullInv
<1>4. QueueInv'
  <2>1. /\ MessagesStay /\ id \in Ids /\ message[id].status \in Open
        /\ message'[id].status \notin Open
        /\ \A i \in Ids \ {id} : message'[i] = message[i]
    BY <1>1, StaysQuiet DEF Delivered, Open
  <2> QED
    BY <1>2, <2>1, QueueDelivered DEF FullInv
<1>5. OperatorsInv'
  BY <1>2 DEF FullInv, OperatorsInv
<1>6. Len(message') <= MaxMessages
  <2>1. message' = [message EXCEPT ![id].status = "Relayed"]
    BY DEF Deliver, WithStatus
  <2>2. Len(message') = Len(message)
    BY <2>1 DEF FullInv, RelayInv
  <2> QED
    BY <2>2 DEF FullInv, OthersInv
<1> QED
  BY <1>1, <1>3, <1>4, <1>5, <1>6 DEF FullInv, OthersInv

LEMMA AdminFull ==
    ASSUME FullInv, Admin
    PROVE  FullInv'
<1>1. RelayInv' /\ AllKept /\ Quiet
  BY AdminStep DEF FullInv
<1>2. UNCHANGED <<message, queue, totalRelayed, batch>>
  BY DEF Admin, configure_chain, register_relay_operator, deactivate_relay_operator
<1>3. /\ messagesRelayed' = messagesRelayed
      /\ OperatorsInv'
      /\ chainConfig' \in [Chain -> {"none", "enabled", "disabled"}]
  <2>1. /\ OperatorsInv
        /\ chainConfig \in [Chain -> {"none", "enabled", "disabled"}]
    BY DEF FullInv, OthersInv
  <2>2. CASE \E c \in Chain, enabled \in BOOLEAN : configure_chain(c, enabled)
    BY <2>1, <2>2 DEF configure_chain, OperatorsInv
  <2>3. CASE \E op \in Operator : register_relay_operator(op)
    BY <1>2, <2>1, <2>3 DEF register_relay_operator, OperatorsInv
  <2>4. CASE \E op \in Operator : deactivate_relay_operator(op)
    BY <1>2, <2>1, <2>4 DEF deactivate_relay_operator, OperatorsInv
  <2> QED
    BY <2>2, <2>3, <2>4 DEF Admin
<1>4. QueueInv' /\ Accounts' /\ Len(message') <= MaxMessages
  BY <1>1, <1>2, <1>3, QuietStep
<1> QED
  BY <1>1, <1>2, <1>3, <1>4 DEF FullInv, OthersInv, BatchInv

LEMMA SendFull ==
    ASSUME FullInv, NEW s \in Sender, NEW source \in Chain, NEW dest \in Chain,
           NEW priority \in Priority, NEW ttl \in TtlOverrides,
           send_message(s, source, dest, priority, ttl)
    PROVE  FullInv'
<1> DEFINE new == [sender |-> s, nonce |-> nonce[s], source |-> source, dest |-> dest,
                   priority |-> priority, status |-> "Pending",
                   left |-> IF ttl = 0 THEN DefaultTtl ELSE ttl]
<1>1. /\ message' = Append(message, new)
      /\ queue' = InsertAt(queue, QueuePosition(priority), Len(message) + 1)
      /\ Len(message) < MaxMessages
      /\ UNCHANGED <<chainConfig, operator, messagesRelayed, totalRelayed, batch>>
  BY DEF send_message
<1>2. RelayInv'
  BY SendStep DEF FullInv
<1>3. new.status = "Pending" /\ new.priority = priority
  OBVIOUS
<1>4. new \in Message
  <2>1. (IF ttl = 0 THEN DefaultTtl ELSE ttl) \in Nat /\ nonce[s] \in Nat
    BY RelayAssumption DEF FullInv, RelayInv
  <2> QED
    BY <2>1 DEF Message, MessageStatus
<1> HIDE DEF new
<1>5. \A id \in Ids : message[id].priority \in Int
  <2> SUFFICES ASSUME NEW id \in Ids PROVE message[id].priority \in Int
    OBVIOUS
  <2>1. message[id] \in Message
    BY DEF FullInv, RelayInv, Ids
  <2>2. message[id].priority \in Priority
    BY <2>1 DEF Message
  <2>3. Priority \subseteq Int
    BY RelayAssumption
  <2> QED
    BY <2>2, <2>3
<1>6. new.priority \in Int
  BY <1>3, RelayAssumption
<1>7. queue' = InsertAt(queue, QueuePosition(new.priority), Len(message) + 1)
  BY <1>1, <1>3
<1>8. QueueInv'
  BY <1>1, <1>3, <1>4, <1>5, <1>6, <1>7, QueueSent DEF FullInv
<1>9. Accounts'
  BY <1>1, <1>2, <1>3, AccountsSent DEF FullInv
<1>10. Len(message') <= MaxMessages
  <2>1. Len(message') = Len(message) + 1 /\ Len(message) \in Nat
    BY <1>1, <1>4 DEF FullInv, RelayInv
  <2> QED
    BY <1>1, <2>1, RelayAssumption
<1>11. OperatorsInv' /\ BatchInv' /\ chainConfig' = chainConfig
  BY <1>1 DEF FullInv, OperatorsInv, OthersInv, BatchInv
<1> QED
  BY <1>2, <1>8, <1>9, <1>10, <1>11 DEF FullInv, OthersInv

\* Verification, the passing of time, and what changes nothing.
LEMMA QuietFull ==
    ASSUME FullInv, RelayInv', AllKept, Quiet,
           UNCHANGED <<chainConfig, operator, messagesRelayed, totalRelayed, queue>>,
           BatchInv'
    PROVE  FullInv'
<1>1. QueueInv' /\ Accounts' /\ Len(message') <= MaxMessages
  BY QuietStep
<1>2. OperatorsInv'
  BY DEF FullInv, OperatorsInv
<1> QED
  BY <1>1, <1>2 DEF FullInv, OthersInv

LEMMA CleanupFull ==
    ASSUME FullInv, NEW n, cleanup_expired_messages(n)
    PROVE  FullInv'
<1>1. /\ RelayInv' /\ AllKept /\ Quiet
      /\ \A id \in Ids \cap CleanedIds(n) : message'[id].status \notin Open
  BY CleanupStep DEF FullInv
<1>2. /\ queue' = QueueWithout(CleanedIds(n))
      /\ UNCHANGED <<chainConfig, operator, messagesRelayed, totalRelayed, batch>>
  BY DEF cleanup_expired_messages
<1>3. MessagesStay
  BY <1>1, StaysQuiet DEF Quiet
<1>4. QueueInv'
  BY <1>1, <1>2, <1>3, QueueCleaned DEF FullInv, Quiet
<1>5. Accounts'
  BY <1>1, <1>2, AccountsQuiet DEF FullInv
<1>6. OperatorsInv' /\ BatchInv' /\ chainConfig' = chainConfig
  BY <1>2 DEF FullInv, OperatorsInv, OthersInv, BatchInv
<1>7. Len(message') = Len(message)
  <2>1. message \in Seq(Message) /\ message' \in Seq(Message) /\ DOMAIN message' = DOMAIN message
    BY <1>1 DEF FullInv, RelayInv, Quiet, Ids
  <2>2. Len(message) \in Nat /\ Len(message') \in Nat /\ 1..Len(message) = 1..Len(message')
    BY <2>1
  <2> QED
    BY <2>2
<1> QED
  BY <1>1, <1>4, <1>5, <1>6, <1>7 DEF FullInv, OthersInv

LEMMA BatchStarted ==
    ASSUME FullInv, NEW op \in Operator, NEW n \in 1..MaxBatch,
           NEW items \in [1..n -> [id : Ids, good : BOOLEAN]], batch_relay(op, items)
    PROVE  FullInv'
<1>1. batch' = [caller |-> op, items |-> items] /\ items # <<>>
      /\ UNCHANGED <<chainConfig, operator, messagesRelayed, message, queue, nonce,
                     totalRelayed>>
  BY DEF batch_relay
<1>2. RelayInv' /\ AllKept /\ Quiet
  BY <1>1, NothingWritten DEF FullInv
<1>3. items \in Seq(BatchItem)
  <2>1. Ids \subseteq 1..MaxMessages
    <3>1. message \in Seq(Message) /\ Len(message) <= MaxMessages /\ MaxMessages \in Nat
      BY RelayAssumption DEF FullInv, RelayInv, OthersInv
    <3> QED
      BY <3>1 DEF Ids
  <2>2. [id : Ids, good : BOOLEAN] \subseteq BatchItem
    BY <2>1 DEF BatchItem
  <2>3. items \in [1..n -> BatchItem] /\ n \in Nat
    BY <2>2, RelayAssumption
  <2> QED
    BY <2>3
<1>4. BatchInv'
  BY <1>1, <1>3 DEF BatchInv
<1> QED
  BY <1>1, <1>2, <1>4, QuietFull

LEMMA BatchFull ==
    ASSUME FullInv, batch # Idle, BatchIteration
    PROVE  FullInv'
<1>1. /\ batch \in [caller : Operator, items : Seq(BatchItem)]
      /\ batch.caller \in Operator /\ batch.items \in Seq(BatchItem) /\ batch.items # <<>>
  BY DEF FullInv, OthersInv, BatchInv
<1>2. /\ UNCHANGED <<chainConfig, operator, nonce>>
      /\ batch' = IF Len(batch.items) = 1 THEN Idle ELSE [batch EXCEPT !.items = Tail(@)]
  BY DEF BatchIteration
<1>3. BatchInv'
  <2>1. CASE Len(batch.items) = 1
    BY <1>2, <2>1 DEF BatchInv
  <2>2. CASE Len(batch.items) # 1
    <3>1. /\ Tail(batch.items) \in Seq(BatchItem) /\ Len(batch.items) \in Nat
          /\ Len(batch.items) # 0 /\ Len(Tail(batch.items)) = Len(batch.items) - 1
      BY <1>1
    <3>2. Tail(batch.items) # <<>>
      <4>1. Len(Tail(batch.items)) # 0
        BY <2>2, <3>1
      <4>2. Len(<<>>) = 0
        OBVIOUS
      <4> QED
        BY <4>1, <4>2, Zenon
    <3>3. batch' = [caller |-> batch.caller, items |-> Tail(batch.items)]
      BY <1>1, <1>2, <2>2
    <3> QED
      BY <1>1, <3>1, <3>2, <3>3 DEF BatchInv
  <2> QED
    BY <2>1, <2>2
<1>4. CASE BatchDelivers
  BY <1>1, <1>2, <1>3, <1>4, DeliverFull DEF BatchDelivers
<1>5. CASE BatchDeliversNot
  <2>1. RelayInv' /\ AllKept /\ Quiet
    BY <1>2, <1>5, BatchStep DEF FullInv
  <2> QED
    BY <1>2, <1>3, <1>5, <2>1, QuietFull DEF BatchDeliversNot
<1> QED
  BY <1>4, <1>5, BatchCases

LEMMA FullStep == FullInv /\ [Next]_vars => FullInv'
<1> SUFFICES ASSUME FullInv, [Next]_vars PROVE FullInv'
  OBVIOUS
<1>1. CASE Admin
  BY <1>1, AdminFull
<1>2. CASE \E s \in Sender, source \in Chain, dest \in Chain, priority \in Priority,
              ttl \in TtlOverrides : send_message(s, source, dest, priority, ttl)
  BY <1>2, SendFull
<1>3. CASE \E id \in Ids, c \in Chain, op \in Operator :
              verify_message(id, [chain |-> c, validator |-> op])
  <2>1. RelayInv' /\ AllKept /\ Quiet
    BY <1>3, VerifyStep DEF FullInv
  <2>2. UNCHANGED <<chainConfig, operator, messagesRelayed, totalRelayed, queue, batch>>
    BY <1>3 DEF verify_message
  <2> QED
    BY <2>1, <2>2, QuietFull DEF FullInv, OthersInv, BatchInv
<1>4. CASE \E op \in Operator, id \in Ids : relay_message(op, id)
  <2>1. PICK op \in Operator, id \in Ids : relay_message(op, id)
    BY <1>4
  <2>2. /\ Relays(op, id, TRUE) /\ Deliver(op, id)
        /\ UNCHANGED <<chainConfig, operator, nonce, batch>>
    BY <2>1 DEF relay_message
  <2> QED
    BY <2>2, DeliverFull DEF FullInv, OthersInv, BatchInv
<1>5. CASE \E op \in Operator, n \in 1..MaxBatch :
              \E items \in [1..n -> [id : Ids, good : BOOLEAN]] : batch_relay(op, items)
  BY <1>5, BatchStarted
<1>6. CASE \E n \in CleanupSizes : cleanup_expired_messages(n)
  BY <1>6, CleanupFull
<1>7. CASE Tick
  <2>1. RelayInv' /\ AllKept /\ Quiet
    BY <1>7, TickStep DEF FullInv
  <2>2. UNCHANGED <<chainConfig, operator, messagesRelayed, totalRelayed, queue, batch>>
    BY <1>7 DEF Tick
  <2> QED
    BY <2>1, <2>2, QuietFull DEF FullInv, OthersInv, BatchInv
<1>8. CASE batch # Idle /\ BatchIteration
  BY <1>8, BatchFull
<1>9. CASE UNCHANGED vars
  <2>1. RelayInv' /\ AllKept /\ Quiet
    BY <1>9, NothingWritten DEF FullInv, vars
  <2> QED
    BY <1>9, <2>1, QuietFull DEF FullInv, OthersInv, BatchInv, vars
<1> QED
  BY <1>1, <1>2, <1>3, <1>4, <1>5, <1>6, <1>7, <1>8, <1>9 DEF Next, Call, Relay

LEMMA AllKeptStep ==
    ASSUME FullInv, [Next]_vars
    PROVE  AllKept
<1>1. RelayInv
  BY DEF FullInv
<1>2. CASE Admin
  BY <1>1, <1>2, AdminStep
<1>3. CASE \E s \in Sender, source \in Chain, dest \in Chain, priority \in Priority,
              ttl \in TtlOverrides : send_message(s, source, dest, priority, ttl)
  BY <1>1, <1>3, SendStep
<1>4. CASE \E id \in Ids, c \in Chain, op \in Operator :
              verify_message(id, [chain |-> c, validator |-> op])
  BY <1>1, <1>4, VerifyStep
<1>5. CASE \E op \in Operator, id \in Ids : relay_message(op, id)
  BY <1>1, <1>5, DeliverStep DEF relay_message
<1>6. CASE \E op \in Operator, n \in 1..MaxBatch :
              \E items \in [1..n -> [id : Ids, good : BOOLEAN]] : batch_relay(op, items)
  BY <1>1, <1>6, NothingWritten DEF batch_relay
<1>7. CASE \E n \in CleanupSizes : cleanup_expired_messages(n)
  BY <1>1, <1>7, CleanupStep
<1>8. CASE Tick
  BY <1>1, <1>8, TickStep
<1>9. CASE BatchIteration
  <2>1. nonce' = nonce
    BY <1>9 DEF BatchIteration
  <2>2. CASE BatchDelivers
    BY <1>1, <2>1, <2>2, DeliverStep DEF BatchDelivers
  <2>3. CASE BatchDeliversNot
    BY <1>1, <2>1, <2>3, BatchStep
  <2> QED
    BY <1>9, <2>2, <2>3, BatchCases
<1>10. CASE UNCHANGED vars
  BY <1>1, <1>10, NothingWritten DEF vars
<1> QED
  BY <1>2, <1>3, <1>4, <1>5, <1>6, <1>7, <1>8, <1>9, <1>10 DEF Next, Call, Relay

-----------------------------------------------------------------------------
(* The theorems.                                                           *)

\* Chains, operators, messages, queue and the batch keep their types: the
\* queue names messages that exist, and a batch is an operator's.
THEOREM TypeCorrect == Spec => []TypeOK
<1>1. FullInv => TypeOK
  BY FullInvIs
<1> QED
  BY <1>1, FullInit, FullStep, PTL DEF Spec

\* The queue is the backlog, each message once, served by priority and in the
\* order of sending, after any inserts, removals, cleanups and batches.
THEOREM QueueSoundHolds == Spec => []QueueSound
<1>1. FullInv => QueueSound
  BY FullInvIs
<1> QED
  BY <1>1, FullInit, FullStep, PTL DEF Spec

\* The contract's total of deliveries is the sum of the operators' and agrees
\* with the messages that were relayed, for any number of operators.
THEOREM DeliveriesAgreeHolds == Spec => []DeliveriesAgree
<1>1. FullInv => DeliveriesAgree
  BY FullInvIs
<1> QED
  BY <1>1, FullInit, FullStep, PTL DEF Spec

\* A closed message is never reopened, and none is marked expired before its
\* time or relayed after it, whatever calls, batches and cleanups interleave.
THEOREM ClosedForGoodHolds == Spec => ClosedForGood
<1>1. AllKept => \A id \in Ids :
         /\ message[id].status \notin Open => message'[id].status \notin Open
         /\ message[id].status \in Open /\ message'[id].status = "Expired"
              => is_expired(id)
         /\ message[id].status \in Open /\ message'[id].status = "Relayed"
              => ~ is_expired(id)
  BY DEF AllKept, Kept, is_expired
<1>2. FullInv /\ [Next]_vars => AllKept
  BY AllKeptStep
<1> QED
  BY <1>1, <1>2, FullInit, FullStep, PTL DEF Spec, ClosedForGood
=============================================================================
