--------------------------- MODULE CrossChainRelay ---------------------------
(***************************************************************************)
(* The Soroban contract contracts/soroban/src/relay: cross-chain messages  *)
(* wait in one priority queue until a whitelisted operator relays them,    *)
(* one by one or in a batch, or until they expire and are cleaned up.      *)
(*                                                                         *)
(* A call that returns an error leaves no trace: the host rolls it back,   *)
(* so it is an action that is not enabled.  batch_relay is the exception:  *)
(* it swallows the errors of its items and returns Ok, so whatever an item *)
(* wrote before it failed stays.  Its loop is modelled one item per step;  *)
(* no other call runs until the batch has returned.                        *)
(*                                                                         *)
(* A message id stands for the hash of (sender, nonce, ...), unique as     *)
(* nonces are; ids are numbered in the order of send_message.  Expiry is   *)
(* kept as  left = expiry - now,  cut off at 0.  Payloads, fees, public    *)
(* keys and digests are left out: an item's signature or a proof is good   *)
(* or it is not.  TotalMessages is Len(message) and no state of its own.   *)
(***************************************************************************)
EXTENDS Integers, Sequences, SequencesExt

CONSTANTS
    Sender,         \* addresses that send messages
    Operator,       \* addresses that can become relay operators
    Chain,          \* ChainId
    InitialChains,  \* chains that initialize configures, all enabled
    Priority,       \* message_priority_value, 0 (Critical) to 3 (Low)
    DefaultTtl,     \* the default_ttl given to initialize
    TtlOverrides,   \* values of ttl_override, 0 meaning the default
    CleanupSizes,   \* values of max_items
    MaxMessages,    \* bound of the model on the number of messages
    MaxBatch        \* bound of the model on the items of a batch

ASSUME RelayAssumption ==
    /\ InitialChains \subseteq Chain
    /\ Priority \subseteq 0..3
    /\ IsFiniteSet(Operator)
    /\ DefaultTtl \in Nat \ {0}
    /\ TtlOverrides \subseteq Nat
    /\ CleanupSizes \subseteq Nat \ {0}
    /\ MaxMessages \in Nat /\ MaxBatch \in Nat \ {0}

VARIABLES
    chainConfig,    \* ChainConfig(chain): "none", "enabled" or "disabled"
    operator,       \* Operator(address): "none", "active" or "inactive"
    messagesRelayed,\* RelayOperator.messages_relayed
    message,        \* Message(id), the ids being 1..Len(message)
    queue,          \* MessageQueue
    nonce,          \* Nonce(sender)
    totalRelayed,   \* TotalRelayed
    batch           \* the items batch_relay has still to do, and its caller

vars == <<chainConfig, operator, messagesRelayed, message, queue, nonce,
          totalRelayed, batch>>

MessageStatus == {"Pending", "Verified", "Relayed", "Expired"}
Open == {"Pending", "Verified"}

Ids == DOMAIN message

Message == [sender : Sender, nonce : Nat, source : Chain, dest : Chain,
            priority : Priority, left : Nat, status : MessageStatus]

BatchItem == [id : 1..MaxMessages, good : BOOLEAN]

Idle == [caller |-> "nobody", items |-> <<>>]

TypeOK ==
    /\ chainConfig \in [Chain -> {"none", "enabled", "disabled"}]
    /\ operator \in [Operator -> {"none", "active", "inactive"}]
    /\ messagesRelayed \in [Operator -> Nat]
    /\ message \in Seq(Message)
    /\ queue \in Seq(Ids)
    /\ nonce \in [Sender -> Nat]
    /\ totalRelayed \in Nat
    /\ batch = Idle \/ batch \in [caller : Operator, items : Seq(BatchItem)]

-----------------------------------------------------------------------------
(* Helpers of the contract.                                                *)

is_expired(id) == message[id].left = 0

IsOpen(id) == message[id].status \in Open

WithStatus(id, s) == message' = [message EXCEPT ![id].status = s]

\* insert_queue_by_priority: in front of the first message of a lower
\* priority, behind everything else.
QueuePosition(p) ==
    Min({i \in 1..Len(queue) : p < message[queue[i]].priority}
          \cup {Len(queue) + 1})

\* Mutant: the relayed message stays in the queue.
remove_from_queue_Forget(id) == queue

remove_from_queue(id) == RemoveFirst(queue, id)

\* Mutant: expiry is not checked.
Relays_Late(op, id, good) ==
    /\ operator[op] = "active"
    /\ IsOpen(id)
    /\ good

\* relay_message_internal, in the order of its checks: an inactive operator
\* and an unknown message fail without a write, an expired message fails
\* after its status was written, whatever that status was.
Relays(op, id, good) ==
    /\ operator[op] = "active"
    /\ id \in Ids
    /\ ~ is_expired(id)
    /\ IsOpen(id)
    /\ good

MarksExpired(op, id) ==
    /\ operator[op] = "active"
    /\ id \in Ids
    /\ is_expired(id)

\* Mutant: the operator's own count is forgotten.
Deliver_NoCount(op, id) ==
    /\ WithStatus(id, "Relayed")
    /\ queue' = remove_from_queue(id)
    /\ totalRelayed' = totalRelayed + 1
    /\ UNCHANGED messagesRelayed

Deliver(op, id) ==
    /\ WithStatus(id, "Relayed")
    /\ messagesRelayed' = [messagesRelayed EXCEPT ![op] = @ + 1]
    /\ queue' = remove_from_queue(id)
    /\ totalRelayed' = totalRelayed + 1

-----------------------------------------------------------------------------
(* Administration.                                                         *)

configure_chain(c, enabled) ==
    /\ chainConfig' = [chainConfig EXCEPT
                         ![c] = IF enabled THEN "enabled" ELSE "disabled"]
    /\ UNCHANGED <<operator, messagesRelayed, message, queue, nonce,
                   totalRelayed, batch>>

register_relay_operator(op) ==
    /\ operator[op] = "none"
    /\ operator' = [operator EXCEPT ![op] = "active"]
    /\ messagesRelayed' = [messagesRelayed EXCEPT ![op] = 0]
    /\ UNCHANGED <<chainConfig, message, queue, nonce, totalRelayed, batch>>

deactivate_relay_operator(op) ==
    /\ operator[op] # "none"
    /\ operator' = [operator EXCEPT ![op] = "inactive"]
    /\ UNCHANGED <<chainConfig, messagesRelayed, message, queue, nonce,
                   totalRelayed, batch>>

-----------------------------------------------------------------------------
(* Messages.                                                               *)

\* Mutant: the message is queued and never stored.
send_message_NotStored(s, source, dest, priority, ttl_override) ==
    /\ Len(message) < MaxMessages
    /\ chainConfig[dest] = "enabled"
    /\ queue' = InsertAt(queue, QueuePosition(priority), Len(message) + 1)
    /\ nonce' = [nonce EXCEPT ![s] = @ + 1]
    /\ UNCHANGED <<chainConfig, operator, messagesRelayed, message,
                   totalRelayed, batch>>

send_message(s, source, dest, priority, ttl_override) ==
    /\ Len(message) < MaxMessages
    /\ chainConfig[dest] = "enabled"
    /\ message' = Append(message,
         [sender |-> s, nonce |-> nonce[s], source |-> source, dest |-> dest,
          priority |-> priority, status |-> "Pending",
          left |-> IF ttl_override = 0 THEN DefaultTtl ELSE ttl_override])
    /\ queue' = InsertAt(queue, QueuePosition(priority), Len(message) + 1)
    /\ nonce' = [nonce EXCEPT ![s] = @ + 1]
    /\ UNCHANGED <<chainConfig, operator, messagesRelayed, totalRelayed, batch>>

\* A proof is for a chain and by the key of an operator; its root and its
\* signature are good.
verify_state_proof_internal(proof) ==
    /\ chainConfig[proof.chain] = "enabled"
    /\ operator[proof.validator] = "active"

\* An expired message returns an error, which undoes the status written.
verify_message(id, proof) ==
    /\ ~ is_expired(id)
    /\ message[id].status = "Pending"
    /\ proof.chain = message[id].source
    /\ verify_state_proof_internal(proof)
    /\ WithStatus(id, "Verified")
    /\ UNCHANGED <<chainConfig, operator, messagesRelayed, queue, nonce,
                   totalRelayed, batch>>

relay_message(op, id) ==
    /\ Relays(op, id, TRUE)
    /\ Deliver(op, id)
    /\ UNCHANGED <<chainConfig, operator, nonce, batch>>

batch_relay(op, items) ==
    /\ items # <<>>
    /\ batch' = [caller |-> op, items |-> items]
    /\ UNCHANGED <<chainConfig, operator, messagesRelayed, message, queue,
                   nonce, totalRelayed>>

\* One iteration of the loop of batch_relay.
BatchIteration ==
    LET op == batch.caller
        item == Head(batch.items)
    IN  /\ batch' = IF Len(batch.items) = 1 THEN Idle
                    ELSE [batch EXCEPT !.items = Tail(@)]
        /\ \/ /\ Relays(op, item.id, item.good)
              /\ Deliver(op, item.id)
           \/ /\ MarksExpired(op, item.id)
              /\ WithStatus(item.id, "Expired")
              /\ UNCHANGED <<messagesRelayed, queue, totalRelayed>>
           \/ /\ ~ Relays(op, item.id, item.good)
              /\ ~ MarksExpired(op, item.id)
              /\ UNCHANGED <<message, messagesRelayed, queue, totalRelayed>>
        /\ UNCHANGED <<chainConfig, operator, nonce>>

\* Mutant: cleanup overlooks the messages that a batch marked expired.
Removable_OpenOnly(id) == IsOpen(id) /\ is_expired(id)

\* Messages that cleanup takes out of the queue when it looks at them.
Removable(id) == ~ IsOpen(id) \/ is_expired(id)

\* The scan stops after max_items messages that stay; removing a message
\* does not advance it.
CleanedIds(max_items) ==
    {queue[i] : i \in {k \in 1..Len(queue) :
        /\ Removable(queue[k])
        /\ Cardinality({j \in 1..(k - 1) : ~ Removable(queue[j])}) < max_items}}

\* A set of positions in ascending order.
Ascending(S) ==
    CHOOSE f \in [1..Cardinality(S) -> S] :
        \A i, j \in 1..Cardinality(S) : i < j => f[i] < f[j]

\* The queue without the given messages, the others in their order.
QueueWithout(ids) ==
    LET kept == Ascending({i \in 1..Len(queue) : queue[i] \notin ids})
    IN  [i \in DOMAIN kept |-> queue[kept[i]]]

cleanup_expired_messages(max_items) ==
    LET cleaned == CleanedIds(max_items) IN
    /\ cleaned # {}
    /\ message' = [id \in Ids |-> IF id \in cleaned /\ IsOpen(id)
                                  THEN [message[id] EXCEPT !.status = "Expired"]
                                  ELSE message[id]]
    /\ queue' = QueueWithout(cleaned)
    /\ UNCHANGED <<chainConfig, operator, messagesRelayed, nonce, totalRelayed,
                   batch>>

-----------------------------------------------------------------------------

\* One unit of ledger time passes.
Tick ==
    /\ \E id \in Ids : message[id].left > 0
    /\ message' = [id \in Ids |->
                     [message[id] EXCEPT !.left = IF @ > 0 THEN @ - 1 ELSE 0]]
    /\ UNCHANGED <<chainConfig, operator, messagesRelayed, queue, nonce,
                   totalRelayed, batch>>

\* The state that initialize leaves.
Init ==
    /\ chainConfig = [c \in Chain |->
                        IF c \in InitialChains THEN "enabled" ELSE "none"]
    /\ operator = [op \in Operator |-> "none"]
    /\ messagesRelayed = [op \in Operator |-> 0]
    /\ message = <<>>
    /\ queue = <<>>
    /\ nonce = [s \in Sender |-> 0]
    /\ totalRelayed = 0
    /\ batch = Idle

Admin ==
    \/ \E c \in Chain, enabled \in BOOLEAN : configure_chain(c, enabled)
    \/ \E op \in Operator : register_relay_operator(op)
    \/ \E op \in Operator : deactivate_relay_operator(op)

Relay ==
    \/ \E op \in Operator, id \in Ids : relay_message(op, id)
    \/ \E op \in Operator, n \in 1..MaxBatch :
          \E items \in [1..n -> [id : Ids, good : BOOLEAN]] : batch_relay(op, items)

Call ==
    \/ Admin
    \/ \E s \in Sender, source \in Chain, dest \in Chain,
          priority \in Priority, ttl \in TtlOverrides :
          send_message(s, source, dest, priority, ttl)
    \/ \E id \in Ids, c \in Chain, op \in Operator :
          verify_message(id, [chain |-> c, validator |-> op])
    \/ Relay
    \/ \E n \in CleanupSizes : cleanup_expired_messages(n)
    \/ Tick

Next ==
    \/ batch = Idle /\ Call
    \/ batch # Idle /\ BatchIteration

Spec == Init /\ [][Next]_vars

\* A batch runs to its end, time passes, and somebody keeps calling the
\* permissionless cleanup with some max_items.
Fairness ==
    /\ WF_vars(batch # Idle /\ BatchIteration)
    /\ SF_vars(batch = Idle /\ Tick)
    /\ SF_vars(batch = Idle /\ \E n \in CleanupSizes : cleanup_expired_messages(n))

FairSpec == Spec /\ Fairness

-----------------------------------------------------------------------------
(* Properties.                                                             *)

\* The queue is served by priority and, within a priority, in the order of
\* sending, after any sequence of inserts, removals and cleanups.
QueueOrdered ==
    \A i, j \in 1..Len(queue) : i < j =>
        LET a == message[queue[i]]
            b == message[queue[j]]
        IN  \/ a.priority < b.priority
            \/ a.priority = b.priority /\ queue[i] < queue[j]

\* The queue is the backlog: it holds every message still to be relayed,
\* each once, and none that was relayed before the deadline passed.
QueueIsBacklog ==
    /\ \A i, j \in 1..Len(queue) : queue[i] = queue[j] => i = j
    /\ \A id \in Ids : IsOpen(id) => \E i \in 1..Len(queue) : queue[i] = id
    /\ \A i \in 1..Len(queue) : message[queue[i]].status # "Relayed"

\* The queue as a whole: what is in it, and in which order it is served.
QueueSound == QueueOrdered /\ QueueIsBacklog

\* The three accounts of deliveries agree: the total, the sum of what the
\* operators were credited with, and the messages that were relayed (some of
\* which a later batch may have marked expired).
DeliveriesAgree ==
    LET Count(S) == Cardinality({id \in Ids : message[id].status \in S}) IN
    /\ totalRelayed = SumFunction(messagesRelayed)
    /\ Count({"Relayed"}) <= totalRelayed
    /\ totalRelayed <= Count({"Relayed", "Expired"})

\* A closed message is never reopened, and a message whose time has not come
\* is never marked expired: no failed batch item, and no cleanup scan with a
\* bound, takes a live message away from its operators.
ClosedForGood ==
    [][\A id \in Ids :
         /\ message[id].status \notin Open => message'[id].status \notin Open
         /\ message[id].status \in Open /\ message'[id].status = "Expired"
              => is_expired(id)
         /\ message[id].status \in Open /\ message'[id].status = "Relayed"
              => ~ is_expired(id)]_vars

Queued(id) == \E i \in 1..Len(queue) : queue[i] = id

\* Once senders stop, the queue drains: a queued message is relayed or its
\* expiry is noticed, also when cleanup looks at one message at a time and
\* when a batch marked the message expired without taking it out.
QueueDrains == \A id \in 1..MaxMessages : Queued(id) ~> ~ Queued(id)
=============================================================================
