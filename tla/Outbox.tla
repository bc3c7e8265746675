-------------------------------- MODULE Outbox --------------------------------
(***************************************************************************)
(* backend/src/outbox: events are written to a table in the transaction of *)
(* the change they announce, polled from there into a BullMQ queue and     *)
(* dispatched by the slots of a worker.  PostgreSQL and BullMQ are         *)
(* modelled by what the code relies on: row locks last as long as their    *)
(* transaction, an uncommitted row is invisible, and a job whose id is     *)
(* still known to the queue is not added again.                            *)
(*                                                                         *)
(* An event is known by its aggregate and its sequence number.             *)
(* processDispatchJob locks the event's row in a transaction and then, in  *)
(* markProcessing, updates the same row on another connection of the pool: *)
(* that update waits for the lock of the very function that waits for it.  *)
(* The wait ends only when something fails.  If the transaction's own      *)
(* connection is lost, or the process dies, the server releases the lock   *)
(* and the update it already has takes effect: the event is dispatched and *)
(* marked delivered, and then, as the commit on the lost connection fails, *)
(* put back for a retry; or it is left in "processing", where neither the  *)
(* poll nor retryEvent looks.                                              *)
(***************************************************************************)
EXTENDS Integers, Sequences, FiniteSets, Functions

CONSTANTS
    Aggregate,      \* aggregates that events belong to, numbered as they sort
    Producer,       \* transactions that may run at the same time
    Slot,           \* the worker's concurrency
    Admin,          \* concurrent calls of retryEvent
    MaxRetries,     \* maxRetries of the dispatcher
    BatchSize,      \* events that one poll reads
    Retained,       \* removeOnComplete: finished jobs BullMQ remembers
    MaxEvents,      \* bound of the model on the events of an aggregate
    MaxCrashes      \* bound of the model on restarts of the backend

ASSUME OutboxAssumption ==
    /\ Aggregate \subseteq Nat /\ IsFiniteSet(Aggregate)
    /\ BatchSize \in Nat \ {0}
    /\ MaxRetries \in Nat \ {0} /\ Retained \in Nat
    /\ MaxEvents \in Nat /\ MaxCrashes \in Nat

VARIABLES
    seq,        \* outbox_events_sequence, as committed
    tx,         \* the events each open transaction has inserted
    event,      \* outbox_events, as committed
    seen,       \* what the poll has read and not yet put into the queue
    waiting,    \* ids of the jobs that wait in the queue
    job,        \* the job each slot works on
    retained,   \* ids of finished jobs that the queue remembers
    admin,      \* the event each call of retryEvent has found failed
    crashes

vars == <<seq, tx, event, seen, waiting, job, retained, admin, crashes>>

Key == Aggregate \X (1..MaxEvents)

Event == [status : {"pending", "processing", "delivered", "failed"},
          retries : 0..(MaxRetries - 1), due : BOOLEAN]

\* "locked": the transaction holds the row and markProcessing waits for it;
\* "marking": the lock is gone with the transaction's connection.
Job == [key : Key,
        at : {"begin", "locked", "marking", "dispatch", "error", "counted"},
        n : 0..(MaxRetries - 1)]

Idle == <<>>

TypeOK ==
    /\ seq \in [Aggregate -> 0..MaxEvents]
    /\ tx \in [Producer -> SUBSET Key]
    /\ DOMAIN event \subseteq Key /\ \A k \in DOMAIN event : event[k] \in Event
    /\ seen \subseteq DOMAIN event
    /\ waiting \in Seq(DOMAIN event)
    /\ \A s \in Slot : job[s] = Idle \/ job[s] \in Job
    /\ retained \in Seq(DOMAIN event) /\ Len(retained) <= Retained
    /\ \A a \in Admin : admin[a] = Idle \/ admin[a] \in DOMAIN event
    /\ crashes \in 0..MaxCrashes

Active == {job[s].key : s \in {t \in Slot : job[t] # Idle}}

At(s, label) == job[s] # Idle /\ job[s].at = label

Locked(k) == \E s \in Slot : At(s, "locked") /\ job[s].key = k

Of(a, keys) == {k \in keys : k[1] = a}

Before(k, l) == k[1] < l[1] \/ (k[1] = l[1] /\ k[2] < l[2])

\* The members of S in some order.
Arrangements(S) ==
    {s \in [1..Cardinality(S) -> S] :
        \A i, j \in DOMAIN s : s[i] = s[j] => i = j}

-----------------------------------------------------------------------------
(* Producers.                                                              *)

\* The sequence row stays locked until the transaction ends.
publishTransactional(p, a) ==
    LET no == seq[a] + Cardinality(Of(a, tx[p])) + 1 IN
    /\ no <= MaxEvents
    /\ \A q \in Producer \ {p} : Of(a, tx[q]) = {}
    /\ tx' = [tx EXCEPT ![p] = @ \cup {<<a, no>>}]
    /\ UNCHANGED <<seq, event, seen, waiting, job, retained, admin, crashes>>

NewEvent == [status |-> "pending", retries |-> 0, due |-> TRUE]

Commit(p) ==
    /\ tx[p] # {}
    /\ seq' = [a \in Aggregate |-> seq[a] + Cardinality(Of(a, tx[p]))]
    /\ event' = [k \in DOMAIN event \cup tx[p] |->
                   IF k \in tx[p] THEN NewEvent ELSE event[k]]
    /\ tx' = [tx EXCEPT ![p] = {}]
    /\ UNCHANGED <<seen, waiting, job, retained, admin, crashes>>

\* Mutant: numbers come from a database sequence, which forgets no number.
Rollback_KeepNumbers(p) ==
    /\ tx[p] # {}
    /\ seq' = [a \in Aggregate |-> seq[a] + Cardinality(Of(a, tx[p]))]
    /\ tx' = [tx EXCEPT ![p] = {}]
    /\ UNCHANGED <<event, seen, waiting, job, retained, admin, crashes>>

Rollback(p) ==
    /\ tx[p] # {}
    /\ tx' = [tx EXCEPT ![p] = {}]
    /\ UNCHANGED <<seq, event, seen, waiting, job, retained, admin, crashes>>

-----------------------------------------------------------------------------
(* The poll.                                                               *)

Due == {k \in DOMAIN event : event[k].status = "pending" /\ event[k].due
                              /\ ~ Locked(k)}

getPendingEvents ==
    {k \in Due : Cardinality({l \in Due : Before(l, k)}) < BatchSize}

PollRead ==
    /\ seen = {} /\ getPendingEvents # {}
    /\ seen' = getPendingEvents
    /\ UNCHANGED <<seq, tx, event, waiting, job, retained, admin, crashes>>

\* Mutant: jobs are added without an id of their own.
NewJobs_NoId == seen

\* addBulk ignores an id that waits, runs or is remembered.
NewJobs ==
    {k \in seen : k \notin Active /\ k \notin Range(waiting)
                  /\ k \notin Range(retained)}

PollAdd ==
    /\ seen # {}
    /\ \E jobs \in Arrangements(NewJobs) :
          /\ \A i, j \in DOMAIN jobs : i < j => Before(jobs[i], jobs[j])
          /\ waiting' = waiting \o jobs
    /\ seen' = {}
    /\ UNCHANGED <<seq, tx, event, job, retained, admin, crashes>>

-----------------------------------------------------------------------------
(* processDispatchJob.                                                     *)

Take(s) ==
    /\ job[s] = Idle /\ waiting # <<>>
    /\ job' = [job EXCEPT ![s] = [key |-> Head(waiting), at |-> "begin", n |-> 0]]
    /\ waiting' = Tail(waiting)
    /\ UNCHANGED <<seq, tx, event, seen, retained, admin, crashes>>

\* The job ends, completed or failed; the queue remembers the last ones.
Finish(s) ==
    LET all == Append(retained, job[s].key) IN
    /\ job' = [job EXCEPT ![s] = Idle]
    /\ retained' = IF Len(all) > Retained THEN Tail(all) ELSE all

LockRow(s) ==
    /\ At(s, "begin") /\ ~ Locked(job[s].key)
    /\ IF event[job[s].key].status = "pending"
       THEN job' = [job EXCEPT ![s].at = "locked"] /\ UNCHANGED retained
       ELSE Finish(s)
    /\ UNCHANGED <<seq, tx, event, seen, waiting, admin, crashes>>

\* Mutant: one retry too many.
GivesUp_Late(n) == n > MaxRetries

GivesUp(n) == n >= MaxRetries

\* What the statement that slot s waits for makes of its event:
\* markProcessing, markDelivered, and the end of markForRetry, which writes
\* the count or, in one transaction, the dead letter and the status failed,
\* and then leaves the count as it is.
Written(s) ==
    LET e == event[job[s].key]
        n == job[s].n + 1
    IN  CASE job[s].at \in {"locked", "marking"} ->
               IF e.status = "pending" THEN [e EXCEPT !.status = "processing"] ELSE e
          [] job[s].at = "dispatch" -> [e EXCEPT !.status = "delivered"]
          [] job[s].at = "counted" ->
               IF GivesUp(n) THEN [e EXCEPT !.status = "failed"]
               ELSE [status |-> "pending", retries |-> n, due |-> FALSE]
          [] OTHER -> e

\* outbox_events when the statements of some busy slots have taken effect.
Landed(slots) ==
    [k \in DOMAIN event |->
       IF \E s \in slots : job[s].key = k
       THEN Written(CHOOSE s \in slots : job[s].key = k) ELSE event[k]]

\* The connection of the transaction is lost while markProcessing waits on
\* the other one: the server rolls back and releases the row.
LockLost(s) ==
    /\ At(s, "locked")
    /\ job' = [job EXCEPT ![s].at = "marking"]
    /\ UNCHANGED <<seq, tx, event, seen, waiting, retained, admin, crashes>>

\* The update goes through.  An event that is no longer pending is skipped,
\* but the commit on the lost connection fails all the same.
markProcessing(s) ==
    /\ At(s, "marking") /\ ~ Locked(job[s].key)
    /\ event' = Landed({s})
    /\ job' = [job EXCEPT ![s].at =
                 IF event[job[s].key].status = "pending" THEN "dispatch" ELSE "error"]
    /\ UNCHANGED <<seq, tx, seen, waiting, retained, admin, crashes>>

\* The event has been dispatched; the commit on the lost connection throws.
markDelivered(s) ==
    /\ At(s, "dispatch") /\ ~ Locked(job[s].key)
    /\ event' = Landed({s})
    /\ job' = [job EXCEPT ![s].at = "error"]
    /\ UNCHANGED <<seq, tx, seen, waiting, retained, admin, crashes>>

\* A query, or the dispatch, throws and the transaction is rolled back; the
\* statement may take effect although its answer is lost.
QueryFails(s) ==
    /\ job[s] # Idle /\ job[s].at \in {"begin", "locked", "marking", "dispatch"}
    /\ event' \in {event, Landed({s})}
    /\ job' = [job EXCEPT ![s].at = "error"]
    /\ UNCHANGED <<seq, tx, seen, waiting, retained, admin, crashes>>

\* markForRetry reads the count, ...
ReadRetryCount(s) ==
    /\ At(s, "error")
    /\ job' = [job EXCEPT ![s].at = "counted",
                          ![s].n = event[job[s].key].retries]
    /\ UNCHANGED <<seq, tx, event, seen, waiting, retained, admin, crashes>>

\* ... and then writes.
markForRetry(s) ==
    /\ At(s, "counted") /\ ~ Locked(job[s].key)
    /\ event' = Landed({s})
    /\ Finish(s)
    /\ UNCHANGED <<seq, tx, seen, waiting, admin, crashes>>

\* markForRetry throws and the job fails.  (If its write took effect, this
\* is markForRetry.)
RetryFails(s) ==
    /\ At(s, "error") \/ At(s, "counted")
    /\ Finish(s)
    /\ UNCHANGED <<seq, tx, event, seen, waiting, admin, crashes>>

BackoffElapses(k) ==
    /\ k \in DOMAIN event /\ ~ event[k].due
    /\ event' = [event EXCEPT ![k].due = TRUE]
    /\ UNCHANGED <<seq, tx, seen, waiting, job, retained, admin, crashes>>

-----------------------------------------------------------------------------
(* The admin's retry, in two statements, and a restart of the backend.     *)

RetryRead(a, k) ==
    /\ admin[a] = Idle /\ event[k].status = "failed"
    /\ admin' = [admin EXCEPT ![a] = k]
    /\ UNCHANGED <<seq, tx, event, seen, waiting, job, retained, crashes>>

retryEvent(a) ==
    /\ admin[a] # Idle /\ ~ Locked(admin[a])
    /\ event' = [event EXCEPT ![admin[a]] = NewEvent]
    /\ admin' = [admin EXCEPT ![a] = Idle]
    /\ UNCHANGED <<seq, tx, seen, waiting, job, retained, crashes>>

\* Open transactions are rolled back, statements the server already has may
\* take effect, and the queue hands stalled jobs out again.
Crash ==
    /\ crashes < MaxCrashes
    /\ crashes' = crashes + 1
    /\ tx' = [p \in Producer |-> {}]
    /\ seen' = {}
    /\ \E stalled \in Arrangements(Active) : waiting' = stalled \o waiting
    /\ \E reached \in SUBSET {s \in Slot : job[s] # Idle} : event' = Landed(reached)
    /\ job' = [s \in Slot |-> Idle]
    /\ admin' = [a \in Admin |-> Idle]
    /\ UNCHANGED <<seq, retained>>

-----------------------------------------------------------------------------

Init ==
    /\ seq = [a \in Aggregate |-> 0]
    /\ tx = [p \in Producer |-> {}]
    /\ event = <<>>
    /\ seen = {}
    /\ waiting = <<>>
    /\ job = [s \in Slot |-> Idle]
    /\ retained = <<>>
    /\ admin = [a \in Admin |-> Idle]
    /\ crashes = 0

Produce(p) ==
    \/ \E a \in Aggregate : publishTransactional(p, a)
    \/ Commit(p)
    \/ Rollback(p)

\* The steps of a slot that only need the processor and a free connection.
Work(s) ==
    \/ Take(s) \/ LockRow(s) \/ markProcessing(s) \/ markDelivered(s)
    \/ ReadRetryCount(s) \/ markForRetry(s)

\* What happens while no statement fails and no connection is lost.
Undisturbed ==
    \/ \E p \in Producer : Produce(p)
    \/ PollRead \/ PollAdd
    \/ \E s \in Slot : Work(s)
    \/ \E k \in DOMAIN event : BackoffElapses(k)
    \/ \E a \in Admin, k \in DOMAIN event : RetryRead(a, k)
    \/ \E a \in Admin : retryEvent(a)
    \/ Crash

Next ==
    \/ Undisturbed
    \/ \E s \in Slot : LockLost(s) \/ QueryFails(s) \/ RetryFails(s)

Spec == Init /\ [][Next]_vars

\* The poll's timer fires, the worker's slots run and backoffs elapse.
Fairness ==
    /\ WF_vars(PollRead) /\ WF_vars(PollAdd)
    /\ \A s \in Slot : WF_vars(Work(s))
    /\ \A k \in Key : WF_vars(BackoffElapses(k))

\* A database that never refuses a statement: only waiting can go wrong.
HealthySpec == Init /\ [][Undisturbed]_vars /\ Fairness

-----------------------------------------------------------------------------
(* Properties.                                                             *)

\* The events a reader sees of an aggregate are numbered without a gap, at
\* every moment and whatever transactions on the same and on other
\* aggregates commit, roll back or are lost in a crash: no later event is
\* ever visible before an earlier one.
SequenceGapless ==
    \A a \in Aggregate : {k[2] : k \in Of(a, DOMAIN event)} = 1..seq[a]

\* An event is never in two hands: no two slots work on it and no job of it
\* waits while one runs, although polls overlap with running jobs, jobs are
\* remembered or forgotten, and a restart hands jobs out again.
OneWorkerPerEvent ==
    /\ \A s, t \in Slot : job[s] # Idle /\ job[t] # Idle /\ s # t
                            => job[s].key # job[t].key
    /\ \A i, j \in DOMAIN waiting : waiting[i] = waiting[j] => i = j
    /\ Range(waiting) \cap Active = {}

\* src/docs/domain-glossary.md:17 promises at-least-once delivery: an event
\* in the outbox is delivered or ends as a dead letter.
EventHandled ==
    \A k \in Key : k \in DOMAIN event ~>
        k \in DOMAIN event /\ event[k].status \in {"delivered", "failed"}
=============================================================================
