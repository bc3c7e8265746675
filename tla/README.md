# Stellar Viaduct in TLA+

Stellar Viaduct monitors bridged assets on the Stellar network and carries
cross-chain messages. This directory holds TLA+ models of the parts of it that
carry its own logic, the TLC configurations that check them, and proofs checked
by TLAPS. Paths below are relative to the repository's root unless they name a
module; `soroban/` stands for `contracts/soroban/src/` and `backend/` for
`backend/src/`.

## 1. The system

The contracts are written in Rust for Soroban. A contract call is atomic: it
returns and all its writes stay, or it panics or returns an error and none does.
Concurrency in a contract is therefore the order of whole calls by different
parties, with the ledger's clock moving between them. The backend is TypeScript
on Node: several instances share one PostgreSQL and one Redis, and every `await`
is a point where anything else may run.

### Components

| Component | State | Operations | What makes it correct | Status |
|---|---|---|---|---|
| Transfer state machine `contracts/transfer_state_machine` | admin, integration contracts, timeouts, a record and a history per transfer | configuration, `initiate_transfer`, `advance_state`, `rollback_transfer`, `admin_override_state`, votes, `handle_timeout`, `try_auto_progress` | one outcome, release only when vetted, the history is the path, nothing hangs in flight | modelled, proved |
| Message relay `soroban/relay` | chains, operators, messages, one priority queue, counters | send, verify, relay, batch relay, cleanup | the queue is the backlog in order, deliveries are counted once, nothing is reopened | modelled, proved |
| Escrow `soroban/escrow_contract.rs` | deposits, disputes, approvers, fees | create, challenge, vote, verify, release in parts, refund, emergency recovery | paid once and exactly, fees balance, a dispute is decided by its quorum | modelled, proved |
| Emergency recovery `soroban/emergency_fund_recovery.rs` | mode, authorizers, recoveries, ids, total | initialise (again), initiate, approve, execute, cancel | executed once, after its approvals, nothing leaves without a record | modelled, proved |
| Insurance pool `soroban/insurance_pool.rs` | pool, stakes, withdrawal queue, claims, council | stake, withdraw, buy cover, claim, slash, distribute | the books agree, a claim is paid by decision | modelled, proved |
| Multisig treasury `soroban/multisig_treasury.rs` | signers, threshold, transactions | initialise (again), propose, sign, execute, cancel | what is signed can be executed | modelled |
| Rate limiter `soroban/rate_limiter.rs` | windows per user and for all, limits, cooldowns | consume, check, limits, risk, whitelist, trip | windows hold what was transferred, spans are bounded | modelled, proved |
| Liquidity pool history `soroban/liquidity_pool.rs` | a ring of snapshots, a ring of days | `record_pool_state` and the queries | the rings are the latest history after any wrap | modelled, proved |
| Administration `soroban/lib.rs` | pause, SuperAdmins, handover, upgrades, code history | initialise (again), pause, unpause, grant, hand over, propose, approve, execute, roll back | handover freezes what is handed over, upgrades are decisions, rollback restores | modelled, proved |
| Governance `soroban/governance.rs` | powers, delegations, proposals, ballots | propose, vote, delegate, finalize, execute, guardians | the tally is the ballots, outcomes stand | modelled, proved |
| Contract circuit breaker `soroban/circuit_breaker.rs` | guardians, pauses, recovery requests | pause, request, approve, execute | a pause is lifted by its own request, what it pauses is freed by the last one that holds it | modelled, proved |
| Provider circuit breaker `backend/services/providerCircuitBreaker.service.ts` | one row per provider, a history of transitions | `callWithBreaker`, sweep, override, thresholds | an open breaker recovers, counts agree with the history | modelled, proved |
| Transactional outbox `backend/outbox` | sequence and event tables, queue, worker slots | publish in a transaction, poll, dispatch, retry, dead letter | no gaps, one worker per event, every event handled (fails) | partly, proved |
| Horizon stream supervisor `backend/services/horizonStreamSupervisor.service.ts` | cursor, connection, timers, flags | connect, read, reconnect, abort, gap check, add, remove | events in order and once, outages reported, and silence after a first event (not that of a stream aborted while connecting) | modelled, proved |
| Webhook delivery `backend/services/webhook.service.ts`, `backend/workers/webhookDelivery.worker.ts` | delivery rows, jobs, log | queue, post, log, update, retry | the row tells the truth, jobs end | partly, proved |
| Alert windows `backend/services/alertWindowing.service.ts` | windows, summaries | assign, close, summarise | counts never contradict each other | modelled, proved |
| Everything else | - | - | - | not modelled, section 5 |

`PROJECT.json` names the source files, and under "hazards" what is hard to test
in them, each with the line where it bites and the properties that watch it.

### How they interact

Users and integration contracts call the transfer state machine; the escrow,
verifier and oracle are addresses whose calls it accepts. The contracts under
`soroban/` keep separate storage and call neither each other nor the transfer
state machine: they share the ledger and its clock. In the backend a service
writes its change and an outbox event in one transaction; the dispatcher polls
the table and puts jobs into BullMQ. The webhook service has its own queue in
the same Redis. Services may wrap calls to providers in the provider breaker,
whose row all instances share.

### What is hard

- **Ledger time** decides between calls of different parties: a time-out races a
  late vote, a cooldown a change of limits, a timelock a cancellation.
- **Membership that changes during a vote**: the councils of escrow, insurance,
  administration and governance are edited while votes on them are open.
- **Partial failure inside an atomic call**: `batch_relay` swallows its items'
  errors and a rate-limit breach must keep its cooldown, so writes stay.
- **State read before an `await` and used after it**: breaker, alert windows,
  outbox.
- **Locks on two connections** and **job ids** in the outbox; a connection lost
  while another waits for its lock.
- **Initialising again**: the emergency recovery, the main contract and the
  treasury do not ask whether they are initialised already. Whoever calls gets
  the admin's place; counters start anew and ids are given twice, while records,
  roles, balances and the installed code stay.
- **Timers nobody clears**: an abort timer of a failed connection attempt aborts
  the next one.
- **Bounds**: histories with caps, rings that wrap, windows that start anew, a
  queue that remembers a limited number of finished jobs.

## 2. Modules

| Module | Models | Composed by |
|---|---|---|
| `TransferLifecycle` | abstract: the life of a transfer's funds | |
| `TransferStateMachine` | the contract; implements `TransferLifecycle` | `MCTransferStateMachine` |
| `CrossChainRelay` | the relay | - |
| `LedgerClock` | the clock every contract reads | all contracts below |
| `QuorumDecision` | abstract: something put to a vote and carried out once | |
| `EscrowContract`, `EmergencyFundRecovery`, `InsurancePool`, `RateLimiter`, `LiquidityPoolHistory` | the contracts that keep, meter and record funds | `MCFundContracts` |
| `MultisigTreasury` | the treasury | - |
| `ContractAdministration`, `GovernanceContract`, `GuardedPauses` | the contracts that decide who may do what | `MCContractControls` |
| `ProviderCircuitBreaker` | one breaker row and everybody who touches it | `MCProviderCircuitBreaker` |
| `Outbox` | producers, poll, queue, slots, admins | `MCOutbox` |
| `StreamSupervisor`, `WebhookDelivery`, `AlertWindows` | three backend services | `MCBackendServices` |
| `FiniteSums` | lemmas: how a sum over a finite set moves with one term | the proofs below |
| `TransferStateMachineProofs`, `CrossChainRelayProofs`, `OutboxProofs`, `RateLimiterProofs` | the theorems about the module they are named after | |
| `FundContractsProofs` | theorems about the escrow, the recovery, the insurance pool and the pool's history | |
| `ContractControlsProofs` | theorems about administration, governance and guarded pauses | |
| `BackendServicesProofs` | theorems about the stream supervisor, the webhooks, the windows and the provider breaker | |

An operator named like another with an underscore and a suffix
(`Moved_KeepDeadline`) is a mutant: the change a plausible bug would make to the
definition it is named after. No specification uses it; it shows that one
property can fail.

**Contracts.** One action per entry point. A call that panics or returns an error
is an action that is not enabled, so "`x` cannot happen" is a statement about
guards. A caller that must be one fixed address (the admin, the recipient) always
exists and does not appear; where it matters who of several calls, the caller is
a parameter. Amounts are small numbers and integer division is integer division
(fees, slashing, rewards, thresholds in basis points). Some variables record what
the contract returns or emits and does not store (`paid` and `collected` in
`EscrowContract`, `log` in `RateLimiter`, `recorded` in `LiquidityPoolHistory`,
`approvers` in `GuardedPauses`): no guard reads them, properties do.

- `TransferStateMachine`: `left` is `state_deadline - now`, cut off at -1.
  `apply_transition` is shared by all moving calls, with both its panics: a
  deadline beyond `MaxDeadline` (the `u64` overflow) and a full history.
  `rollback_transfer` moves twice in one step, as the code does.
- `CrossChainRelay`: a message's id is its number in the order of sending. A batch
  is a sequence of steps during which no other call runs, which is the same as
  one atomic loop. Payload, fees and signatures are one Boolean per item. What the
  code filters out of its queue (`QueueWithout`) is defined by the positions that
  stay, kept in their order (`Ascending`).
- `EmergencyFundRecovery`: `recoveries` is every recovery ever initiated,
  `recoverySeq` and `totalRecovered` are what the contract stores.
  `initialize_recovery` zeroes both; a record is `Stored` until a later one gets
  its id.
- `MultisigTreasury`: `initialize` resets `count`, so later transactions overwrite
  earlier ones, and counts only the signers it is given, while old ones stay.
- `EscrowContract`: a dispute fixes its threshold at the first vote; release,
  refund and recovery each add to `paid`.
- `RateLimiter`: limits are functions of the window (day, week, month); a window
  starts anew with the first call after its end. The properties speak of positions
  of `log`: which are transfers of whom, since when and on which day.
- `LiquidityPoolHistory`: the rings as the code keeps them, slots and a head; the
  property compares them with the whole sequence of what was recorded, each bucket
  with the positions of its day's snapshots.
- `ContractAdministration`: `Pending` is the one upgrade proposal that can be
  open; `code` and `target` are what rollback reads. `upgrades` and `history` are
  every proposal and execution there ever was, which the stored lists are only the
  end of: `initialize`, which anybody can call again, sets `counter` to zero, so
  that later proposals take the ids, and the records, of earlier ones.
- `GovernanceContract`: `config` is all of the settings, replaced at any time; a
  proposal remembers the majority it was finalized against (`bar`) and the number
  of guardians it was executed on (`asked`), which the contract does not store.
- `GuardedPauses`: whoever calls as a guardian is one. The code compares the
  caller's address with the list but never asks it for a signature
  (`circuit_breaker.rs:659-678`), so a guardian in the model is anybody who names
  one.

**Backend services.** One action per database statement or callback.

- `ProviderCircuitBreaker`: `pc[r]` says where a request stands in
  `callWithBreaker`, `snap[r]` what it has read. The catch block also catches
  failures of `recordSuccess`. Nothing in the repository calls
  `callWithBreaker` yet; the model is of what it does when called.
- `Outbox`: an event is known by its aggregate and number. PostgreSQL and BullMQ
  are three facts: a row lock lasts as long as its transaction, an uncommitted row
  is invisible, and `addBulk` ignores an id that waits, runs or is remembered.
  `markProcessing` waits, on another connection of the pool, for the row lock of
  the transaction that called it. As long as nothing fails it waits for ever
  (finding `OutboxStuck`). The wait ends in one of three ways: the update fails
  (`QueryFails`), for instance by a lock time-out; the transaction's own
  connection is lost (`LockLost`), so that the update goes through, the event is
  dispatched and marked delivered, and the failing commit puts it back for a
  retry; or the process dies (`Crash`), after which each update that was waiting
  has taken effect or not. A row that is left in "processing" is taken up by
  neither the poll nor `retryEvent`.
- `StreamSupervisor`: `conn` is where the one `_connect` call is, `stray` that a
  timer of an earlier attempt is still running. Every event is assumed to carry a
  paging token or an id; one with neither would be handed on without moving the
  cursor (`horizonStreamSupervisor.service.ts:201-205`) and could come twice.
- `WebhookDelivery`: a run of the worker is cut into post, log, update and the
  queue's bookkeeping, each of which can fail. The jobs ask for a backoff of type
  "custom" that no worker defines; the model therefore lets a failed attempt be
  retried or left active until the stalled check finds it.
- `AlertWindows`: read, write and summary are separate steps of each request.

## 3. Model checking

### Runs that pass

| Run | Question | Instance |
|---|---|---|
| `Transfer` | Is the history the path, is there one outcome, is every release vetted, is the life cycle implemented, who may revive a transfer or declare its funds locked, does every transfer in flight end? | one transfer, six addresses, two sets of integration contracts, 6 rows of history, a timeout that overflows |
| `Relay` | Is the queue the ordered backlog, do the counters agree, do closed messages stay closed, does the queue drain? | three messages, two priorities, two times to live, batches, cleanups of one and two |
| `FundContracts` | Is money paid once and exactly, do books balance, are votes kept, are recoveries and claims quorum decisions, do windows and rings hold what happened? | seven suites, see below |
| `ContractControls` | Are upgrades decisions that can be rolled back, does a handover hand over what was offered, are tallies the ballots, do outcomes stand, do pauses hold, also under settings that change and when the contract is initialised again? | five suites |
| `BreakerRecovery` | Do timer and trip counter survive stale writes, does an open breaker recover? | two requests, three calls, two thresholds, two timeouts |
| `OutboxSafety` | Is an event ever in two hands, are visible events numbered without a gap? | two events, two producers, two slots, two admins, two restarts, any connection lost |
| `BackendServices` | Are events in order and once, is silence reported, do delivery rows tell the truth, do jobs end, do window counts agree? | three suites |

`FundContracts`, `ContractControls` and `BackendServices` each compose components
that share at most the clock. A variable `inUse`, fixed at the start, says which
one is called while the others rest. This loses nothing: no action of one reads a
variable of another, so a behaviour of all of them, seen by one, is a behaviour of
that one alone. Some components have two suites, each with a different part of
the settings held fixed, because both at once are too many states:

- escrow: `escrow` (one deposit while the admin changes approvers and fees) and
  `escrows` (two deposits, batches across them, fixed settings);
- rate limiter: `limits` (one user, one setting at a time away from its start)
  and `users` (two users, fixed settings);
- administration: `handover` (with one upgrade proposal) and `upgrades` (a
  history of upgrades and rollbacks under one admin);
- governance: `governance` (changing settings, guardians) and `delegation`
  (changing powers and delegations).

### Runs that find a violation

Each is a disagreement between the code and what its comments or docs say;
`PROJECT.json`, "findings", quotes both.

| Run | What TLC shows |
|---|---|
| `BreakerStaleFlip` | a stale read makes a closed breaker half-open |
| `OutboxStuck` | the dispatcher waits for its own row lock; nothing is delivered |
| `TreasuryNeverPays` | the last signature sets a status that `execute_transaction` refuses |
| `GuardianAlone` | one guardian gives all the approvals of a recovery |
| `GovernancePower` | changing the power of a delegator loses or makes power |

### Refinement

`TransferStateMachine` implements `TransferLifecycle` (`LifecycleSpec`). Three
contracts put something to a vote and are shown to implement the same
`QuorumDecision`: recoveries (`RecoveryIsDecision`), claims (`ClaimIsDecision`)
and upgrades (`UpgradeIsDecision`). They differ in what the quorum is: a constant,
the council's threshold of the moment, and the threshold that was computed when
the upgrade was proposed. `QuorumDecision` says that votes are of different
voters, that approval needs the quorum at the time of the last vote, that only
what is approved is carried out, once, and that an outcome stays.

### Bounds and why they are enough

- *Transfer*: `MaxHistory` is 6 instead of 48: long enough for a time-out, a
  recovery, a second time-out, and for every path to run into the cap. Timeouts
  are 1 or 2 and `MaxDeadline` is 1, so that one of them overflows. Transfers
  share only configuration, and the theorems hold for any number.
- *Relay*: three messages make every insertion position and a removal from the
  middle occur. Two priorities suffice, since the code only compares.
- *Escrow*: an amount of 5 with parts of 2 and 5 and a fee of 20% makes a partial
  release, a rounded fee, and a release of the rest. A lock of 1 on a clock of 2
  gives a call before, at and after it.
- *Recovery, insurance*: two recoveries or claims, two voters, so that one votes
  twice in vain and that two are open at once, or, after the contract is
  initialised again, that the second takes the first one's id; two stakes by two
  stakers so that a share is rounded and one is slashed while the other waits.
- *Rate limiter*: windows of 2, 3 and 4 units end at different moments and each
  restarts once while another runs.
- *Pool history*: rings of 2 with four snapshots wrap twice.
- *Administration*: three accounts, four proposals in the `upgrades` suite: two
  upgrades, a rollback and an upgrade after it. There the contract is initialised
  again once, after an upgrade, and a proposal with a used id can follow; in `handover`, whenever a handover is pending, and the pause changes
  only before there is a proposal, which does not look at it.
- *Governance*: powers 1 and 4 are told apart by quadratic counting (1 and 2); two
  settings that differ in everything, thresholds of one and two guardians
  included.
- *Guarded pauses*: two pauses that overlap, thresholds 1 and 2.
- *Breaker*: two requests give one that trips or closes the breaker and one that
  is late with a stale read; three calls let one come back.
- *Outbox*: `Retained` is 1 instead of 100 so that a finished job's id is
  remembered and then forgotten; polls of 1 leave a due event out; `MaxRetries` 3
  takes both branches of `markForRetry` twice. Two restarts let one leave a row in
  "processing" and the next find it there.
- *Stream*: three reconnections, four events. *Webhooks*: two deliveries, three
  attempts instead of the code's 7, one stalled check. *Windows*:
  three alerts, two priorities, two closers.
- Symmetry is used over sets whose members the code only compares for equality,
  and never in a run with a liveness property.

Deadlock is checked in every passing run but two, and does not occur.
`BackendServices` has services that come to rest (all alerts placed, all windows
closed), and in `OutboxSafety` every event may be left in "processing". Of the
runs that find a violation, those of the outbox and the treasury find systems that
stop.

### Fairness and why the code justifies it

- *Transfer*: time passes, and somebody calls `handle_timeout` of a transfer that
  stays late: it is permissionless. No initiator, admin or integration contract is
  assumed to act.
- *Relay*: a batch that has begun ends (it is one call). Time and the
  permissionless cleanup are strongly fair because a batch in progress disables
  both for some steps.
- *Breaker*: time passes, the sweep's `setInterval` fires
  (`backend/jobs/providerCircuitBreaker.job.ts:24`), and its update does not fail
  every time. No request and no admin is assumed to act.
- *Stream*: the gap check's interval fires. Neither the network nor the server
  promises anything.
- *Webhooks*: a worker goes on with a run it has started, waiting jobs are taken
  and BullMQ's stalled check runs. The endpoint and the database may refuse for
  ever.
- *Outbox* (`OutboxStuck` only): the poll's timer fires, a slot that has something
  to do does it, a backoff elapses, and the database refuses no statement. So the
  violation is not for want of a step.
- *Treasury* (`TreasuryNeverPays` only): time passes and somebody keeps calling
  `execute_transaction`.

## 4. Proofs

TLAPS proves every safety and action property of the passing runs, and the
refinements, for all values of the constants that satisfy the named assumptions
of the module: the size of a collection, the number of callers and of calls, the
amounts, limits, lengths and rates are arbitrary. What is assumed beyond the type
of a constant is that the sets the code counts or sums over are finite (operators,
users, approvers, stakers, signers, accounts, voters, guardians, aggregates,
requests, alerts), that lengths, timeouts and capacities are positive, and that a
ring of snapshots has more than one slot; the code satisfies all of it.

Which specification a theorem is about: `Spec` for the transfer state machine, the
relay, the outbox and the provider breaker; for the modules that an MC module
composes, `EscrowSpec`, `RecoverySpec`, `InsuranceSpec`, `LimiterSpec`,
`PoolHistorySpec`, `AdminSpec`, `GovSpec`, `GuardianSpec` (the contract's calls and
the clock's `Tick`), `StreamSpec`, `WebhookSpec` and `WindowSpec`. The composition
lets nothing else touch a component's variables, so its behaviours, seen by the
component, are behaviours of that specification.

| Theorem | States | Inductive invariant and argument |
|---|---|---|
| **`TransferStateMachineProofs`** | | |
| `TypeCorrect`, `HistoryIsThePathHolds`, `SettlesOnceHolds`, `ReleaseIsVettedHolds` | `[]Inv` | each inductive relative to `TypeOK`: the history keeps what the state forgets (who moved it, from where), so no other strengthening is needed |
| `RevivedOnlyByAdminHolds`, `LockedByEscrowHolds` | `[][A]_vars` | from `TypeOK`, by the edges that leave TimedOut and enter EscrowLocked |
| `LifecycleHolds` | `=> LifecycleSpec` | each edge maps to an abstract step or a stutter, lifted to all transfers |
| **`CrossChainRelayProofs`** | | |
| `TypeCorrect`, `QueueSoundHolds`, `DeliveriesAgreeHolds` | `[]Inv` | `FullInv`. Every operation sends a message, relays one, or does neither. The queue afterwards is what is left of it when some positions are kept (`QueueThinned`) or has one message more at the place `QueuePosition` gives (`QueueSent`). `Accounts` bounds the total of deliveries by the numbers of relayed and of ended messages, which a delivery moves together |
| `ClosedForGoodHolds` | `[][A]_vars` | from the types of messages: no operation asks the queue whether a message is closed |
| **`FundContractsProofs`** | | |
| `EscrowSoundHolds` | `[]EscrowSound` | `EscrowInv`: a fee is below its deposit, what is released and refunded of a deposit adds up with its status, a resolved dispute had its quorum; the fees balance by `SumChange` at the one deposit that settles |
| `VotesStandHolds` | `[][A]_vars` | from `EscrowInv`; a batch touches each of its deposits as the single call does |
| `RecoverySoundHolds` | `[]RecoverySound` | with the types: an execution moves one term of the sum over all recoveries there ever were and the balance by the same amount; `initialize_recovery` moves neither |
| `RecoveryIsDecisionHolds`, `ClaimIsDecisionHolds` | refinement of `QuorumDecision` | a call is a step of its own proposal's decision, and for each of the others it is a stutter, also where it reuses an id; the types are all the invariant this needs |
| `PoolSoundHolds` | `[]PoolSound` | `InsuranceInv`: in addition, a staker's debt is never above what the stake has earned, without which a reward could be negative; the balances are five sums (stakes, queue, slashed, withdrawn, paid claims), each moved by the calls that touch it |
| `HistorySoundHolds` | `[]HistorySound` | `PoolInv`: the ring of snapshots holds the last of `recorded`, and *there is* a sequence of all days' buckets there ever were, ascending and complete, of which the other ring holds the last. Five lemmas about rings (`HeldEmpty`, `HeldPushed`, `HeldReplaced`, `HeldLatest`, `HeldChronological`) do all arithmetic on slots and know nothing of snapshots |
| **`RateLimiterProofs`** | | |
| `LimiterSoundHolds` | `[]LimiterSound` | `LimiterInv`, below |
| **`ContractControlsProofs`** | | |
| `UnpauseWaitsHolds` | `[][A]_vars` | `PauseInv`: while a pause lasts, `until` is its start plus the timelock |
| `AdminSoundHolds` | `[]AdminSound` | `AdminInv`: what a rollback installs depends on the target stored before, so `Restoring` adds that the target is what ran before the last upgrade and that a pending rollback is to it; `Governed` adds that every proposal's threshold is that of its members |
| `UpgradeIsDecisionHolds` | refinement of `QuorumDecision` | only the last proposal can be pending (`PendingIsLast`), so one quorum at a time is enough, and an id that is given again belongs to another item |
| `PausesSoundHolds` | `[]PausesSound` | inductive with the clock's type |
| `HeldWhilePausedHolds` | `[][A]_vars` | by `FreedByRecovery`: only `execute_recovery` deactivates a pause, and it changes that pause alone; what held the place before and does not afterwards is therefore that one, and its request had its approvals |
| `GovSoundHolds` | `[]GovSound` | `GovInv`: each tally is the sum of that proposal's ballots, the supply the sum of the powers, a proposal that passed had its majority and its end behind it, a queued one falls due after that end and is executed no earlier, one the guardians executed was an emergency with as many approvals as it was executed on, and nobody has voted on a proposal that does not exist |
| `OutcomesStandHolds` | `[][A]_vars` | from `GovInv`: every call that writes a proposal asks its status first |
| **`BackendServicesProofs`** | | |
| `StreamSoundHolds` | `[]StreamSound` | `StreamInv`: an open response was asked for with the current cursor, a failed attempt is counted once, and nothing is scheduled or running for a stream that was removed |
| `RecordIsTrueHolds` | `[]RecordIsTrue` | `WebhookInv`: each run of a job was a counted attempt, a counted stall or is under way (`RunsCounted`); a run knows only what the endpoint answered and the log shows (`RunKnows`); a row says only what that allows (`RowTells`) |
| `WindowsSoundHolds` | `[]WindowsSound` | `WindowInv`: what a request has read and not yet written back is never more than what the window holds, plus itself; so an overwritten count can lose an alert and never invent one |
| `TypeCorrect`, `OpenHasTimerHolds`, `TripsAreCountedHolds` | `[]Inv` | `BreakerInv`. A bound on the counts is not inductive by itself, since stale counts are written back: `Bounded` counts, for each request, the failure and the trip it may still add. A request enters "f_log" only with the step that counts its trip |
| **`OutboxProofs`** | | |
| `TypeOKHolds`, `SequenceGaplessHolds`, `OneWorkerPerEventHolds` | `[]Inv` | `OutboxInv`. A commit makes `SequenceGapless` true only if what the transaction holds are exactly the numbers after the committed ones (`TxGapless`) and no other transaction holds numbers of the aggregate (`TxAlone`). Jobs: sequences without repetition stay so when disjoint ones are joined (`ConcatInjective`) or the head is taken (`TailInjective`) |

**Sums.** The prover's induction theorems cannot be instantiated, and a sum over a
finite set is defined by recursion. `FiniteSums` therefore proves its own
induction, first-order: a set of subsets of a finite S that holds T whenever it
holds T less each of its elements holds every subset of S (`SubsetInduction`),
because strict inclusion of finite sets is well-founded (`WFMin`) and so a set that
failed would have a smallest counterexample. From it follow that the recursion
defines one sum (`SumsExist`, `SumsAgree`), that it does not depend on the order
(`SumTakeOut`), and the lemmas the contracts use: one term is added (`SumExtend`),
changed (`SumChange`) or nothing is (`SumSame`), two sets are joined (`SumUnion`),
a part is not more than the whole (`SumMonotone`).

**The rate limiter.** A counter says what was transferred since its window began
(`Running`); that alone does not bound a span that crosses windows. `Spaced` adds
that every transfer was counted in a window, which held no more than the limit of
that moment, and that two windows are the same or begin at least a length apart.
A span as long as a window then meets two of them at most: the transfers of the
last one and those before, which all share another (`SpanBounded`); hence twice the
highest limit. `Cooled` says every breach's cooldown ends no later than the
stored end, unless a clear came after it, so nothing is transferred before. `DaysHeld` follows the
history's last day and those before it.

Two kinds of facts needed a different wording of the model, not other contents:
what was said with `SelectSeq`, `FoldLeft` or a sort in `CrossChainRelay`,
`RateLimiter` and `LiquidityPoolHistory` is now said of positions, which TLC
evaluates as well and the provers can reason about.

Only model-checked: the liveness properties (`InFlightEnds`, `QueueDrains`,
`OpenEnds`, `DeadIsReported`, `JobsEnd`). With fairness they need `ENABLED`, which
is out of the prover's reach. The properties of the runs that find a violation are
false and have no theorem.

No module declares a RECURSIVE operator.

## 5. What is not modelled, what was noted, and what is next

### Not modelled

- `fee_distribution.rs`, `bridge_reserve_verifier.rs`, `submission_replay.rs` and
  `submission_pause.rs` are not in the module list of `soroban/lib.rs` and are not
  compiled. Of what is modelled, `relay` is not in that list either, and
  `governance`, `insurance_pool`, `multisig_treasury`, `rate_limiter` and
  `circuit_breaker` are compiled only for tests (`lib.rs:6-39`; the comment there
  calls the first two standalone contracts). They are modelled for what they do
  when deployed.
- `ingestionQueueManager` and the backfill have no caller; `adminRotation` and
  `alertEscalation` parse columns that the database driver has already parsed and
  throw on every row.
- Registries (assets, trust, blessing, priority, metadata), sessions and API keys
  are single writes without a behaviour over several steps. Reputation, reports,
  queries and exports compute from what is stored.
- The frontend, the SDK, the HTTP layer, the WebSocket fan-out, notifications and
  deployment files are formatting and I/O. They are most of the repository's
  lines, which is why the models cover a small share of them.
- Left out of modelled components: hashes, signatures, payload limits and events
  everywhere; fallback providers and the audit log (breaker); event handlers,
  deletion of old events, bulk retry, start and stop (outbox); the rate limiter
  and two simultaneous runs of one job after a lost lock (webhooks); the formulas
  of impermanent loss and depth (pool); role kinds that decide nothing
  (administration).

### Noted while reading

- A transfer whose history is full can neither time out nor settle
  (`contracts/transfer_state_machine/src/lib.rs:690`), although
  `docs/transfer-state-machine.md:75` calls `handle_timeout` a move that anybody
  can make once the deadline has passed.
- A batch rewrites an expired message's status, also from Relayed, and leaves it
  in the queue (`soroban/relay/mod.rs:713`). `DeliveriesAgree` allows for it.
- A recovery of a transfer keeps `verification_ok` and `oracle_ok`, so a vote of an
  earlier round counts in the next (`transfer_state_machine/src/lib.rs:459`). An
  override does not: `ReleaseIsVetted` asks for an override of the very edge that
  entered the vetted states in this round, or for the vote.
- The producer destructures the result of a raw query as an array
  (`backend/outbox/eventProducer.ts:59`). The result of PostgreSQL's driver is an
  object that cannot be iterated, so with it no event is inserted at all; the
  tests run on SQLite. The model is of the outbox when rows do come into the table.
- A stream that ends or is aborted falls silent with status "connected"; the gap
  check reports it only after a first event
  (`horizonStreamSupervisor.service.ts:177`, `:244`). `DeadIsReported` says so. One
  whose attempt is aborted before the server answers stays "connecting" with
  nothing scheduled, and nothing ever reports it.
- The success of a slow request closes a breaker that was opened after the request
  had read its row (`providerCircuitBreaker.service.ts:101`). The model does the
  same; `OpenHasTimer` says only that the row stays consistent.
- `initialize_recovery`, the main contract's `initialize` and the treasury's can be
  called again by anybody (`emergency_fund_recovery.rs:96`, `lib.rs:1237`,
  `multisig_treasury.rs:111`). What survives it is proved of the first two
  (`RecoverySound`, `AdminSound` and the refinements of `QuorumDecision`). What does
  not: `get_total_recovered` ("Get total funds recovered",
  `emergency_fund_recovery.rs:551`) starts at zero again, and `get_upgrade_history`
  ("Return historical execution records for all completed upgrades",
  `soroban/lib.rs:4128`) starts empty while the upgraded code runs. The `initialize`
  of the other modelled contracts refuses a second call.
- A retry that is due is kept out of the queue for as long as BullMQ remembers the
  job that failed, since both have the id `outbox-<event id>` and the last 100
  completed jobs are kept (`eventDispatcher.ts:143`, `:44`); in a quiet system that
  is for ever. The model has the remembered ids (`retained`); no property of a
  passing run depends on the retry being made.
- Rejecting a claim after payouts can drive the pool's total below zero
  (`insurance_pool.rs`, `verify_claim`); `PoolSound` says of the total only that
  it balances, and that no other amount is overdrawn.
- No guardian is asked for a signature (`circuit_breaker.rs:659-678`).
- No pause of the contract's circuit breaker ends by itself: its deadline is
  stored and decides nothing. `docs/circuit-breaker-contract.md:227` says "System
  automatically unpauses".
- Upgrades and handovers do not look at the contract's pause, while the comment at
  `soroban/lib.rs:5059` has every state-changing function do so.
- Rounding of rewards and premiums leaves units in the pool
  (`insurance_pool.rs:690`).
- `emergency_recover` pays an amount that a refund or a fee may already have
  reduced (`escrow_contract.rs:553`); `SettledExactly` excludes it.
- A dispute cannot be decided any more when the board shrinks below its threshold
  (`escrow_contract.rs:340`).
- Signing a cancelled treasury transaction sets it to Approved
  (`multisig_treasury.rs:535`).
- `check_limit` looks neither at the weekly and monthly counts nor at the global
  limits, and windows called "rolling" start anew (`rate_limiter.rs`).
- A webhook's row is inserted before its job: without the job it stays pending
  (`webhook.service.ts:439`).
- A late write of a decommission reopens a row that was completed or rolled back
  (`sourceDecommission.service.ts:131`).

### Next

1. Abstract specifications for what is so far stated as invariants: the queue of
   the relay as a priority queue, the two rings as the last of a sequence, and the
   proofs of those refinements.
2. The job lock with its time to live around the reconciliation job
   (`backend/utils/lock.ts`, `backend/workers/reconciliation.job.ts`): two runs at
   once when the first outlives its lock.
3. Source decommission and maintenance as staged workflows; operator rotation
   with its grace period.
4. The composition of the escrow with the transfer state machine, once the
   repository connects the two: today each only knows an address.
