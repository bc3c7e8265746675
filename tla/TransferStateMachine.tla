------------------------ MODULE TransferStateMachine ------------------------
(***************************************************************************)
(* The Soroban contract contracts/transfer_state_machine: the lifecycle of *)
(* a bridge transfer, driven by its initiator, the admin, the escrow,      *)
(* verifier and oracle contracts, and by anybody through the two           *)
(* permissionless entry points handle_timeout and try_auto_progress.       *)
(*                                                                         *)
(* A contract call is one atomic step: a panic rolls the transaction back, *)
(* so a call that panics is an action that is not enabled, and a call that *)
(* returns early without writing is a stuttering step.                     *)
(*                                                                         *)
(* Ledger time only matters through now <= state_deadline.  A transfer     *)
(* therefore keeps  left = state_deadline - now,  cut off at -1, and Tick  *)
(* is the passing of one unit of ledger time.  Amount, asset, destination, *)
(* bridge type and the notes are opaque to the contract and are left out.  *)
(***************************************************************************)
EXTENDS Integers, Sequences

CONSTANTS
    Address,        \* every account and contract that can call
    AdminChoices,   \* addresses that may call initialize
    Initiators,     \* addresses that may start a transfer
    NoAddress,      \* stands for "Admin is not set yet"
    Integrations,   \* argument triples of set_integration_contracts
    TimeoutChoices, \* arguments of the two timeout setters
    TunableStates,  \* states whose timeout the admin changes
    SeedTimeout,    \* seed_default_timeouts: the nine seeded states
    DefaultTimeout, \* the value initialize gives DefaultTimeoutSecs
    MaxDeadline,    \* u64::MAX - now: a longer timeout overflows and panics
    MaxHistory,     \* MAX_HISTORY_PER_TRANSFER
    MaxTransfers    \* bound of the model on the number of transfers

TransferMode == {"Standard", "FastTrack", "Insured"}

\* The seven states from which a transfer can still fail, time out or be
\* rolled back (can_rollback_from lists exactly these).
InFlight == {"Initiated", "AwaitingSource", "EscrowPending", "EscrowLocked",
             "VerificationPending", "OraclePending", "ReleasePending"}
Terminal == {"Completed", "Failed", "RolledBack", "TimedOut"}
Final    == {"Completed", "Failed", "RolledBack"}

TransferState == InFlight \cup Terminal \cup {"RollingBack"}

SeededStates == InFlight \cup {"RollingBack", "Failed"}

IntegrationTriple ==
    [escrow : Address, verifier : Address, oracle : Address]

ASSUME AddressAssumption ==
    /\ NoAddress \notin Address
    /\ AdminChoices \subseteq Address
    /\ Initiators \subseteq Address
    /\ Integrations \subseteq IntegrationTriple

ASSUME TimeoutAssumption ==
    /\ TimeoutChoices \subseteq Nat \ {0}
    /\ TunableStates \subseteq TransferState
    /\ SeedTimeout \in [SeededStates -> Nat \ {0}]
    /\ DefaultTimeout \in Nat \ {0}

ASSUME BoundAssumption ==
    /\ MaxDeadline \in Nat
    /\ MaxHistory \in Nat
    /\ MaxTransfers \in Nat

VARIABLES
    admin,          \* DataKey::Admin, NoAddress until initialize
    contracts,      \* EscrowContract, VerifierContract, OracleContract
    timeout,        \* DataKey::Timeout(state), 0 when the key is absent
    defaultTimeout, \* DataKey::DefaultTimeoutSecs
    seq,            \* DataKey::TransferSeq
    transfer,       \* DataKey::Transfer(id), ids are 1..seq
    history         \* DataKey::History(id)

config == <<admin, contracts, timeout, defaultTimeout>>
vars == <<admin, contracts, timeout, defaultTimeout, seq, transfer, history>>

Transfer == [initiator : Address, mode : TransferMode,
             state : TransferState, left : Int,
             verification_ok : BOOLEAN, oracle_ok : BOOLEAN]

LogEntry == [from : TransferState, to : TransferState, actor : Address]

Ids == 1..seq

TypeOK ==
    /\ admin \in Address \cup {NoAddress}
    /\ admin # NoAddress => contracts \in IntegrationTriple
    /\ timeout \in [TransferState -> Nat]
    /\ defaultTimeout \in Nat
    /\ seq \in 0..MaxTransfers
    /\ seq > 0 => admin # NoAddress
    /\ transfer \in [Ids -> Transfer]
    /\ history \in [Ids -> Seq(LogEntry)]

-----------------------------------------------------------------------------
(* Helpers of the contract.                                                *)

timeout_secs_for(s) == IF timeout[s] > 0 THEN timeout[s] ELSE defaultTimeout

\* now + timeout must fit in a u64: the release profile checks overflow.
DeadlineFits(s) == timeout_secs_for(s) <= MaxDeadline

transition_allowed(t, from, to) ==
    \/ <<from, to>> \in {<<"Initiated", "AwaitingSource">>,
                         <<"AwaitingSource", "EscrowPending">>,
                         <<"EscrowPending", "EscrowLocked">>,
                         <<"EscrowLocked", "VerificationPending">>,
                         <<"ReleasePending", "Completed">>,
                         <<"RollingBack", "RolledBack">>}
    \/ <<from, to>> = <<"Initiated", "EscrowPending">> /\ t.mode = "FastTrack"
    \/ <<from, to>> = <<"VerificationPending", "OraclePending">>
       /\ t.verification_ok
    \/ <<from, to>> = <<"OraclePending", "ReleasePending">> /\ t.oracle_ok
    \/ from \in InFlight /\ to \in {"Failed", "TimedOut", "RollingBack"}

\* Mutant: the admin may also complete a transfer that timed out.
OverrideEdges_Complete ==
    {<<"TimedOut", "Completed">>, <<"TimedOut", "EscrowLocked">>,
     <<"TimedOut", "ReleasePending">>}

OverrideEdges ==
    {<<"TimedOut", "Failed">>, <<"TimedOut", "RolledBack">>,
     <<"TimedOut", "EscrowLocked">>, <<"TimedOut", "ReleasePending">>,
     <<"Failed", "RollingBack">>, <<"OraclePending", "ReleasePending">>,
     <<"VerificationPending", "OraclePending">>}

\* Mutant: the escrow step is left to the common initiator-or-admin rule.
assert_advance_auth_NoEscrow(caller, t, from, to) ==
    caller \in {t.initiator, admin, contracts.escrow}

\* assert_advance_auth repeats the two flag checks of transition_allowed,
\* which has already failed the call when they do not hold.
assert_advance_auth(caller, t, from, to) ==
    IF <<from, to>> = <<"EscrowPending", "EscrowLocked">>
    THEN caller \in {contracts.escrow, admin}
    ELSE caller \in {t.initiator, admin}

\* Mutant: a deadline is computed for terminal states too.
CanEnter_Always(id, to, rows) ==
    /\ DeadlineFits(to)
    /\ Len(history[id]) + rows <= MaxHistory

\* Mutant: the deadline of the state that was left stays in force.
Moved_KeepDeadline(t, to) == [t EXCEPT !.state = to]

\* apply_transition moves the record (a terminal state keeps the old
\* deadline) and appends one history row; it panics when the deadline
\* overflows or the history is full.
CanEnter(id, to, rows) ==
    /\ to \notin Terminal => DeadlineFits(to)
    /\ Len(history[id]) + rows <= MaxHistory

Moved(t, to) ==
    [t EXCEPT !.state = to,
              !.left = IF to \in Terminal THEN @ ELSE timeout_secs_for(to)]

Row(from, to, actor) == [from |-> from, to |-> to, actor |-> actor]

apply_transition(id, to, actor) ==
    /\ CanEnter(id, to, 1)
    /\ transfer' = [transfer EXCEPT ![id] = Moved(@, to)]
    /\ history' = [history EXCEPT
                     ![id] = Append(@, Row(transfer[id].state, to, actor))]

-----------------------------------------------------------------------------
(* Configuration calls.                                                    *)

initialize(a) ==
    /\ admin = NoAddress
    /\ admin' = a
    /\ contracts' = [escrow |-> a, verifier |-> a, oracle |-> a]
    /\ timeout' = [s \in TransferState |->
                     IF s \in SeededStates THEN SeedTimeout[s] ELSE 0]
    /\ defaultTimeout' = DefaultTimeout
    /\ seq' = 0
    /\ UNCHANGED <<transfer, history>>

set_integration_contracts(caller, c) ==
    /\ admin # NoAddress /\ caller = admin
    /\ contracts' = c
    /\ UNCHANGED <<admin, timeout, defaultTimeout, seq, transfer, history>>

set_default_timeout(caller, secs) ==
    /\ admin # NoAddress /\ caller = admin
    /\ secs > 0
    /\ defaultTimeout' = secs
    /\ UNCHANGED <<admin, contracts, timeout, seq, transfer, history>>

set_state_timeout(caller, s, secs) ==
    /\ admin # NoAddress /\ caller = admin
    /\ secs > 0
    /\ timeout' = [timeout EXCEPT ![s] = secs]
    /\ UNCHANGED <<admin, contracts, defaultTimeout, seq, transfer, history>>

-----------------------------------------------------------------------------
(* Transfer calls.                                                         *)

NewTransfer(initiator, mode) ==
    [initiator |-> initiator, mode |-> mode, state |-> "Initiated",
     left |-> timeout_secs_for("Initiated"),
     verification_ok |-> FALSE, oracle_ok |-> FALSE]

\* Mutant: the empty history is not stored.
initiate_transfer_NoHistory(initiator, mode) ==
    /\ admin # NoAddress
    /\ seq < MaxTransfers
    /\ DeadlineFits("Initiated")
    /\ seq' = seq + 1
    /\ transfer' = Append(transfer, NewTransfer(initiator, mode))
    /\ UNCHANGED <<config, history>>

initiate_transfer(initiator, mode) ==
    /\ admin # NoAddress
    /\ seq < MaxTransfers
    /\ DeadlineFits("Initiated")
    /\ seq' = seq + 1
    /\ transfer' = [i \in 1..(seq + 1) |->
                      IF i <= seq THEN transfer[i]
                                  ELSE NewTransfer(initiator, mode)]
    /\ history' = [i \in 1..(seq + 1) |->
                     IF i <= seq THEN history[i] ELSE <<>>]
    /\ UNCHANGED config

advance_state(caller, id, next) ==
    LET t == transfer[id] IN
    /\ transition_allowed(t, t.state, next)
    /\ assert_advance_auth(caller, t, t.state, next)
    /\ apply_transition(id, next, caller)
    /\ UNCHANGED <<config, seq>>

\* A terminal transfer is an early return; the row's actor is the initiator
\* although anybody may call.
handle_timeout(id) ==
    LET t == transfer[id] IN
    /\ t.state \notin Terminal
    /\ t.left < 0
    /\ transition_allowed(t, t.state, "TimedOut")
    /\ apply_transition(id, "TimedOut", t.initiator)
    /\ UNCHANGED <<config, seq>>

\* Mutant: the second row names the state the call began in.
rollback_transfer_StaleFrom(caller, id) ==
    LET t == transfer[id] IN
    /\ caller \in {t.initiator, admin}
    /\ t.state \in InFlight
    /\ CanEnter(id, "RollingBack", 2)
    /\ transfer' = [transfer EXCEPT
                      ![id] = Moved(Moved(@, "RollingBack"), "RolledBack")]
    /\ history' = [history EXCEPT
                     ![id] = Append(Append(@, Row(t.state, "RollingBack", caller)),
                                    Row(t.state, "RolledBack", caller))]
    /\ UNCHANGED <<config, seq>>

\* One call, two transitions: both rows are written or neither is.
rollback_transfer(caller, id) ==
    LET t == transfer[id] IN
    /\ caller \in {t.initiator, admin}
    /\ t.state \in InFlight
    /\ CanEnter(id, "RollingBack", 2)
    /\ transfer' = [transfer EXCEPT
                      ![id] = Moved(Moved(@, "RollingBack"), "RolledBack")]
    /\ history' = [history EXCEPT
                     ![id] = Append(Append(@, Row(t.state, "RollingBack", caller)),
                                    Row("RollingBack", "RolledBack", caller))]
    /\ UNCHANGED <<config, seq>>

\* Mutant: the check for true finals is dropped.
admin_override_state_AnyState(caller, id, next) ==
    /\ caller = admin
    /\ <<transfer[id].state, next>> \in OverrideEdges
    /\ apply_transition(id, next, caller)
    /\ UNCHANGED <<config, seq>>

admin_override_state(caller, id, next) ==
    LET t == transfer[id] IN
    /\ caller = admin
    /\ t.state \notin Final
    /\ <<t.state, next>> \in OverrideEdges
    /\ apply_transition(id, next, caller)
    /\ UNCHANGED <<config, seq>>

\* Mutant: the verifier may revise its answer at any time.
submit_verification_result_AnyState(caller, id, ok) ==
    /\ caller = contracts.verifier
    /\ transfer' = [transfer EXCEPT ![id].verification_ok = ok]
    /\ UNCHANGED <<config, seq, history>>

submit_verification_result(caller, id, ok) ==
    /\ caller = contracts.verifier
    /\ transfer[id].state = "VerificationPending"
    /\ transfer' = [transfer EXCEPT ![id].verification_ok = ok]
    /\ UNCHANGED <<config, seq, history>>

submit_oracle_result(caller, id, ok) ==
    /\ caller = contracts.oracle
    /\ transfer[id].state = "OraclePending"
    /\ transfer' = [transfer EXCEPT ![id].oracle_ok = ok]
    /\ UNCHANGED <<config, seq, history>>

\* The state that try_auto_progress moves a transfer to, if there is one.
AutoNext(t) ==
    {n \in {"OraclePending", "ReleasePending"} :
        \/ t.state = "VerificationPending" /\ t.verification_ok
           /\ n = "OraclePending"
        \/ t.state = "OraclePending" /\ t.oracle_ok /\ n = "ReleasePending"}

try_auto_progress(id) ==
    LET t == transfer[id] IN
    \E next \in AutoNext(t) :
        /\ transition_allowed(t, t.state, next)
        /\ apply_transition(id, next, t.initiator)
        /\ UNCHANGED <<config, seq>>

-----------------------------------------------------------------------------
(* Ledger time.                                                            *)

Tick ==
    /\ \E id \in Ids : transfer[id].left >= 0
    /\ transfer' = [id \in Ids |->
                      [transfer[id] EXCEPT !.left = IF @ >= 0 THEN @ - 1 ELSE @]]
    /\ UNCHANGED <<config, seq, history>>

-----------------------------------------------------------------------------

Init ==
    /\ admin = NoAddress
    /\ contracts = <<>>
    /\ timeout = [s \in TransferState |-> 0]
    /\ defaultTimeout = 0
    /\ seq = 0
    /\ transfer = <<>>
    /\ history = <<>>

Configure ==
    \/ \E a \in AdminChoices : initialize(a)
    \/ \E caller \in Address, c \in Integrations :
          set_integration_contracts(caller, c)
    \/ \E caller \in Address, secs \in TimeoutChoices :
          set_default_timeout(caller, secs)
    \/ \E caller \in Address, s \in TunableStates, secs \in TimeoutChoices :
          set_state_timeout(caller, s, secs)

CallOn(id) ==
    \/ \E caller \in Address, next \in TransferState :
          advance_state(caller, id, next)
    \/ handle_timeout(id)
    \/ \E caller \in Address : rollback_transfer(caller, id)
    \/ \E caller \in Address, next \in TransferState :
          admin_override_state(caller, id, next)
    \/ \E caller \in Address, ok \in BOOLEAN :
          submit_verification_result(caller, id, ok)
    \/ \E caller \in Address, ok \in BOOLEAN :
          submit_oracle_result(caller, id, ok)
    \/ try_auto_progress(id)

Next ==
    \/ Configure
    \/ \E i \in Initiators, mode \in TransferMode : initiate_transfer(i, mode)
    \/ \E id \in Ids : CallOn(id)
    \/ Tick

Spec == Init /\ [][Next]_vars

\* Time passes, and somebody calls the permissionless handle_timeout of a
\* transfer whose deadline stays exceeded.  No other call is promised.
Fairness ==
    /\ WF_vars(Tick)
    /\ \A id \in 1..MaxTransfers : WF_vars(id \in Ids /\ handle_timeout(id))

FairSpec == Spec /\ Fairness
-----------------------------------------------------------------------------
(* Properties.                                                             *)

\* The rows of h lead from Initiated to s without a gap.
IsPath(h, s) ==
    IF h = <<>> THEN s = "Initiated"
    ELSE /\ h[1].from = "Initiated"
         /\ h[Len(h)].to = s
         /\ \A i \in 1..(Len(h) - 1) : h[i + 1].from = h[i].to

\* The audit trail is the transfer's whole path: the rows chain without a
\* gap from Initiated to the current state and never exceed the cap, also
\* when one call writes two rows (rollback_transfer) or an admin moves the
\* transfer outside the normal edges.
HistoryIsThePath ==
    \A id \in Ids : /\ Len(history[id]) <= MaxHistory
                     /\ IsPath(history[id], transfer[id].state)

\* A transfer settles once: no row of its history, however long, leads out
\* of Completed, Failed or RolledBack, so no transfer is both released and
\* returned, neither by an admin override nor by the call that writes two
\* rows.
SettlesOnce ==
    \A id \in Ids : \A i \in DOMAIN history[id] :
        history[id][i].from \notin Final

\* The transfer has been in one of states since a row in which the admin took
\* it there along an override edge.
Waived(id, states) ==
    \E i \in DOMAIN history[id] :
        LET row == history[id][i] IN
        /\ row.actor = admin
        /\ <<row.from, row.to>> \in OverrideEdges /\ row.from \notin states
        /\ \A j \in i..Len(history[id]) : history[id][j].to \in states

\* The states behind the verifier's vote and behind the oracle's.
Verified == {"OraclePending", "ReleasePending", "Completed"}
Cleared == {"ReleasePending", "Completed"}

Vetted(id) ==
    LET t == transfer[id] IN
    /\ t.state \in Verified => t.verification_ok \/ Waived(id, Verified)
    /\ t.state \in Cleared => t.oracle_ok \/ Waived(id, Cleared)

\* No transfer is past the verifier, or ready for release or released, unless
\* the verifier, or the oracle, vouched for it or the admin overrode the very
\* transition that took it there.  An override of an earlier round counts no
\* more once the transfer has timed out and was recovered: it needs the vote
\* or a new override.  (A vote of an earlier round counts in the code: a
\* recovery keeps verification_ok and oracle_ok.)
ReleaseIsVetted == \A id \in Ids : Vetted(id)

\* A transfer leaves TimedOut only by a row of the admin, and its deadline
\* then starts afresh if it is in flight again: nobody else revives a
\* transfer that was parked, and a revived one cannot time out at once.
RevivedOnlyByAdmin ==
    [][\A id \in Ids :
         transfer[id].state = "TimedOut" /\ transfer'[id].state # "TimedOut" =>
            /\ history'[id][Len(history'[id])].actor = admin
            /\ transfer'[id].state \in InFlight => transfer'[id].left >= 0]_vars

\* Funds count as locked only on the word of the escrow contract configured
\* at that moment or of the admin, whatever address was configured before.
LockedByEscrow ==
    [][\A id \in Ids :
         transfer[id].state # "EscrowLocked" /\ transfer'[id].state = "EscrowLocked"
            => history'[id][Len(history'[id])].actor \in {contracts.escrow, admin}]_vars

\* The contract implements the abstract life cycle of the funds.
PhaseOf(s) ==
    CASE s \in {"Initiated", "AwaitingSource", "EscrowPending"} -> "pending"
      [] s \in {"EscrowLocked", "VerificationPending", "OraclePending"} -> "locked"
      [] s = "ReleasePending" -> "cleared"
      [] s = "Completed"      -> "released"
      [] s = "Failed"         -> "failed"
      [] s = "RollingBack"    -> "unwinding"
      [] s = "RolledBack"     -> "refunded"
      [] s = "TimedOut"       -> "parked"

phaseBar == [id \in 1..MaxTransfers |->
               IF id \in Ids THEN PhaseOf(transfer[id].state) ELSE "none"]

Lifecycle == INSTANCE TransferLifecycle WITH phase <- phaseBar

LifecycleSpec == Lifecycle!Spec

\* A transfer in flight does not stay in flight for ever: it settles, times
\* out, starts rolling back, or its history is full (then no call can move
\* it).  An admin who sets absurd timeouts or keeps recovering the transfer
\* cannot prevent this.
InFlightNow(id) == id \in Ids /\ transfer[id].state \in InFlight

InFlightEnds ==
    \A id \in 1..MaxTransfers :
        InFlightNow(id) ~> (InFlightNow(id) => Len(history[id]) = MaxHistory)
=============================================================================
