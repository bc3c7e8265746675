------------------------ MODULE EmergencyFundRecovery ------------------------
(***************************************************************************)
(* contracts/soroban/src/emergency_fund_recovery.rs: while emergency mode  *)
(* is on, authorised addresses propose to move the contract's tokens; a    *)
(* proposal is approved, waits out its timelock and is executed by the     *)
(* token's contract, or is cancelled.  Calls are atomic: one that fails,   *)
(* the token transfer included, changes nothing.                           *)
(*                                                                         *)
(* initialize_recovery can be called again, by anybody: ids are then given *)
(* anew and overwrite the records that had them, while permissions and the *)
(* other records stay.  recoveries is therefore every record ever written, *)
(* in order; the contract still stores the last one of each id.            *)
(*                                                                         *)
(* Destination, token and reason decide nothing and are left out, and so   *)
(* are the admin, who is whoever initialised last, and the list of ids;    *)
(* one balance stands for the token.                                       *)
(***************************************************************************)
EXTENDS LedgerClock, Integers, Sequences, FiniteSets, Functions

CONSTANTS
    User,           \* addresses that are ever authorised
    Grants,         \* sets of permissions given to an address
    RecoveryAmounts,
    Timelocks,      \* timelock_seconds that it is initialised with
    Funds,          \* tokens the contract holds at the start
    MaxRecoveries   \* bound of the model on the number of records

ASSUME RecoveryAssumption ==
    /\ IsFiniteSet(User) /\ Grants \subseteq SUBSET {"initiate", "approve", "execute", "cancel"}
    /\ RecoveryAmounts \subseteq Nat \ {0}
    /\ Timelocks \subseteq Nat \ {0} /\ Timelocks # {}
    /\ Funds \in Nat /\ MaxRecoveries \in Nat

VARIABLES
    enabled,        \* EmergencyEnabled
    grants,         \* the permissions of each address
    recoverySeq,    \* RecoverySeq, the last id given out
    timelock,       \* Timelock
    recoveries,     \* every EmergencyRecovery ever written
    totalRecovered,
    balance,        \* the contract's tokens
    opening         \* what they were when it was last initialised (history)

recoveryVars == <<enabled, grants, recoverySeq, timelock, recoveries, totalRecovered,
                  balance, opening>>

Recovery == [id : Nat, amount : RecoveryAmounts, until : Nat, approvals : SUBSET User,
             status : {"Pending", "Approved", "Executed", "Cancelled"}]

\* initiate_recovery: "Will be set based on approvers", and never is.
RequiredApprovals == 1

RecoveryTypeOK ==
    /\ enabled \in BOOLEAN
    /\ grants \in [User -> Grants \cup {{}}]
    /\ recoveries \in Seq(Recovery)
    /\ recoverySeq \in Nat /\ timelock \in Timelocks
    /\ totalRecovered \in Nat /\ balance \in Nat /\ opening \in Nat

RecoveryInit ==
    /\ enabled = FALSE
    /\ grants = [u \in User |-> {}]
    /\ recoverySeq = 0 /\ timelock \in Timelocks
    /\ recoveries = <<>>
    /\ totalRecovered = 0 /\ balance = Funds /\ opening = Funds

May(u, permission) == permission \in grants[u]

\* No later record has taken the place of record r.
Stored(r) ==
    \A q \in DOMAIN recoveries : q > r => recoveries[q].id # recoveries[r].id

SetStatus(r, status) == recoveries' = [recoveries EXCEPT ![r].status = status]

-----------------------------------------------------------------------------

\* There is no check that it has been called before.
initialize_recovery(secs) ==
    /\ enabled' = FALSE /\ recoverySeq' = 0 /\ timelock' = secs
    /\ totalRecovered' = 0 /\ opening' = balance
    /\ UNCHANGED <<grants, recoveries, balance>>

\* enable_emergency_recovery and disable_emergency_recovery
set_emergency_recovery(on) ==
    /\ enabled' = on
    /\ UNCHANGED <<grants, recoverySeq, timelock, recoveries, totalRecovered, balance, opening>>

add_recovery_authorizer(u, permissions) ==
    /\ grants' = [grants EXCEPT ![u] = permissions]
    /\ UNCHANGED <<enabled, recoverySeq, timelock, recoveries, totalRecovered, balance, opening>>

initiate_recovery(u, amount) ==
    /\ enabled /\ May(u, "initiate") /\ Len(recoveries) < MaxRecoveries
    /\ recoverySeq' = recoverySeq + 1
    /\ recoveries' = Append(recoveries,
           [id |-> recoverySeq + 1, amount |-> amount, until |-> now + timelock,
            approvals |-> {}, status |-> "Pending"])
    /\ UNCHANGED <<enabled, grants, timelock, totalRecovered, balance, opening>>

approve_recovery(u, r) ==
    LET approvals == recoveries[r].approvals \cup {u} IN
    /\ Stored(r) /\ recoveries[r].status = "Pending"
    /\ May(u, "approve") /\ u \notin recoveries[r].approvals
    /\ recoveries' = [recoveries EXCEPT
           ![r].approvals = approvals,
           ![r].status = IF Cardinality(approvals) >= RequiredApprovals
                         THEN "Approved" ELSE @]
    /\ UNCHANGED <<enabled, grants, recoverySeq, timelock, totalRecovered, balance, opening>>

\* Mutant: the status is not checked, only the approvals and the time.
execute_recovery_Again(u, r) ==
    /\ Stored(r) /\ recoveries[r].approvals # {} /\ now >= recoveries[r].until
    /\ May(u, "execute")
    /\ recoveries[r].amount <= balance
    /\ balance' = balance - recoveries[r].amount
    /\ SetStatus(r, "Executed")
    /\ totalRecovered' = totalRecovered + recoveries[r].amount
    /\ UNCHANGED <<enabled, grants, recoverySeq, timelock, opening>>

execute_recovery(u, r) ==
    /\ Stored(r) /\ recoveries[r].status = "Approved" /\ now >= recoveries[r].until
    /\ May(u, "execute")
    /\ recoveries[r].amount <= balance
    /\ balance' = balance - recoveries[r].amount
    /\ SetStatus(r, "Executed")
    /\ totalRecovered' = totalRecovered + recoveries[r].amount
    /\ UNCHANGED <<enabled, grants, recoverySeq, timelock, opening>>

\* Mutant: a recovery that was carried out can still be cancelled.
cancel_recovery_Done(u, r) ==
    /\ Stored(r) /\ recoveries[r].status # "Cancelled"
    /\ May(u, "cancel")
    /\ SetStatus(r, "Cancelled")
    /\ UNCHANGED <<enabled, grants, recoverySeq, timelock, totalRecovered, balance, opening>>

cancel_recovery(u, r) ==
    /\ Stored(r) /\ recoveries[r].status \in {"Pending", "Approved"}
    /\ May(u, "cancel")
    /\ SetStatus(r, "Cancelled")
    /\ UNCHANGED <<enabled, grants, recoverySeq, timelock, totalRecovered, balance, opening>>

RecoveryNext ==
    /\ \/ \E secs \in Timelocks : initialize_recovery(secs)
       \/ \E on \in BOOLEAN : set_emergency_recovery(on)
       \/ \E u \in User :
             \/ \E permissions \in Grants : add_recovery_authorizer(u, permissions)
             \/ \E amount \in RecoveryAmounts : initiate_recovery(u, amount)
             \/ \E r \in DOMAIN recoveries :
                   approve_recovery(u, r) \/ execute_recovery(u, r) \/ cancel_recovery(u, r)
    /\ UNCHANGED now

\* The recoveries and the ledger's clock by themselves.
RecoverySpec ==
    /\ ClockInit /\ RecoveryInit
    /\ [][RecoveryNext \/ (Tick /\ UNCHANGED recoveryVars)]_<<now, recoveryVars>>

-----------------------------------------------------------------------------
(* Properties.                                                              *)

\* The records that were executed, the overwritten ones included.
SumOfExecuted ==
    LET executed == {r \in DOMAIN recoveries : recoveries[r].status = "Executed"}
    IN SumFunctionOnSet([r \in DOMAIN recoveries |-> recoveries[r].amount], executed)

\* No token leaves twice and none without a record: what the contract has lost
\* is the sum of the records marked Executed, those included that a second
\* initialize_recovery let later ones overwrite, and TotalRecovered is what it
\* has lost since it was last initialised.
RecoveredOnce ==
    /\ balance + SumOfExecuted = Funds
    /\ balance + totalRecovered = opening

\* And the balance stays one: what cannot be transferred is not recovered.
RecoverySound == RecoveryTypeOK /\ RecoveredOnce

\* Each record is one decision put to the vote of the authorised addresses.
\* Its stage is "none" while it has not been written.
RecoveryStage == [r \in 1..MaxRecoveries |->
    IF r \notin DOMAIN recoveries THEN "none"
    ELSE CASE recoveries[r].status = "Pending" -> "open"
           [] recoveries[r].status = "Approved" -> "approved"
           [] recoveries[r].status = "Executed" -> "done"
           [] OTHER -> "off"]

RecoveryVotes == [r \in 1..MaxRecoveries |->
    IF r \in DOMAIN recoveries THEN recoveries[r].approvals ELSE {}]

OneDecision == INSTANCE QuorumDecision WITH
    Item <- 1..MaxRecoveries, Voter <- User,
    stage <- RecoveryStage, votes <- RecoveryVotes, need <- RequiredApprovals

\* A recovery keeps the promise of QuorumDecision: it is carried out at most
\* once, only after its own approval, and what was executed or cancelled stays
\* so, whoever loses a permission, whenever emergency mode ends, and when its
\* id is given to another: no approval passes from one record to the next.
RecoveryIsDecision == OneDecision!DecisionSpec
=============================================================================
