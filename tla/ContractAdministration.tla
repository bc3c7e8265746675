----------------------- MODULE ContractAdministration -----------------------
(***************************************************************************)
(* contracts/soroban/src/lib.rs, StellarViaductContract: how the contract  *)
(* is paused, handed to a new admin and upgraded.  The admin and the       *)
(* holders of SuperAdmin are the governance members; upgrades are put to   *)
(* their vote and wait out a timelock.  Calls are atomic and a call that   *)
(* panics changes nothing.                                                 *)
(*                                                                         *)
(* initialize can be called again, by anybody, who is the admin then.  It  *)
(* starts the ids of the proposals and the stored history of upgrades anew *)
(* and leaves roles, pause, handover, the pending upgrade and the code as  *)
(* they are.  upgrades and history are every proposal and every execution  *)
(* there ever was: only a query reads the stored history.                  *)
(*                                                                         *)
(* Calls that only the admin may make are enabled whenever the rest of     *)
(* their guard holds: the admin exists.  So the pause guardian, who may    *)
(* only do what the admin may, does not appear.  Code is known by its hash;*)
(* the version number counts executions and is left out.                   *)
(***************************************************************************)
EXTENDS LedgerClock, Sequences, FiniteSets

CONSTANTS
    Account,        \* addresses that are ever admin or SuperAdmin
    Hash,           \* Wasm hashes
    PauseLock,      \* 24 hours
    UpgradeLock,    \* 48 hours
    HandoverLimit,  \* 7 days
    MaxProposals,   \* bound of the model on upgrade proposals
    MaxMembers      \* bound of the model on governance members

ASSUME AdministrationAssumption ==
    /\ IsFiniteSet(Account) /\ Account # {} /\ "none" \notin Hash
    /\ PauseLock \in Nat /\ UpgradeLock \in Nat /\ HandoverLimit \in Nat
    /\ MaxProposals \in Nat /\ MaxMembers \in Nat

VARIABLES
    admin,      \* ADMIN
    supers,     \* addresses with SuperAdmin
    pause,      \* GLOBAL_PAUSED, PAUSED_AT and UNPAUSE_AVAILABLE_AT
    transfer,   \* PENDING_TRANSFER, with the roles and the pending upgrade as they
                \* were when it was proposed; an expired one stays until replaced
    upgrades,   \* every UpgradeProposal, in order; the last one may be pending
    counter,    \* UPGRADE_PROPOSAL_COUNTER
    code,       \* CURRENT_CONTRACT_WASM_HASH
    target,     \* ROLLBACK_TARGET_HASH
    history     \* every record ever added to UPGRADE_HISTORY; proposal is the
                \* place of its proposal in upgrades

adminVars == <<admin, supers, pause, transfer, upgrades, code, target, history, counter>>

Members == {admin} \cup supers
NoTransfer == [to |-> "none", until |-> 0, supers |-> {}, offer |-> <<0, {}>>]

Upgrade == [id : Nat, hash : Hash, at : Nat, due : Nat, required : Nat, members : Nat,
            approvals : SUBSET Account, emergency : BOOLEAN, rollback : BOOLEAN,
            status : {"pending", "executed", "cancelled"}]

AdminTypeOK ==
    /\ admin \in Account /\ supers \subseteq Account
    /\ pause \in [on : BOOLEAN, at : Nat, until : Nat]
    /\ transfer = NoTransfer \/ transfer \in [to : Account, until : Nat,
           supers : SUBSET Account, offer : (0..MaxProposals) \X SUBSET Account]
    /\ upgrades \in Seq(Upgrade) /\ Len(upgrades) <= MaxProposals
    /\ code \in Hash \cup {"none"} /\ target \in Hash \cup {"none"}
    /\ counter \in Nat
    /\ history \in Seq([proposal : 1..MaxProposals, from : Hash \cup {"none"},
                        to : Hash, rollback : BOOLEAN, at : Nat])

AdminInit ==
    /\ admin \in Account /\ supers = {}
    /\ pause = [on |-> FALSE, at |-> 0, until |-> 0]
    /\ transfer = NoTransfer
    /\ upgrades = <<>> /\ history = <<>> /\ counter = 0
    /\ code = "none" /\ target = "none"

\* The place of the pending upgrade proposal, 0 without one.
Pending ==
    IF upgrades # <<>> /\ upgrades[Len(upgrades)].status = "pending"
    THEN Len(upgrades) ELSE 0

\* That proposal and its approvals.
Offer == <<Pending, IF Pending = 0 THEN {} ELSE upgrades[Pending].approvals>>

\* check_no_pending_transfer panics while this holds.
HandingOver == transfer # NoTransfer /\ now < transfer.until

-----------------------------------------------------------------------------

\* There is no check that it has been called before.
initialize(a) ==
    /\ admin' = a /\ counter' = 0
    /\ UNCHANGED <<supers, pause, transfer, upgrades, code, target, history>>

-----------------------------------------------------------------------------
(* Pause.                                                                   *)

\* Mutant: a second pause does not start the timelock anew.
emergency_pause_Once ==
    /\ pause' = [on |-> TRUE, at |-> now,
                 until |-> IF pause.on THEN pause.until ELSE now + PauseLock]
    /\ UNCHANGED <<admin, supers, transfer, upgrades, code, target, history, counter>>

emergency_pause ==
    /\ pause' = [on |-> TRUE, at |-> now, until |-> now + PauseLock]
    /\ UNCHANGED <<admin, supers, transfer, upgrades, code, target, history, counter>>

unpause ==
    /\ now >= pause.until
    /\ pause' = [pause EXCEPT !.on = FALSE]
    /\ UNCHANGED <<admin, supers, transfer, upgrades, code, target, history, counter>>

-----------------------------------------------------------------------------
(* Roles and the handover to a new admin.                                   *)

\* Mutant: roles can be granted while the contract changes hands.
grant_role_Anytime(a) ==
    /\ ~pause.on
    /\ supers' = supers \cup {a}
    /\ Cardinality({admin} \cup supers') <= MaxMembers
    /\ UNCHANGED <<admin, pause, transfer, upgrades, code, target, history, counter>>

grant_role(a) ==
    /\ ~pause.on /\ ~HandingOver
    /\ supers' = supers \cup {a}
    /\ Cardinality({admin} \cup supers') <= MaxMembers
    /\ UNCHANGED <<admin, pause, transfer, upgrades, code, target, history, counter>>

revoke_role(a) ==
    /\ ~pause.on /\ ~HandingOver
    /\ supers' = supers \ {a}
    /\ UNCHANGED <<admin, pause, transfer, upgrades, code, target, history, counter>>

propose_admin_transfer(a) ==
    /\ ~HandingOver
    /\ transfer' = [to |-> a, until |-> now + HandoverLimit,
                    supers |-> supers, offer |-> Offer]
    /\ UNCHANGED <<admin, supers, pause, upgrades, code, target, history, counter>>

accept_admin_transfer ==
    /\ HandingOver
    /\ admin' = transfer.to
    /\ transfer' = NoTransfer
    /\ UNCHANGED <<supers, pause, upgrades, code, target, history, counter>>

cancel_admin_transfer ==
    /\ transfer # NoTransfer
    /\ transfer' = NoTransfer
    /\ UNCHANGED <<admin, supers, pause, upgrades, code, target, history, counter>>

-----------------------------------------------------------------------------
(* Upgrades.                                                                *)

CeilDiv(a, b) == (a + b - 1) \div b

\* min(max(two thirds, half + 1), all of them)
upgrade_approval_threshold(emergency, members) ==
    LET half == CeilDiv(members, 2)
        twoThirds == CeilDiv(2 * members, 3)
        more == IF twoThirds > half THEN twoThirds ELSE half + 1
    IN IF ~emergency THEN half ELSE IF more > members THEN members ELSE more

\* create_upgrade_proposal
Proposed(a, hash, emergency, rollback) ==
    LET members == Cardinality(Members) IN
    /\ a \in Members /\ ~HandingOver /\ Pending = 0
    /\ Len(upgrades) < MaxProposals
    /\ emergency => members >= 2
    /\ counter' = counter + 1
    /\ upgrades' = Append(upgrades,
           [id |-> counter + 1, hash |-> hash, at |-> now,
            due |-> IF emergency THEN now ELSE now + UpgradeLock,
            required |-> upgrade_approval_threshold(emergency, members),
            members |-> members, approvals |-> {a},
            emergency |-> emergency, rollback |-> rollback, status |-> "pending"])
    /\ UNCHANGED <<admin, supers, pause, transfer, code, target, history>>

propose_upgrade(a, hash, emergency) == Proposed(a, hash, emergency, FALSE)

propose_rollback(a, emergency) ==
    target # "none" /\ Proposed(a, target, emergency, TRUE)

approve_upgrade(a) ==
    /\ a \in Members /\ ~HandingOver
    /\ Pending # 0 /\ a \notin upgrades[Pending].approvals
    /\ upgrades' = [upgrades EXCEPT ![Pending].approvals = @ \cup {a}]
    /\ UNCHANGED <<admin, supers, pause, transfer, code, target, history, counter>>

Installed(p) ==
    /\ code' = upgrades[p].hash
    /\ history' = Append(history, [proposal |-> p, from |-> code, to |-> upgrades[p].hash,
                                   rollback |-> upgrades[p].rollback, at |-> now])
    /\ upgrades' = [upgrades EXCEPT ![p].status = "executed"]
    /\ UNCHANGED <<admin, supers, pause, transfer, counter>>

\* Mutant: the timelock is enough.
execute_upgrade_Unapproved ==
    /\ ~HandingOver /\ Pending # 0
    /\ now >= upgrades[Pending].due
    /\ target' = IF code = "none" THEN target ELSE code
    /\ Installed(Pending)

execute_upgrade ==
    /\ ~HandingOver /\ Pending # 0
    /\ now >= upgrades[Pending].due
    /\ Cardinality(upgrades[Pending].approvals) >= upgrades[Pending].required
    /\ target' = IF code = "none" THEN target ELSE code
    /\ Installed(Pending)

cancel_upgrade ==
    /\ Pending # 0
    /\ upgrades' = [upgrades EXCEPT ![Pending].status = "cancelled"]
    /\ UNCHANGED <<admin, supers, pause, transfer, code, target, history, counter>>

AdminNext ==
    /\ \/ emergency_pause \/ unpause
       \/ accept_admin_transfer \/ cancel_admin_transfer
       \/ execute_upgrade \/ cancel_upgrade
       \/ \E a \in Account :
             \/ initialize(a) \/ grant_role(a) \/ revoke_role(a) \/ propose_admin_transfer(a)
             \/ approve_upgrade(a)
             \/ \E emergency \in BOOLEAN :
                   \/ propose_rollback(a, emergency)
                   \/ \E hash \in Hash : propose_upgrade(a, hash, emergency)
    /\ UNCHANGED now

\* The administration and the ledger's clock by themselves.
AdminSpec ==
    /\ ClockInit /\ AdminInit
    /\ [][AdminNext \/ (Tick /\ UNCHANGED adminVars)]_<<now, adminVars>>

-----------------------------------------------------------------------------
(* Properties.                                                              *)

\* While the contract changes hands its roles stay as the old admin offered
\* them, and the pending upgrade, if it is not cancelled, gets neither an
\* approval nor executed (lib.rs, check_no_pending_transfer).  The admin does
\* not have to be the one who offered: initialize replaces it even then, but
\* neither the roles nor the pending upgrade.
HandoverFrozen ==
    HandingOver =>
        /\ supers = transfer.supers
        /\ \/ Offer = transfer.offer
           \/ Pending = 0 /\ upgrades[transfer.offer[1]].status = "cancelled"

\* The chain of all upgrades ever executed has no gap, and a rollback installs
\* what ran before the last upgrade, whatever was proposed and cancelled in
\* between, and though initialize forgets the history: it keeps the target.
RollbackRestores ==
    /\ code = IF history = <<>> THEN "none" ELSE history[Len(history)].to
    /\ \A n \in 2..Len(history) :
          /\ history[n].from = history[n - 1].to
          /\ history[n].rollback => history[n].to = history[n - 1].from

\* "Standard proposals enforce a 48-hour timelock. Emergency proposals use a
\* higher governance threshold": at least half of those who were members when
\* it was proposed approved an upgrade that was executed, more than half of
\* them and never a single one if it did not wait.
UpgradesGoverned ==
    \A n \in DOMAIN history :
        LET u == upgrades[history[n].proposal]  approvals == Cardinality(u.approvals) IN
        /\ 2 * approvals >= u.members
        /\ history[n].at < u.at + UpgradeLock =>
              /\ u.emergency /\ approvals > 1
              /\ approvals > CeilDiv(u.members, 2)

\* The administration's records as a whole: a handover leaves the roles and
\* the upgrade as they were offered, and every upgrade that ran was governed
\* and can be rolled back.
AdminSound == AdminTypeOK /\ HandoverFrozen /\ RollbackRestores /\ UpgradesGoverned

UpgradeStage == [u \in 1..MaxProposals |->
    IF u \notin DOMAIN upgrades THEN "none"
    ELSE CASE upgrades[u].status = "executed" -> "done"
           [] upgrades[u].status = "cancelled" -> "off"
           [] upgrades[u].status = "pending"
              /\ Cardinality(upgrades[u].approvals) >= upgrades[u].required -> "approved"
           [] OTHER -> "open"]

UpgradeVotes == [u \in 1..MaxProposals |->
    IF u \in DOMAIN upgrades THEN upgrades[u].approvals ELSE {}]

UpgradeDecision == INSTANCE QuorumDecision WITH
    Item <- 1..MaxProposals, Voter <- Account,
    stage <- UpgradeStage, votes <- UpgradeVotes,
    need <- IF Pending = 0 THEN 0 ELSE upgrades[Pending].required

\* Each upgrade proposal ever made keeps the promise of QuorumDecision: it is
\* executed at most once and only after the approvals it took when it was made,
\* whoever gains or loses a role in the meantime, and no approval of it passes
\* to the next one, not even to one that is given the same id.
UpgradeIsDecision == UpgradeDecision!DecisionSpec

\* The contract is not unpaused before the timelock of its last pause, however
\* often it was paused, unpaused and handed over ("preventing hasty
\* re-activation in a still-live incident").
UnpauseWaits == [][pause.on /\ ~pause'.on => now >= pause.at + PauseLock]_adminVars
=============================================================================
