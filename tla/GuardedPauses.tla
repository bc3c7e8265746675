---------------------------- MODULE GuardedPauses ----------------------------
(***************************************************************************)
(* contracts/soroban/src/circuit_breaker.rs: guardians pause everything, a *)
(* bridge or an asset, and end a pause by a request that gathers           *)
(* approvals.  Calls are atomic and a call that panics changes nothing.    *)
(*                                                                         *)
(* Of the roles only that of EmergencyGuardian (or AdminGuardian) matters, *)
(* for pause_global.  Whitelists and trigger settings, which no other call *)
(* reads, are left out.                                                    *)
(***************************************************************************)
EXTENDS LedgerClock, Sequences, FiniteSets

CONSTANTS
    Guardian,           \* addresses that are ever guardians
    Place,              \* the bridges and assets that are paused
    Thresholds,         \* config.guardian_threshold
    RecoveryDelay,
    MaxPauses,          \* bound of the model on the number of pauses
    MaxApprovals        \* and of approvals of one request

ASSUME GuardianAssumption ==
    /\ IsFiniteSet(Guardian) /\ "global" \notin Place
    /\ Thresholds \subseteq Nat /\ RecoveryDelay \in Nat
    /\ MaxPauses \in Nat /\ MaxApprovals \in Nat

VARIABLES
    watch,          \* the role of each guardian
    threshold,
    pauses,         \* PauseState by id; lifted ones are removed
    requests,       \* RecoveryRequest by the id of its pause; NoRequest without
    approvers       \* who has asked for each recovery and approved it

guardianVars == <<watch, threshold, pauses, requests, approvers>>

NoRequest == [approvals |-> 0, threshold |-> 0, open |-> FALSE]

GuardianTypeOK ==
    /\ watch \in [Guardian -> {"none", "standard", "emergency"}]
    /\ threshold \in Thresholds
    /\ pauses \in Seq([scope : Place \cup {"global"}, deadline : Nat, active : BOOLEAN])
    /\ requests \in Seq([approvals : Nat, threshold : Nat, open : BOOLEAN])
    /\ approvers \in Seq(SUBSET Guardian)
    /\ Len(requests) = Len(pauses) /\ Len(approvers) = Len(pauses)

GuardianInit ==
    /\ watch = [g \in Guardian |-> "none"]
    /\ threshold \in Thresholds
    /\ pauses = <<>> /\ requests = <<>> /\ approvers = <<>>

Guards(g) == watch[g] # "none"

\* add_guardian and remove_guardian
set_guardian(g, role) ==
    /\ watch[g] = "none" <=> role # "none"
    /\ watch' = [watch EXCEPT ![g] = role]
    /\ UNCHANGED <<threshold, pauses, requests, approvers>>

\* pause_global, pause_bridge and pause_asset
pause_scope(g, scope) ==
    /\ IF scope = "global" THEN watch[g] = "emergency" ELSE Guards(g)
    /\ Len(pauses) < MaxPauses
    /\ pauses' = Append(pauses, [scope |-> scope, deadline |-> now + RecoveryDelay,
                                 active |-> TRUE])
    /\ requests' = Append(requests, NoRequest)
    /\ approvers' = Append(approvers, {})
    /\ UNCHANGED <<watch, threshold>>

\* Mutant: there may be no pause any more.
request_recovery_Lifted(g, p) ==
    /\ Guards(g)
    /\ ~requests[p].open
    /\ requests' = [requests EXCEPT ![p] = [approvals |-> 1, threshold |-> threshold, open |-> TRUE]]
    /\ approvers' = [approvers EXCEPT ![p] = {g}]
    /\ UNCHANGED <<watch, threshold, pauses>>

request_recovery(g, p) ==
    /\ Guards(g)
    /\ pauses[p].active /\ ~requests[p].open
    /\ requests' = [requests EXCEPT ![p] = [approvals |-> 1, threshold |-> threshold, open |-> TRUE]]
    /\ approvers' = [approvers EXCEPT ![p] = {g}]
    /\ UNCHANGED <<watch, threshold, pauses>>

\* Nobody looks at who has approved before.
approve_recovery(g, p) ==
    /\ Guards(g)
    /\ requests[p].open /\ requests[p].approvals < MaxApprovals
    /\ requests' = [requests EXCEPT ![p].approvals = @ + 1]
    /\ approvers' = [approvers EXCEPT ![p] = @ \cup {g}]
    /\ UNCHANGED <<watch, threshold, pauses>>

\* Mutant: the scope is recovered and not the pause.
execute_recovery_SameScope(g, p) ==
    /\ Guards(g)
    /\ requests[p].open /\ requests[p].approvals >= requests[p].threshold
    /\ requests' = [requests EXCEPT ![p].open = FALSE]
    /\ pauses' = [q \in DOMAIN pauses |->
                    [pauses[q] EXCEPT !.active = @ /\ pauses[q].scope # pauses[p].scope]]
    /\ UNCHANGED <<watch, threshold, approvers>>

execute_recovery(g, p) ==
    /\ Guards(g)
    /\ requests[p].open /\ requests[p].approvals >= requests[p].threshold
    /\ requests' = [requests EXCEPT ![p].open = FALSE]
    /\ pauses' = [pauses EXCEPT ![p].active = FALSE]
    /\ UNCHANGED <<watch, threshold, approvers>>

is_paused(scope) ==
    \E p \in DOMAIN pauses : pauses[p].active /\ pauses[p].scope \in {"global", scope}

GuardianNext ==
    /\ \E g \in Guardian :
          \/ \E role \in {"none", "standard", "emergency"} : set_guardian(g, role)
          \/ \E scope \in Place \cup {"global"} : pause_scope(g, scope)
          \/ \E p \in DOMAIN pauses :
                request_recovery(g, p) \/ approve_recovery(g, p) \/ execute_recovery(g, p)
    /\ UNCHANGED now

\* The guardians and the ledger's clock by themselves.
GuardianSpec ==
    /\ ClockInit /\ GuardianInit
    /\ [][GuardianNext \/ (Tick /\ UNCHANGED guardianVars)]_<<now, guardianVars>>

-----------------------------------------------------------------------------
(* Properties.                                                              *)

\* A request is open for a pause that is still there, and a lifted pause had
\* a request with all approvals: none is lifted by another one's request, or
\* without, and no request is left to lift it again.
LiftedByRequest ==
    \A p \in DOMAIN pauses :
        IF pauses[p].active
        THEN requests[p].open \/ requests[p] = NoRequest
        ELSE ~requests[p].open /\ requests[p].approvals >= requests[p].threshold

\* The pauses as a whole: each is held or was lifted by its own request.
PausesSound == GuardianTypeOK /\ LiftedByRequest

\* What is paused, by pauses of its own and by pauses of everything, is freed
\* by the recovery of the last of them alone: that one had an open request
\* with all approvals, and the step touches no other pause, so none that
\* still held is lifted along with it.
HeldWhilePaused ==
    [][\A scope \in Place : is_paused(scope) /\ ~is_paused(scope)' =>
          \E p \in DOMAIN pauses :
              /\ pauses[p].active /\ pauses[p].scope \in {"global", scope}
              /\ requests[p].open /\ requests[p].approvals >= requests[p].threshold
              /\ \A q \in DOMAIN pauses \ {p} : pauses'[q] = pauses[q]]_guardianVars

\* "Other guardians approve" (docs/circuit-breaker-contract.md, Manual
\* Recovery): a lifted pause was given up by as many guardians as it takes.
LiftedByGuardians ==
    \A p \in DOMAIN pauses :
        ~pauses[p].active => Cardinality(approvers[p]) >= requests[p].threshold
=============================================================================
