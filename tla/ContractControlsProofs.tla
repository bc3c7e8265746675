----------------------- MODULE ContractControlsProofs -----------------------
(***************************************************************************)
(* Who controls the contract, for every set of accounts, guardians and     *)
(* voters, every value of the delays, thresholds and powers, and any       *)
(* number of calls: the admin's pause, handover and upgrades, the pauses   *)
(* of the guardians, and the votes of the governance contract.             *)
(***************************************************************************)
EXTENDS ContractAdministration, GuardedPauses, GovernanceContract, FiniteSums

(***************************************************************************)
(* Administration: the pause, the handover and the upgrades.               *)
(***************************************************************************)

AdminAct == [AdminNext \/ (Tick /\ UNCHANGED adminVars)]_<<now, adminVars>>

-----------------------------------------------------------------------------
(* The pause.                                                               *)

\* A pause, while it lasts, knows its timelock.
PauseInv ==
    /\ pause \in [on : BOOLEAN, at : Nat, until : Nat]
    /\ now \in Nat
    /\ pause.on => pause.until = pause.at + PauseLock

LEMMA PauseInvHolds == AdminSpec => []PauseInv
<1>1. ClockInit /\ AdminInit => PauseInv
  BY DEF ClockInit, AdminInit, PauseInv
<1>2. PauseInv /\ AdminAct => PauseInv'
  <2> SUFFICES ASSUME PauseInv, AdminAct PROVE PauseInv'
    OBVIOUS
  <2> USE AdministrationAssumption
  <2>1. CASE emergency_pause /\ UNCHANGED now
    BY <2>1 DEF emergency_pause, PauseInv
  <2>2. CASE unpause /\ UNCHANGED now
    BY <2>2 DEF unpause, PauseInv
  <2>3. CASE pause' = pause /\ (UNCHANGED now \/ Tick)
    BY <2>3 DEF Tick, PauseInv
  <2> QED
    BY <2>1, <2>2, <2>3
       DEF AdminAct, AdminNext, adminVars, initialize, grant_role, revoke_role,
           propose_admin_transfer,
           accept_admin_transfer, cancel_admin_transfer, Proposed, propose_upgrade,
           propose_rollback, approve_upgrade, execute_upgrade, Installed, cancel_upgrade
<1> QED
  BY <1>1, <1>2, PTL DEF AdminSpec, AdminAct

\* No sequence of pauses, handovers and upgrades unpauses the contract before
\* the timelock of its last pause, however long that is.
THEOREM UnpauseWaitsHolds == AdminSpec => UnpauseWaits
<1>1. PauseInv /\ AdminAct =>
          [pause.on /\ ~pause'.on => now >= pause.at + PauseLock]_adminVars
  <2> SUFFICES ASSUME PauseInv, AdminAct, pause.on, ~pause'.on
               PROVE  now >= pause.at + PauseLock
    OBVIOUS
  <2>1. CASE unpause
    BY <2>1 DEF unpause, PauseInv
  <2>2. CASE emergency_pause
    BY <2>2 DEF emergency_pause
  <2>3. CASE pause' = pause
    BY <2>3
  <2> QED
    BY <2>1, <2>2, <2>3
       DEF AdminAct, AdminNext, adminVars, initialize, grant_role, revoke_role,
           propose_admin_transfer,
           accept_admin_transfer, cancel_admin_transfer, Proposed, propose_upgrade,
           propose_rollback, approve_upgrade, execute_upgrade, Installed, cancel_upgrade
<1> QED
  BY <1>1, PauseInvHolds, PTL DEF AdminSpec, AdminAct, UnpauseWaits

-----------------------------------------------------------------------------
(* Upgrades.                                                                *)

\* Half of the members, rounded up.
LEMMA Half ==
    ASSUME NEW m \in Nat
    PROVE  /\ CeilDiv(m, 2) \in Nat
           /\ 2 * CeilDiv(m, 2) >= m /\ 2 * CeilDiv(m, 2) <= m + 1
BY DEF CeilDiv

\* What the two kinds of proposals ask for.
LEMMA Threshold ==
    ASSUME NEW m \in Nat, NEW e \in BOOLEAN
    PROVE  /\ upgrade_approval_threshold(e, m) \in Nat
           /\ 2 * upgrade_approval_threshold(e, m) >= m
           /\ e /\ m >= 2 => /\ upgrade_approval_threshold(e, m) > CeilDiv(m, 2)
                             /\ upgrade_approval_threshold(e, m) > 1
<1> DEFINE half == CeilDiv(m, 2)
           twoThirds == CeilDiv(2 * m, 3)
           more == IF twoThirds > half THEN twoThirds ELSE half + 1
<1>1. half \in Nat /\ 2 * half >= m /\ 2 * half <= m + 1
  BY Half
<1>2. twoThirds \in Nat
  BY DEF CeilDiv
<1>3. upgrade_approval_threshold(e, m)
        = IF ~e THEN half ELSE IF more > m THEN m ELSE more
  BY DEF upgrade_approval_threshold
<1> HIDE DEF half, twoThirds
<1>4. more \in Nat /\ more > half
  BY <1>1, <1>2
<1> HIDE DEF more
<1>5. CASE ~e
  BY <1>1, <1>3, <1>5 DEF half
<1>6. CASE e
  BY <1>1, <1>3, <1>4, <1>6 DEF half
<1> QED
  BY <1>5, <1>6

\* What a proposal asked for is fair from then on, whoever is a member later.
Fair(u) ==
    /\ 2 * u.required >= u.members
    /\ u.emergency => u.required > CeilDiv(u.members, 2) /\ u.required > 1
    /\ ~u.emergency => u.due = u.at + UpgradeLock

\* Row n of the history is an upgrade that waited and was approved.
Ran(n) ==
    LET u == upgrades[history[n].proposal] IN
    /\ history[n].proposal \in DOMAIN upgrades
    /\ u.status = "executed"
    /\ history[n].at >= u.due
    /\ Cardinality(u.approvals) >= u.required

Types == now \in Nat /\ AdminTypeOK

Governed ==
    /\ \A i \in DOMAIN upgrades : Fair(upgrades[i])
    /\ \A n \in DOMAIN history : Ran(n)

\* The target of a rollback is what ran before the last upgrade, and a pending
\* rollback is to that target: no other upgrade can come in between.
Restoring ==
    /\ RollbackRestores
    /\ target # "none" =>
          Len(history) > 1 /\ target = history[Len(history)].from
    /\ Pending # 0 /\ upgrades[Pending].rollback =>
          target # "none" /\ upgrades[Pending].hash = target

AdminInv == Types /\ HandoverFrozen /\ Restoring /\ Governed

\* The last proposal is the only one that can be pending.
LEMMA PendingIsLast ==
    ASSUME Types
    PROVE  /\ upgrades \in Seq(Upgrade) /\ Len(upgrades) <= MaxProposals
           /\ Pending \in 0 .. Len(upgrades)
           /\ Pending # 0 => /\ Pending = Len(upgrades) /\ Pending \in DOMAIN upgrades
                             /\ upgrades[Pending] \in Upgrade
                             /\ upgrades[Pending].status = "pending"
           /\ Offer \in (0..MaxProposals) \X SUBSET Account
<1>1. upgrades \in Seq(Upgrade) /\ Len(upgrades) <= MaxProposals
  BY DEF Types, AdminTypeOK
<1>2. Len(upgrades) \in Nat /\ (upgrades # <<>> => Len(upgrades) \in DOMAIN upgrades)
  BY <1>1
<1>3. /\ Pending \in 0 .. Len(upgrades)
      /\ Pending # 0 => /\ Pending = Len(upgrades) /\ Pending \in DOMAIN upgrades
                        /\ upgrades[Pending].status = "pending"
  BY <1>1, <1>2 DEF Pending
<1>4. Pending # 0 => upgrades[Pending] \in Upgrade
  BY <1>1, <1>3
<1>5. (IF Pending = 0 THEN {} ELSE upgrades[Pending].approvals) \in SUBSET Account
  BY <1>4 DEF Upgrade
<1>6. Pending \in 0..MaxProposals
  BY <1>1, <1>2, <1>3, AdministrationAssumption
<1> QED
  BY <1>1, <1>3, <1>4, <1>5, <1>6 DEF Offer

\* How the proposals change: not at all, ...
Kept == UNCHANGED <<upgrades, history, code, target>>

\* ... by a fair proposal, ...
Added(u) ==
    /\ u \in Upgrade /\ u.status = "pending" /\ Fair(u)
    /\ u.rollback => target # "none" /\ u.hash = target
    /\ Pending = 0 /\ ~HandingOver /\ Len(upgrades) < MaxProposals
    /\ upgrades' = Append(upgrades, u) /\ counter' \in Nat
    /\ UNCHANGED <<supers, transfer, history, code, target>>

\* ... or by what becomes of the pending one.
Moved(u) ==
    /\ Pending # 0 /\ u \in Upgrade
    /\ u = [upgrades[Pending] EXCEPT !.approvals = u.approvals, !.status = u.status]
    /\ upgrades' = [upgrades EXCEPT ![Pending] = u]
    /\ UNCHANGED <<supers, transfer, counter>>

LEMMA ProposalAdded ==
    ASSUME Types, NEW a \in Account, NEW hash \in Hash, NEW emergency \in BOOLEAN,
           NEW rollback \in BOOLEAN, Proposed(a, hash, emergency, rollback),
           rollback => target # "none" /\ hash = target
    PROVE  \E u : Added(u)
<1> DEFINE members == Cardinality(Members)
           required == upgrade_approval_threshold(emergency, members)
           due == IF emergency THEN now ELSE now + UpgradeLock
           u == [id |-> counter + 1, hash |-> hash, at |-> now, due |-> due,
                 required |-> required, members |-> members, approvals |-> {a},
                 emergency |-> emergency, rollback |-> rollback, status |-> "pending"]
<1>1. members \in Nat
  <2>1. Members \subseteq Account
    BY DEF Members, Types, AdminTypeOK
  <2> QED
    BY <2>1, AdministrationAssumption, FS_Subset, FS_CardinalityType
<1>2. due \in Nat
  BY AdministrationAssumption DEF Types
<1>3. /\ required \in Nat /\ 2 * required >= members
      /\ emergency => required > CeilDiv(members, 2) /\ required > 1
  <2>1. emergency => members >= 2
    BY DEF Proposed
  <2> HIDE DEF members
  <2> QED
    BY <1>1, <2>1, Threshold
<1>4. upgrades' = Append(upgrades, u) /\ ~HandingOver /\ Pending = 0
      /\ Len(upgrades) < MaxProposals /\ counter' = counter + 1
      /\ UNCHANGED <<supers, transfer, history, code, target>>
  BY DEF Proposed
<1> HIDE DEF members, required
<1>5. ~emergency => due = now + UpgradeLock
  OBVIOUS
<1> HIDE DEF due
<1>6. u \in Upgrade /\ counter' \in Nat
  <2>1. counter + 1 \in Nat
    BY DEF Types, AdminTypeOK
  <2> QED
    BY <1>1, <1>2, <1>3, <1>4, <2>1 DEF Upgrade, Types
<1>7. Fair(u)
  BY <1>3, <1>5 DEF Fair
<1>8. u.status = "pending" /\ u.rollback = rollback /\ u.hash = hash
  OBVIOUS
<1> HIDE DEF u
<1>9. Added(u)
  BY <1>4, <1>6, <1>7, <1>8 DEF Added
<1> QED
  BY <1>9

LEMMA ApprovalMoves ==
    ASSUME Types, NEW a \in Account, approve_upgrade(a)
    PROVE  \E u : Moved(u) /\ ~HandingOver /\ u.status = "pending"
                  /\ UNCHANGED <<history, code, target>>
<1> DEFINE u == [upgrades[Pending] EXCEPT !.approvals = @ \cup {a}]
<1>1. Pending # 0 /\ upgrades[Pending] \in Upgrade /\ upgrades[Pending].status = "pending"
  BY PendingIsLast DEF approve_upgrade
<1>2. u \in Upgrade /\ u.status = "pending"
      /\ u = [upgrades[Pending] EXCEPT !.approvals = u.approvals, !.status = u.status]
  BY <1>1 DEF Upgrade
<1>3. upgrades' = [upgrades EXCEPT ![Pending] = u]
  BY DEF approve_upgrade
<1>4. Moved(u)
  BY <1>1, <1>2, <1>3 DEF Moved, approve_upgrade
<1> QED
  BY <1>2, <1>4 DEF approve_upgrade

\* The pending proposal ends.
LEMMA EndMoves ==
    ASSUME Types, NEW status \in {"executed", "cancelled"}, Pending # 0,
           upgrades' = [upgrades EXCEPT ![Pending].status = status],
           UNCHANGED <<supers, transfer, counter>>
    PROVE  \E u : Moved(u) /\ u.status = status /\ u.approvals = upgrades[Pending].approvals
<1> DEFINE u == [upgrades[Pending] EXCEPT !.status = status]
<1>1. upgrades[Pending] \in Upgrade
  BY PendingIsLast
<1>2. u \in Upgrade /\ u.status = status /\ u.approvals = upgrades[Pending].approvals
      /\ u = [upgrades[Pending] EXCEPT !.approvals = u.approvals, !.status = u.status]
  BY <1>1 DEF Upgrade
<1>3. upgrades' = [upgrades EXCEPT ![Pending] = u]
  OBVIOUS
<1>4. Moved(u)
  BY <1>2, <1>3 DEF Moved
<1> QED
  BY <1>2, <1>4

\* What a proposal that moves leaves alone.
LEMMA MovedKeeps ==
    ASSUME Types, NEW u, Moved(u)
    PROVE  /\ upgrades' \in Seq(Upgrade) /\ Len(upgrades') = Len(upgrades)
           /\ Len(upgrades) = Pending /\ upgrades'[Pending] = u
           /\ \A i \in DOMAIN upgrades : i # Pending => upgrades'[i] = upgrades[i]
           /\ u.required = upgrades[Pending].required /\ u.members = upgrades[Pending].members
           /\ u.at = upgrades[Pending].at /\ u.due = upgrades[Pending].due
           /\ u.emergency = upgrades[Pending].emergency
           /\ u.rollback = upgrades[Pending].rollback /\ u.hash = upgrades[Pending].hash
           /\ Pending' = (IF u.status = "pending" THEN Pending ELSE 0)
<1>1. Pending # 0 /\ u \in Upgrade /\ upgrades' = [upgrades EXCEPT ![Pending] = u]
  BY DEF Moved
<1>2. Pending = Len(upgrades) /\ Pending \in DOMAIN upgrades /\ upgrades \in Seq(Upgrade)
      /\ upgrades[Pending] \in Upgrade
  BY <1>1, PendingIsLast
<1>3. /\ upgrades' \in Seq(Upgrade) /\ Len(upgrades') = Len(upgrades)
      /\ upgrades'[Pending] = u
      /\ \A i \in DOMAIN upgrades : i # Pending => upgrades'[i] = upgrades[i]
  BY <1>1, <1>2
<1>4. /\ u.required = upgrades[Pending].required /\ u.members = upgrades[Pending].members
      /\ u.at = upgrades[Pending].at /\ u.due = upgrades[Pending].due
      /\ u.emergency = upgrades[Pending].emergency
      /\ u.rollback = upgrades[Pending].rollback /\ u.hash = upgrades[Pending].hash
  BY <1>2 DEF Moved, Upgrade
<1>5. upgrades' # <<>> /\ upgrades'[Len(upgrades')] = u
  BY <1>1, <1>2, <1>3
<1>6. Pending' = IF u.status = "pending" THEN Len(upgrades') ELSE 0
  BY <1>5 DEF Pending
<1> QED
  BY <1>2, <1>3, <1>4, <1>6

\* What a new proposal leaves alone.
LEMMA AddedKeeps ==
    ASSUME Types, NEW u, Added(u)
    PROVE  /\ upgrades' \in Seq(Upgrade) /\ Len(upgrades') = Len(upgrades) + 1
           /\ upgrades'[Len(upgrades) + 1] = u
           /\ \A i \in DOMAIN upgrades : i \in DOMAIN upgrades' /\ upgrades'[i] = upgrades[i]
           /\ \A i \in DOMAIN upgrades' : i \in DOMAIN upgrades \/ i = Len(upgrades) + 1
           /\ Pending' = Len(upgrades) + 1
<1>1. upgrades \in Seq(Upgrade) /\ u \in Upgrade /\ upgrades' = Append(upgrades, u)
      /\ u.status = "pending"
  BY PendingIsLast DEF Added
<1>2. /\ upgrades' \in Seq(Upgrade) /\ Len(upgrades') = Len(upgrades) + 1
      /\ upgrades'[Len(upgrades) + 1] = u
      /\ \A i \in DOMAIN upgrades : i \in DOMAIN upgrades' /\ upgrades'[i] = upgrades[i]
      /\ \A i \in DOMAIN upgrades' : i \in DOMAIN upgrades \/ i = Len(upgrades) + 1
  BY <1>1
<1>3. upgrades' # <<>>
  BY <1>1, <1>2
<1>4. Pending' = Len(upgrades) + 1
  BY <1>1, <1>2, <1>3 DEF Pending
<1> QED
  BY <1>2, <1>4

-----------------------------------------------------------------------------
(* Steps that leave the proposals alone.                                    *)

\* Initialisations, pauses, roles, handovers and the clock.
Aside ==
    \/ /\ UNCHANGED now
       /\ \/ emergency_pause \/ unpause
          \/ accept_admin_transfer \/ cancel_admin_transfer
          \/ \E a \in Account : initialize(a) \/ grant_role(a) \/ revoke_role(a)
                                  \/ propose_admin_transfer(a)
    \/ Tick /\ UNCHANGED adminVars
    \/ UNCHANGED <<now, adminVars>>

LEMMA AsideKeeps ==
    ASSUME AdminInv, Aside
    PROVE  AdminInv'
<1> USE AdministrationAssumption
<1>1. Kept
  BY DEF Aside, Kept, initialize, emergency_pause, unpause, accept_admin_transfer, cancel_admin_transfer,
         grant_role, revoke_role, propose_admin_transfer, adminVars
<1>2. Pending' = Pending /\ Offer' = Offer
  BY <1>1 DEF Kept, Pending, Offer
<1>3. Restoring' /\ Governed'
  BY <1>1, <1>2
     DEF AdminInv, Kept, Restoring, RollbackRestores, Governed, Ran
<1>4. now' \in Nat /\ now' >= now
  BY DEF AdminInv, Types, Aside, Tick
<1>5. /\ now \in Nat /\ admin \in Account /\ supers \in SUBSET Account
      /\ pause \in [on : BOOLEAN, at : Nat, until : Nat]
      /\ Offer \in (0..MaxProposals) \X SUBSET Account
      /\ counter \in Nat
  BY PendingIsLast DEF AdminInv, Types, AdminTypeOK
<1>6. pause' \in [on : BOOLEAN, at : Nat, until : Nat]
  <2>1. CASE emergency_pause
    BY <1>5, <2>1 DEF emergency_pause
  <2>2. CASE unpause
    BY <1>5, <2>2 DEF unpause
  <2>3. CASE pause' = pause
    BY <1>5, <2>3
  <2> QED
    BY <2>1, <2>2, <2>3
       DEF Aside, initialize, accept_admin_transfer, cancel_admin_transfer, grant_role,
           revoke_role, propose_admin_transfer, adminVars
<1>7. supers' \in SUBSET Account
  BY <1>5 DEF Aside, initialize, emergency_pause, unpause, accept_admin_transfer, cancel_admin_transfer,
              grant_role, revoke_role, propose_admin_transfer, adminVars
<1>8. transfer = NoTransfer \/ transfer \in [to : Account, until : Nat,
           supers : SUBSET Account, offer : (0..MaxProposals) \X SUBSET Account]
  BY DEF AdminInv, Types, AdminTypeOK
<1>0. counter' \in Nat
  <2>1. \/ counter' = 0
        \/ counter' = counter
    BY DEF Aside, initialize, emergency_pause, unpause, accept_admin_transfer,
           cancel_admin_transfer, grant_role, revoke_role, propose_admin_transfer, adminVars
  <2> QED
    BY <1>5, <2>1
<1>9. CASE transfer' = transfer /\ admin' \in Account
  <2>1. HandoverFrozen'
    <3> SUFFICES ASSUME HandingOver'
                 PROVE  /\ supers' = transfer'.supers
                        /\ \/ Offer' = transfer'.offer
                           \/ /\ Pending' = 0
                              /\ upgrades'[transfer'.offer[1]].status = "cancelled"
      BY DEF HandoverFrozen
    <3>1. HandingOver
      <4>1. transfer # NoTransfer /\ now' < transfer.until /\ transfer.until \in Nat
        BY <1>8, <1>9 DEF HandingOver
      <4>2. now < transfer.until
        BY <1>4, <1>5, <4>1
      <4> QED
        BY <4>1, <4>2 DEF HandingOver
    <3>2. supers' = supers
      BY <3>1, <1>9 DEF Aside, initialize, emergency_pause, unpause, grant_role, revoke_role,
              accept_admin_transfer, cancel_admin_transfer, propose_admin_transfer, adminVars
    <3> QED
      BY <1>1, <1>2, <1>9, <3>1, <3>2 DEF AdminInv, HandoverFrozen, Kept
  <2>2. AdminTypeOK'
    BY <1>0, <1>1, <1>5, <1>6, <1>7, <1>8, <1>9 DEF AdminInv, Types, AdminTypeOK, Kept
  <2> QED
    BY <1>3, <1>4, <2>1, <2>2 DEF AdminInv, Types
<1>10. CASE transfer' = NoTransfer /\ admin' \in Account
  <2>1. HandoverFrozen'
    BY <1>10 DEF HandoverFrozen, HandingOver
  <2>2. AdminTypeOK'
    BY <1>0, <1>1, <1>5, <1>6, <1>7, <1>10 DEF AdminInv, Types, AdminTypeOK, Kept
  <2> QED
    BY <1>3, <1>4, <2>1, <2>2 DEF AdminInv, Types
<1>11. ASSUME NEW a \in Account, propose_admin_transfer(a), UNCHANGED now
       PROVE  AdminInv'
  <2>1. transfer' = [to |-> a, until |-> now + HandoverLimit, supers |-> supers,
                     offer |-> Offer]
        /\ UNCHANGED <<admin, supers, pause>>
    BY <1>11 DEF propose_admin_transfer
  <2>2. now + HandoverLimit \in Nat
    BY <1>5
  <2>3. transfer' \in [to : Account, until : Nat,
           supers : SUBSET Account, offer : (0..MaxProposals) \X SUBSET Account]
    BY <1>5, <2>1, <2>2
  <2>4. HandoverFrozen'
    BY <1>2, <2>1 DEF HandoverFrozen
  <2>5. AdminTypeOK'
    BY <1>0, <1>1, <1>5, <1>6, <1>7, <2>1, <2>3 DEF AdminInv, Types, AdminTypeOK, Kept
  <2> QED
    BY <1>3, <1>4, <2>4, <2>5 DEF AdminInv, Types
<1>12. CASE accept_admin_transfer
  <2>1. HandingOver /\ admin' = transfer.to /\ transfer' = NoTransfer
    BY <1>12 DEF accept_admin_transfer
  <2>2. transfer.to \in Account
    BY <1>8, <2>1 DEF HandingOver
  <2> QED
    BY <1>10, <2>1, <2>2
<1>13. CASE cancel_admin_transfer
  BY <1>5, <1>10, <1>13 DEF cancel_admin_transfer
<1>14. CASE emergency_pause \/ unpause
            \/ \E a \in Account : initialize(a) \/ grant_role(a) \/ revoke_role(a)
  BY <1>5, <1>9, <1>14 DEF emergency_pause, unpause, initialize, grant_role, revoke_role
<1>15. CASE UNCHANGED adminVars
  BY <1>5, <1>9, <1>15 DEF adminVars
<1> QED
  BY <1>11, <1>12, <1>13, <1>14, <1>15 DEF Aside

-----------------------------------------------------------------------------
(* Steps on the proposals.                                                  *)

LEMMA AddedStep ==
    ASSUME AdminInv, NEW u, Added(u), UNCHANGED <<now, admin, pause>>
    PROVE  AdminInv'
<1>1. /\ upgrades \in Seq(Upgrade) /\ upgrades' \in Seq(Upgrade)
      /\ Len(upgrades') = Len(upgrades) + 1
      /\ upgrades'[Len(upgrades) + 1] = u
      /\ \A i \in DOMAIN upgrades : i \in DOMAIN upgrades' /\ upgrades'[i] = upgrades[i]
      /\ \A i \in DOMAIN upgrades' : i \in DOMAIN upgrades \/ i = Len(upgrades) + 1
      /\ Pending' = Len(upgrades) + 1
  BY AddedKeeps, PendingIsLast DEF AdminInv
<1>2. Types'
  <2>1. Len(upgrades') <= MaxProposals
    BY <1>1, AdministrationAssumption DEF Added
  <2> QED
    BY <1>1, <2>1 DEF AdminInv, Types, AdminTypeOK, Added
<1>3. HandoverFrozen'
  BY DEF Added, HandingOver, HandoverFrozen
<1>4. Restoring'
  BY <1>1 DEF AdminInv, Restoring, RollbackRestores, Added
<1>5. \A i \in DOMAIN upgrades' : Fair(upgrades'[i])
  BY <1>1 DEF AdminInv, Governed, Added
<1>6. \A n \in DOMAIN history' : Ran(n)'
  BY <1>1 DEF AdminInv, Governed, Ran, Added
<1> QED
  BY <1>2, <1>3, <1>4, <1>5, <1>6 DEF AdminInv, Governed, Fair

\* What any move of the pending proposal keeps, as the executed ones stay.
LEMMA MovedStays ==
    ASSUME AdminInv, NEW u, Moved(u)
    PROVE  /\ \A i \in DOMAIN upgrades' : Fair(upgrades'[i])
           /\ \A n \in DOMAIN history : history'[n] = history[n] => Ran(n)'
<1>1. /\ upgrades \in Seq(Upgrade) /\ upgrades' \in Seq(Upgrade)
      /\ Len(upgrades') = Len(upgrades) /\ upgrades'[Pending] = u
      /\ \A i \in DOMAIN upgrades : i # Pending => upgrades'[i] = upgrades[i]
      /\ Pending \in DOMAIN upgrades /\ upgrades[Pending].status = "pending"
  BY MovedKeeps, PendingIsLast DEF AdminInv, Moved
<1>2. Fair(u)
  <2>1. Fair(upgrades[Pending])
    BY <1>1 DEF AdminInv, Governed
  <2> QED
    BY <2>1, MovedKeeps DEF AdminInv, Fair
<1>3. \A i \in DOMAIN upgrades' : Fair(upgrades'[i])
  BY <1>1, <1>2 DEF AdminInv, Governed
<1>4. ASSUME NEW n \in DOMAIN history, history'[n] = history[n]
      PROVE  Ran(n)'
  <2>1. Ran(n)
    BY DEF AdminInv, Governed
  <2>2. history[n].proposal # Pending
    BY <1>1, <2>1 DEF Ran
  <2> QED
    BY <1>1, <1>4, <2>1, <2>2 DEF Ran
<1> QED
  BY <1>3, <1>4

LEMMA ApprovalStep ==
    ASSUME AdminInv, NEW a \in Account, approve_upgrade(a), UNCHANGED now
    PROVE  AdminInv'
<1>1. PICK u : Moved(u) /\ ~HandingOver /\ u.status = "pending"
               /\ UNCHANGED <<history, code, target>>
  BY ApprovalMoves DEF AdminInv
<1>2. /\ upgrades' \in Seq(Upgrade) /\ Len(upgrades') = Len(upgrades)
      /\ upgrades'[Pending] = u /\ Pending' = Pending
      /\ u.rollback = upgrades[Pending].rollback /\ u.hash = upgrades[Pending].hash
  BY <1>1, MovedKeeps DEF AdminInv
<1>3. Types'
  BY <1>2 DEF AdminInv, Types, AdminTypeOK, approve_upgrade
<1>4. HandoverFrozen'
  BY <1>1 DEF approve_upgrade, HandingOver, HandoverFrozen
<1>5. Restoring'
  BY <1>1, <1>2 DEF AdminInv, Restoring, RollbackRestores
<1>6. Governed'
  BY <1>1, MovedStays DEF Governed, Fair
<1> QED
  BY <1>3, <1>4, <1>5, <1>6 DEF AdminInv

LEMMA CancelStep ==
    ASSUME AdminInv, cancel_upgrade, UNCHANGED now
    PROVE  AdminInv'
<1>1. PICK u : Moved(u) /\ u.status = "cancelled"
  BY EndMoves DEF AdminInv, cancel_upgrade
<1>2. /\ upgrades' \in Seq(Upgrade) /\ Len(upgrades') = Len(upgrades)
      /\ upgrades'[Pending] = u /\ Pending' = 0
  BY <1>1, MovedKeeps DEF AdminInv
<1>3. Types'
  BY <1>2 DEF AdminInv, Types, AdminTypeOK, cancel_upgrade
<1>4. HandoverFrozen'
  <2> SUFFICES ASSUME HandingOver'
               PROVE  /\ supers' = transfer'.supers
                      /\ Pending' = 0
                      /\ upgrades'[transfer'.offer[1]].status = "cancelled"
    BY DEF HandoverFrozen
  <2>1. HandingOver /\ transfer' = transfer /\ supers' = supers
    BY DEF HandingOver, cancel_upgrade
  <2>2. Offer = transfer.offer /\ supers = transfer.supers
    BY <2>1 DEF AdminInv, HandoverFrozen, cancel_upgrade
  <2>3. transfer.offer[1] = Pending
    BY <2>2 DEF Offer
  <2> QED
    BY <1>1, <1>2, <2>1, <2>2, <2>3
<1>5. Restoring'
  BY <1>2 DEF AdminInv, Restoring, RollbackRestores, cancel_upgrade
<1>6. Governed'
  BY <1>1, MovedStays DEF Governed, Fair, cancel_upgrade
<1> QED
  BY <1>3, <1>4, <1>5, <1>6 DEF AdminInv

LEMMA ExecuteStep ==
    ASSUME AdminInv, execute_upgrade, UNCHANGED now
    PROVE  AdminInv'
<1> DEFINE old == upgrades[Pending]
           row == [proposal |-> Pending, from |-> code, to |-> old.hash,
                   rollback |-> old.rollback, at |-> now]
           Row == [proposal : 1..MaxProposals, from : Hash \cup {"none"}, to : Hash,
                   rollback : BOOLEAN, at : Nat]
<1>1. /\ Pending # 0 /\ ~HandingOver /\ now >= old.due
      /\ Cardinality(old.approvals) >= old.required
      /\ upgrades' = [upgrades EXCEPT ![Pending].status = "executed"]
      /\ UNCHANGED <<admin, supers, pause, transfer, counter>>
      /\ code' = old.hash /\ history' = Append(history, row)
      /\ target' = (IF code = "none" THEN target ELSE code)
  BY DEF execute_upgrade, Installed
<1>2. PICK u : Moved(u) /\ u.status = "executed" /\ u.approvals = old.approvals
  BY <1>1, EndMoves DEF AdminInv
<1>3. /\ upgrades' \in Seq(Upgrade) /\ Len(upgrades') = Len(upgrades)
      /\ upgrades'[Pending] = u /\ Pending' = 0
      /\ u.due = old.due /\ u.required = old.required
  BY <1>2, MovedKeeps DEF AdminInv
<1>4. /\ history \in Seq(Row) /\ code \in Hash \cup {"none"} /\ now \in Nat
      /\ Len(upgrades) <= MaxProposals
  BY DEF AdminInv, Types, AdminTypeOK
<1>5. /\ old \in Upgrade /\ Pending \in 1..MaxProposals /\ Pending \in DOMAIN upgrades'
  BY <1>1, <1>3, PendingIsLast, AdministrationAssumption DEF AdminInv
<1>6. old.hash \in Hash /\ old.rollback \in BOOLEAN
  BY <1>5 DEF Upgrade
<1>7. row \in Row
  BY <1>4, <1>5, <1>6
<1>8. /\ row.proposal = Pending /\ row.from = code /\ row.to = old.hash
      /\ row.rollback = old.rollback /\ row.at = now
  OBVIOUS
<1> HIDE DEF row, Row, old
<1>9. /\ history' \in Seq(Row) /\ Len(history') = Len(history) + 1 /\ Len(history) \in Nat
      /\ history'[Len(history) + 1] = row
      /\ \A n \in DOMAIN history : n \in DOMAIN history' /\ history'[n] = history[n]
      /\ \A n \in DOMAIN history' : n \in DOMAIN history \/ n = Len(history) + 1
      /\ history' # <<>>
  BY <1>1, <1>4, <1>7
<1>10. Types'
  <2>1. code' \in Hash \cup {"none"} /\ target' \in Hash \cup {"none"}
    BY <1>1, <1>4, <1>6 DEF AdminInv, Types, AdminTypeOK
  <2> QED
    BY <1>1, <1>3, <1>4, <1>9, <2>1 DEF AdminInv, Types, AdminTypeOK, Row
<1>11. HandoverFrozen'
  BY <1>1 DEF HandingOver, HandoverFrozen
<1>12. Governed'
  <2>1. ASSUME NEW n \in DOMAIN history', n = Len(history) + 1
        PROVE  Ran(n)'
    <3>1. history'[n] = row
      BY <1>9, <2>1
    <3> QED
      BY <1>1, <1>2, <1>3, <1>5, <1>8, <3>1 DEF Ran
  <2>2. \A n \in DOMAIN history : Ran(n)'
    BY <1>2, <1>9, MovedStays
  <2>3. \A n \in DOMAIN history' : Ran(n)'
    BY <1>9, <2>1, <2>2
  <2>4. \A i \in DOMAIN upgrades' : Fair(upgrades'[i])
    BY <1>2, MovedStays
  <2> QED
    BY <2>3, <2>4 DEF Governed, Fair
<1>13. Restoring'
  <2>1. /\ code = IF history = <<>> THEN "none" ELSE history[Len(history)].to
        /\ \A n \in 2..Len(history) :
              /\ history[n].from = history[n - 1].to
              /\ history[n].rollback => history[n].to = history[n - 1].from
        /\ target # "none" => Len(history) > 1 /\ target = history[Len(history)].from
        /\ old.rollback => target # "none" /\ old.hash = target
    BY <1>1 DEF AdminInv, Restoring, RollbackRestores, old
  <2>2. code' = history'[Len(history')].to
    BY <1>1, <1>8, <1>9
  <2>3. ASSUME NEW n \in 2..Len(history')
        PROVE  /\ history'[n].from = history'[n - 1].to
               /\ history'[n].rollback => history'[n].to = history'[n - 1].from
    <3>1. CASE n \in DOMAIN history
      <4>1. n \in 2..Len(history) /\ n - 1 \in DOMAIN history
        BY <1>4, <1>9, <3>1
      <4> QED
        BY <1>9, <2>1, <3>1, <4>1
    <3>2. CASE n = Len(history) + 1
      <4>1. Len(history) \in DOMAIN history /\ n - 1 = Len(history) /\ history # <<>>
        BY <1>4, <1>9, <3>2
      <4>2. history'[n] = row /\ history'[n - 1] = history[Len(history)]
        BY <1>9, <3>2, <4>1
      <4> QED
        BY <1>8, <2>1, <4>1, <4>2
    <3> QED
      BY <1>4, <1>9, <3>1, <3>2
  <2>4. target' # "none" => Len(history') > 1 /\ target' = history'[Len(history')].from
    <3>1. code = "none" => history = <<>>
      <4>1. ASSUME history # <<>> PROVE history[Len(history)].to \in Hash
        <5>1. Len(history) \in DOMAIN history
          BY <1>4, <4>1
        <5>2. history[Len(history)] \in Row
          BY <1>4, <5>1
        <5> QED
          BY <5>2 DEF Row
      <4> QED
        BY <2>1, <4>1, AdministrationAssumption
    <3>2. CASE code = "none"
      BY <1>1, <1>4, <2>1, <3>1, <3>2
    <3>3. CASE code # "none"
      <4>1. history # <<>> /\ Len(history) > 0
        BY <1>4, <2>1, <3>3
      <4> QED
        BY <1>1, <1>8, <1>9, <3>3, <4>1
    <3> QED
      BY <3>2, <3>3
  <2> QED
    BY <1>3, <1>9, <2>2, <2>3, <2>4 DEF Restoring, RollbackRestores
<1> QED
  BY <1>10, <1>11, <1>12, <1>13 DEF AdminInv

-----------------------------------------------------------------------------

LEMMA AdminInitial == ClockInit /\ AdminInit => AdminInv
<1> SUFFICES ASSUME ClockInit, AdminInit PROVE AdminInv
  OBVIOUS
<1>1. upgrades = <<>> /\ history = <<>> /\ Pending = 0
  BY DEF AdminInit, Pending
<1>2. Types
  BY AdministrationAssumption DEF ClockInit, AdminInit, Types, AdminTypeOK
<1>3. HandoverFrozen
  BY DEF AdminInit, HandoverFrozen, HandingOver
<1>4. Restoring
  BY <1>1 DEF AdminInit, Restoring, RollbackRestores
<1>5. Governed
  BY <1>1 DEF Governed
<1> QED
  BY <1>2, <1>3, <1>4, <1>5 DEF AdminInv

LEMMA AdminStep == AdminInv /\ AdminAct => AdminInv'
<1> SUFFICES ASSUME AdminInv, AdminAct PROVE AdminInv'
  OBVIOUS
<1>1. CASE Aside
  BY <1>1, AsideKeeps
<1>2. ASSUME NEW a \in Account, approve_upgrade(a), UNCHANGED now PROVE AdminInv'
  BY <1>2, ApprovalStep
<1>3. CASE execute_upgrade /\ UNCHANGED now
  BY <1>3, ExecuteStep
<1>4. CASE cancel_upgrade /\ UNCHANGED now
  BY <1>4, CancelStep
<1>5. ASSUME NEW a \in Account, NEW emergency \in BOOLEAN, propose_rollback(a, emergency),
             UNCHANGED now
      PROVE  AdminInv'
  <2>1. target \in Hash /\ target # "none" /\ Proposed(a, target, emergency, TRUE)
    BY <1>5 DEF propose_rollback, AdminInv, Types, AdminTypeOK
  <2>2. \E u : Added(u)
    BY <2>1, ProposalAdded DEF AdminInv
  <2> QED
    BY <1>5, <2>1, <2>2, AddedStep DEF Proposed
<1>6. ASSUME NEW a \in Account, NEW emergency \in BOOLEAN, NEW hash \in Hash,
             propose_upgrade(a, hash, emergency), UNCHANGED now
      PROVE  AdminInv'
  <2>1. Proposed(a, hash, emergency, FALSE)
    BY <1>6 DEF propose_upgrade
  <2>2. \E u : Added(u)
    BY <2>1, ProposalAdded DEF AdminInv
  <2> QED
    BY <1>6, <2>1, <2>2, AddedStep DEF Proposed
<1> QED
  BY <1>1, <1>2, <1>3, <1>4, <1>5, <1>6 DEF AdminAct, AdminNext, Aside

\* The invariant gives the promises about votes: who ran was approved by as
\* many as it took, and that is at least half of the members it had.
LEMMA GovernedUpgrades == AdminInv => UpgradesGoverned
<1> SUFFICES ASSUME AdminInv, NEW n \in DOMAIN history
             PROVE  LET u == upgrades[history[n].proposal]
                        approvals == Cardinality(u.approvals)
                    IN /\ 2 * approvals >= u.members
                       /\ history[n].at < u.at + UpgradeLock =>
                             /\ u.emergency /\ approvals > 1
                             /\ approvals > CeilDiv(u.members, 2)
  BY DEF UpgradesGoverned
<1> DEFINE u == upgrades[history[n].proposal]
<1>1. Ran(n) /\ history[n].proposal \in DOMAIN upgrades
  BY DEF AdminInv, Governed, Ran
<1>2. u \in Upgrade /\ Fair(u)
  BY <1>1, PendingIsLast DEF AdminInv, Governed
<1>3. /\ u.members \in Nat /\ u.required \in Nat /\ u.at \in Nat /\ u.due \in Nat
      /\ u.approvals \in SUBSET Account /\ u.emergency \in BOOLEAN
  BY <1>2 DEF Upgrade
<1>4. Cardinality(u.approvals) \in Nat
  BY <1>3, AdministrationAssumption, FS_Subset, FS_CardinalityType
<1>5. history[n].at >= u.due /\ Cardinality(u.approvals) >= u.required
  BY <1>1 DEF Ran
<1>6. history[n].at \in Nat
  <2> DEFINE Row == [proposal : 1..MaxProposals, from : Hash \cup {"none"}, to : Hash,
                     rollback : BOOLEAN, at : Nat]
  <2>1. history \in Seq(Row)
    BY DEF AdminInv, Types, AdminTypeOK
  <2> HIDE DEF Row
  <2>2. history[n] \in Row
    BY <2>1
  <2> QED
    BY <2>2 DEF Row
<1>7. CeilDiv(u.members, 2) \in Nat
  BY <1>3, Half
<1> HIDE DEF u
<1>8. 2 * Cardinality(u.approvals) >= u.members
  BY <1>2, <1>3, <1>4, <1>5 DEF Fair
<1>9. ASSUME history[n].at < u.at + UpgradeLock
      PROVE  /\ u.emergency /\ Cardinality(u.approvals) > 1
             /\ Cardinality(u.approvals) > CeilDiv(u.members, 2)
  <2>1. u.emergency
    BY <1>2, <1>3, <1>5, <1>6, <1>9, AdministrationAssumption DEF Fair
  <2> QED
    BY <1>2, <1>3, <1>4, <1>5, <1>7, <2>1 DEF Fair
<1> QED
  BY <1>8, <1>9 DEF u

LEMMA AdminInvHolds == AdminSpec => []AdminInv
BY AdminInitial, AdminStep, PTL DEF AdminSpec, AdminAct

\* A handover leaves roles and upgrade as they were offered, and every upgrade
\* that ran was governed and can be rolled back, for any number of members and
\* proposals and however often the contract is initialised again.
THEOREM AdminSoundHolds == AdminSpec => []AdminSound
<1>1. AdminInv => AdminSound
  BY GovernedUpgrades DEF AdminInv, AdminSound, Types, Restoring
<1> QED
  BY <1>1, AdminInvHolds, PTL

-----------------------------------------------------------------------------
(* Refinement of QuorumDecision.                                            *)

\* QuorumDecision counts with the same Cardinality.
LEMMA SameCardinality == \A S : UpgradeDecision!Cardinality(S) = Cardinality(S)
BY DEF UpgradeDecision!Cardinality, Cardinality

StageOf(u) ==
    CASE u.status = "executed" -> "done"
      [] u.status = "cancelled" -> "off"
      [] u.status = "pending" /\ Cardinality(u.approvals) >= u.required -> "approved"
      [] OTHER -> "open"

LEMMA StageAndVotes ==
    ASSUME NEW i \in 1..MaxProposals
    PROVE  /\ UpgradeStage[i] = IF i \in DOMAIN upgrades THEN StageOf(upgrades[i]) ELSE "none"
           /\ UpgradeVotes[i] = IF i \in DOMAIN upgrades THEN upgrades[i].approvals ELSE {}
BY DEF UpgradeStage, UpgradeVotes, StageOf

LEMMA StageAndVotesPrimed ==
    ASSUME NEW i \in 1..MaxProposals
    PROVE  /\ UpgradeStage'[i]
                = IF i \in DOMAIN upgrades' THEN StageOf(upgrades'[i]) ELSE "none"
           /\ UpgradeVotes'[i] = IF i \in DOMAIN upgrades' THEN upgrades'[i].approvals ELSE {}
BY DEF UpgradeStage, UpgradeVotes, StageOf

\* A proposal that is the same before and after rests.
LEMMA SameRests ==
    ASSUME NEW i \in 1..MaxProposals, i \in DOMAIN upgrades <=> i \in DOMAIN upgrades',
           i \in DOMAIN upgrades => upgrades'[i] = upgrades[i]
    PROVE  UpgradeDecision!Decide(i)
BY StageAndVotes, StageAndVotesPrimed DEF UpgradeDecision!Decide, UpgradeDecision!Rest

\* A move of the pending proposal is a decision about it if it is one.
LEMMA MovedDecides ==
    ASSUME Types, NEW u, Moved(u), UpgradeDecision!Decide(Pending)
    PROVE  \A i \in 1..MaxProposals : UpgradeDecision!Decide(i)
<1> SUFFICES ASSUME NEW i \in 1..MaxProposals, i # Pending
             PROVE  UpgradeDecision!Decide(i)
  OBVIOUS
<1>1. DOMAIN upgrades' = DOMAIN upgrades
      /\ \A j \in DOMAIN upgrades : j # Pending => upgrades'[j] = upgrades[j]
  BY MovedKeeps, PendingIsLast
<1> QED
  BY <1>1, SameRests

\* The proposal carries the vote of its proposer.
LEMMA ProposedDecides ==
    ASSUME Types, NEW a \in Account, NEW hash \in Hash, NEW emergency \in BOOLEAN,
           NEW rollback \in BOOLEAN, Proposed(a, hash, emergency, rollback),
           rollback => target # "none" /\ hash = target
    PROVE  \A i \in 1..MaxProposals : UpgradeDecision!Decide(i)
<1>1. PICK u : Added(u)
  BY ProposalAdded
<1> DEFINE new == Len(upgrades) + 1
<1>2. /\ upgrades \in Seq(Upgrade) /\ upgrades' \in Seq(Upgrade)
      /\ Len(upgrades') = new /\ upgrades'[new] = u
      /\ \A i \in DOMAIN upgrades : i \in DOMAIN upgrades' /\ upgrades'[i] = upgrades[i]
      /\ \A i \in DOMAIN upgrades' : i \in DOMAIN upgrades \/ i = new
      /\ Pending' = new
  BY <1>1, AddedKeeps, PendingIsLast
<1>3. Len(upgrades) < MaxProposals /\ Len(upgrades) \in Nat
  BY <1>1, <1>2 DEF Added
<1>4. new \in 1..MaxProposals /\ new \in DOMAIN upgrades' /\ new \notin DOMAIN upgrades
      /\ new # 0
  BY <1>2, <1>3, AdministrationAssumption
<1>5. u.approvals = {a} /\ u.status = "pending" /\ u \in Upgrade
  <2>1. \E due, required, members :
           upgrades' = Append(upgrades,
              [id |-> counter + 1, hash |-> hash, at |-> now, due |-> due, required |-> required,
               members |-> members, approvals |-> {a}, emergency |-> emergency,
               rollback |-> rollback, status |-> "pending"])
    BY DEF Proposed
  <2>2. \A x : Append(upgrades, x)[new] = x
    BY <1>2
  <2>3. upgrades'[new].approvals = {a}
    BY <2>1, <2>2
  <2> QED
    BY <1>1, <1>2, <2>3 DEF Added
<1> HIDE DEF new
<1>6. ASSUME NEW i \in 1..MaxProposals, i # new
      PROVE  UpgradeDecision!Decide(i)
  BY <1>2, <1>6, SameRests
<1>7. UpgradeDecision!Decide(new)
  <2>1. UpgradeStage[new] = "none" /\ UpgradeVotes[new] = {}
    BY <1>4, StageAndVotes
  <2>2. UpgradeVotes'[new] = UpgradeVotes[new] \cup {a}
        /\ UpgradeStage'[new] = StageOf(u)
    BY <1>2, <1>4, <1>5, <2>1, StageAndVotesPrimed
  <2>3. (IF Pending = 0 THEN 0 ELSE upgrades[Pending].required)' = u.required
    BY <1>2, <1>4
  <2>4. UpgradeStage'[new]
          = IF UpgradeStage[new] = "approved"
               \/ Cardinality(UpgradeVotes'[new])
                    >= (IF Pending = 0 THEN 0 ELSE upgrades[Pending].required)'
            THEN "approved" ELSE "open"
    BY <1>5, <2>1, <2>2, <2>3 DEF StageOf
  <2>5. UpgradeDecision!Vote(new)
    BY <2>1, <2>2, <2>4, SameCardinality DEF UpgradeDecision!Vote
  <2> QED
    BY <2>5 DEF UpgradeDecision!Decide
<1> QED
  BY <1>6, <1>7

LEMMA ApprovalDecides ==
    ASSUME Types, NEW a \in Account, approve_upgrade(a)
    PROVE  \A i \in 1..MaxProposals : UpgradeDecision!Decide(i)
<1>1. PICK u : Moved(u) /\ ~HandingOver /\ u.status = "pending"
  BY ApprovalMoves
<1> DEFINE p == Pending
           old == upgrades[p]
<1>2. /\ p # 0 /\ old \in Upgrade /\ old.status = "pending" /\ p \in DOMAIN upgrades
      /\ p \in 1..MaxProposals
  BY <1>1, PendingIsLast, AdministrationAssumption DEF Moved
<1>3. /\ Len(upgrades') = Len(upgrades) /\ upgrades'[p] = u /\ Pending' = p
      /\ u.required = old.required /\ p \in DOMAIN upgrades'
  BY <1>1, <1>2, MovedKeeps, PendingIsLast
<1>4. u.approvals = old.approvals \cup {a} /\ a \notin old.approvals
  <2>1. upgrades' = [upgrades EXCEPT ![p] = [old EXCEPT !.approvals = @ \cup {a}]]
    BY DEF approve_upgrade
  <2>2. upgrades'[p] = [old EXCEPT !.approvals = @ \cup {a}]
    BY <1>2, <2>1, PendingIsLast
  <2>3. u.approvals = old.approvals \cup {a}
    BY <1>2, <1>3, <2>2 DEF Upgrade
  <2> QED
    BY <2>3 DEF approve_upgrade
<1>5. /\ IsFiniteSet(old.approvals) /\ old.required \in Nat
      /\ Cardinality(old.approvals) \in Nat
      /\ Cardinality(u.approvals) = Cardinality(old.approvals) + 1
  <2>1. old.approvals \in SUBSET Account /\ old.required \in Nat
    BY <1>2 DEF Upgrade
  <2>2. IsFiniteSet(old.approvals)
    BY <2>1, AdministrationAssumption, FS_Subset
  <2> QED
    BY <1>4, <2>1, <2>2, FS_AddElement, FS_CardinalityType
<1> HIDE DEF p, old
<1>6. UpgradeStage[p] = StageOf(old) /\ UpgradeVotes[p] = old.approvals
  BY <1>2, StageAndVotes DEF old
<1>7. UpgradeStage'[p] = StageOf(u) /\ UpgradeVotes'[p] = u.approvals
  BY <1>2, <1>3, StageAndVotesPrimed
<1>8. (IF Pending = 0 THEN 0 ELSE upgrades[Pending].required)' = u.required
  BY <1>2, <1>3
<1>9. UpgradeStage[p] \in {"open", "approved"}
      /\ (UpgradeStage[p] = "approved" => Cardinality(old.approvals) >= old.required)
  BY <1>2, <1>6 DEF StageOf
<1>10. UpgradeStage'[p]
          = IF UpgradeStage[p] = "approved"
               \/ Cardinality(UpgradeVotes'[p])
                    >= (IF Pending = 0 THEN 0 ELSE upgrades[Pending].required)'
            THEN "approved" ELSE "open"
  <2>1. UpgradeStage[p] = "approved" => Cardinality(u.approvals) >= u.required
    BY <1>3, <1>5, <1>9
  <2>2. StageOf(u) = IF Cardinality(u.approvals) >= u.required THEN "approved" ELSE "open"
    BY <1>1 DEF StageOf
  <2> QED
    BY <1>7, <1>8, <2>1, <2>2
<1>11. UpgradeDecision!Vote(p)
  BY <1>4, <1>6, <1>7, <1>9, <1>10, SameCardinality DEF UpgradeDecision!Vote
<1>12. UpgradeDecision!Decide(Pending)
  BY <1>11 DEF UpgradeDecision!Decide, p
<1> QED
  BY <1>1, <1>12, MovedDecides

\* The pending proposal is carried out, approved as it is, or called off.
LEMMA EndDecides ==
    ASSUME Types, NEW status \in {"executed", "cancelled"}, Pending # 0,
           upgrades' = [upgrades EXCEPT ![Pending].status = status],
           UNCHANGED <<supers, transfer, counter>>,
           status = "executed" =>
               Cardinality(upgrades[Pending].approvals) >= upgrades[Pending].required
    PROVE  \A i \in 1..MaxProposals : UpgradeDecision!Decide(i)
<1>1. PICK u : Moved(u) /\ u.status = status /\ u.approvals = upgrades[Pending].approvals
  BY EndMoves
<1> DEFINE p == Pending
           old == upgrades[p]
<1>2. /\ old.status = "pending" /\ p \in DOMAIN upgrades /\ p \in 1..MaxProposals
  BY PendingIsLast, AdministrationAssumption
<1>3. upgrades'[p] = u /\ p \in DOMAIN upgrades'
  BY <1>1, <1>2, MovedKeeps, PendingIsLast
<1>4. UpgradeStage[p] = StageOf(old) /\ UpgradeVotes[p] = old.approvals
      /\ UpgradeStage'[p] = StageOf(u) /\ UpgradeVotes'[p] = u.approvals
  BY <1>2, <1>3, StageAndVotes, StageAndVotesPrimed
<1>5. StageOf(old) \in {"open", "approved"}
      /\ (Cardinality(old.approvals) >= old.required => StageOf(old) = "approved")
  BY <1>2 DEF StageOf
<1>6. /\ u.status = "executed" => StageOf(u) = "done"
      /\ u.status = "cancelled" => StageOf(u) = "off"
  BY DEF StageOf
<1>7. CASE status = "executed"
  <2>1. UpgradeDecision!CarryOut(p)
    BY <1>1, <1>4, <1>5, <1>6, <1>7 DEF UpgradeDecision!CarryOut
  <2> QED
    BY <1>1, <2>1, MovedDecides DEF UpgradeDecision!Decide
<1>8. CASE status = "cancelled"
  <2>1. UpgradeDecision!CallOff(p)
    BY <1>1, <1>4, <1>5, <1>6, <1>8 DEF UpgradeDecision!CallOff
  <2> QED
    BY <1>1, <2>1, MovedDecides DEF UpgradeDecision!Decide
<1> QED
  BY <1>7, <1>8

LEMMA StepDecides ==
    ASSUME Types, AdminAct
    PROVE  \A i \in 1..MaxProposals : UpgradeDecision!Decide(i)
<1>1. CASE Aside
  <2>1. upgrades' = upgrades
    BY <1>1 DEF Aside, initialize, emergency_pause, unpause, accept_admin_transfer,
          cancel_admin_transfer, grant_role, revoke_role, propose_admin_transfer, adminVars
  <2> QED
    BY <2>1, SameRests
<1>2. ASSUME NEW a \in Account, approve_upgrade(a)
      PROVE  \A i \in 1..MaxProposals : UpgradeDecision!Decide(i)
  BY <1>2, ApprovalDecides
<1>3. CASE execute_upgrade
  BY <1>3, EndDecides DEF execute_upgrade, Installed
<1>4. CASE cancel_upgrade
  BY <1>4, EndDecides DEF cancel_upgrade
<1>5. ASSUME NEW a \in Account, NEW emergency \in BOOLEAN, propose_rollback(a, emergency)
      PROVE  \A i \in 1..MaxProposals : UpgradeDecision!Decide(i)
  <2>1. target \in Hash /\ target # "none" /\ Proposed(a, target, emergency, TRUE)
    BY <1>5 DEF propose_rollback, Types, AdminTypeOK
  <2> QED
    BY <2>1, ProposedDecides
<1>6. ASSUME NEW a \in Account, NEW emergency \in BOOLEAN, NEW hash \in Hash,
             propose_upgrade(a, hash, emergency)
      PROVE  \A i \in 1..MaxProposals : UpgradeDecision!Decide(i)
  BY <1>6, ProposedDecides DEF propose_upgrade
<1> QED
  BY <1>1, <1>2, <1>3, <1>4, <1>5, <1>6 DEF AdminAct, AdminNext, Aside

\* Every upgrade proposal keeps the promise of QuorumDecision, for any number
\* of members and proposals, however often ids start anew.
THEOREM UpgradeIsDecisionHolds == AdminSpec => UpgradeIsDecision
<1>1. AdminInit => UpgradeDecision!DecisionInit
  BY DEF AdminInit, UpgradeDecision!DecisionInit, UpgradeStage, UpgradeVotes
<1>2. AdminInv /\ AdminAct =>
        [\A i \in 1..MaxProposals : UpgradeDecision!Decide(i)]_<<UpgradeStage, UpgradeVotes>>
  BY StepDecides DEF AdminInv
<1> QED
  BY <1>1, <1>2, AdminInvHolds, PTL
     DEF AdminSpec, AdminAct, UpgradeIsDecision, UpgradeDecision!DecisionSpec

-----------------------------------------------------------------------------
(***************************************************************************)
(* The guardians' pauses.  The deadline of a pause decides nothing, so the *)
(* clock matters only for its type.                                        *)
(***************************************************************************)

PauseRecord == [scope : Place \cup {"global"}, deadline : Nat, active : BOOLEAN]
RequestRecord == [approvals : Nat, threshold : Nat, open : BOOLEAN]

\* PausesSound, with the clock's type, is inductive as it stands.
PausesInv == now \in Nat /\ PausesSound

LEMMA PausesInitial == ClockInit /\ GuardianInit => PausesInv
BY GuardianAssumption
   DEF ClockInit, GuardianInit, PausesInv, PausesSound, GuardianTypeOK, LiftedByRequest

LEMMA SetGuardianKeeps ==
    ASSUME PausesInv, NEW g \in Guardian, NEW role \in {"none", "standard", "emergency"},
           set_guardian(g, role), UNCHANGED now
    PROVE  PausesInv'
BY DEF PausesInv, PausesSound, GuardianTypeOK, LiftedByRequest, set_guardian

LEMMA PauseKeeps ==
    ASSUME PausesInv, NEW g \in Guardian, NEW scope \in Place \cup {"global"},
           pause_scope(g, scope), UNCHANGED now
    PROVE  PausesInv'
<1> DEFINE new == [scope |-> scope, deadline |-> now + RecoveryDelay, active |-> TRUE]
<1>1. pauses \in Seq(PauseRecord) /\ requests \in Seq(RequestRecord)
      /\ approvers \in Seq(SUBSET Guardian) /\ Len(requests) = Len(pauses)
      /\ Len(approvers) = Len(pauses)
  BY DEF PausesInv, PausesSound, GuardianTypeOK, PauseRecord, RequestRecord
<1>2. pauses' = Append(pauses, new) /\ requests' = Append(requests, NoRequest)
      /\ approvers' = Append(approvers, {}) /\ watch' = watch /\ threshold' = threshold
  BY DEF pause_scope
<1>3. new \in PauseRecord /\ new.active
  BY GuardianAssumption DEF PauseRecord, PausesInv
<1>4. NoRequest \in RequestRecord
  BY DEF NoRequest, RequestRecord
<1> HIDE DEF new
<1>5. pauses' \in Seq(PauseRecord) /\ requests' \in Seq(RequestRecord)
      /\ approvers' \in Seq(SUBSET Guardian) /\ Len(requests') = Len(pauses')
      /\ Len(approvers') = Len(pauses')
      /\ Len(pauses') = Len(pauses) + 1
  BY <1>1, <1>2, <1>3, <1>4
<1>6. GuardianTypeOK'
  BY <1>2, <1>5 DEF PausesInv, PausesSound, GuardianTypeOK, PauseRecord, RequestRecord
<1>7. ASSUME NEW p \in DOMAIN pauses'
      PROVE  IF pauses'[p].active
             THEN requests'[p].open \/ requests'[p] = NoRequest
             ELSE ~requests'[p].open /\ requests'[p].approvals >= requests'[p].threshold
  <2>1. CASE p = Len(pauses) + 1
    <3>1. pauses'[p] = new /\ requests'[p] = NoRequest
      BY <1>1, <1>2, <2>1
    <3> QED
      BY <1>3, <3>1
  <2>2. CASE p # Len(pauses) + 1
    <3>1. p \in DOMAIN pauses /\ pauses'[p] = pauses[p] /\ requests'[p] = requests[p]
      BY <1>1, <1>2, <1>5, <2>2
    <3> QED
      BY <3>1 DEF PausesInv, PausesSound, LiftedByRequest
  <2> QED
    BY <2>1, <2>2
<1> QED
  BY <1>6, <1>7 DEF PausesInv, PausesSound, LiftedByRequest

\* A step on the request of one pause.
LEMMA RequestKeeps ==
    ASSUME PausesInv, NEW g \in Guardian, NEW p \in DOMAIN pauses,
           request_recovery(g, p) \/ approve_recovery(g, p) \/ execute_recovery(g, p),
           UNCHANGED now
    PROVE  PausesInv'
<1>1. pauses \in Seq(PauseRecord) /\ requests \in Seq(RequestRecord)
      /\ approvers \in Seq(SUBSET Guardian) /\ Len(requests) = Len(pauses)
      /\ Len(approvers) = Len(pauses)
      /\ threshold \in Nat
  BY GuardianAssumption
     DEF PausesInv, PausesSound, GuardianTypeOK, PauseRecord, RequestRecord
<1>2. p \in DOMAIN requests /\ requests[p] \in RequestRecord /\ pauses[p] \in PauseRecord
  BY <1>1
<1>3. approvers' \in Seq(SUBSET Guardian) /\ Len(approvers') = Len(approvers)
  BY <1>1 DEF request_recovery, approve_recovery, execute_recovery
<1>4. \E new \in RequestRecord : requests' = [requests EXCEPT ![p] = new]
  <2>1. CASE request_recovery(g, p)
    <3>1. [approvals |-> 1, threshold |-> threshold, open |-> TRUE] \in RequestRecord
      BY <1>1 DEF RequestRecord
    <3> QED
      BY <2>1, <3>1 DEF request_recovery
  <2>2. CASE approve_recovery(g, p)
    <3>1. [requests[p] EXCEPT !.approvals = @ + 1] \in RequestRecord
      BY <1>2 DEF RequestRecord
    <3> QED
      BY <2>2, <3>1 DEF approve_recovery
  <2>3. CASE execute_recovery(g, p)
    <3>1. [requests[p] EXCEPT !.open = FALSE] \in RequestRecord
      BY <1>2 DEF RequestRecord
    <3> QED
      BY <2>3, <3>1 DEF execute_recovery
  <2> QED
    BY <2>1, <2>2, <2>3
<1>5. \E new \in PauseRecord : pauses' = [pauses EXCEPT ![p] = new]
  <2>1. CASE pauses' = pauses
    BY <1>1, <1>2, <2>1
  <2>2. CASE execute_recovery(g, p)
    <3>1. [pauses[p] EXCEPT !.active = FALSE] \in PauseRecord
      BY <1>2 DEF PauseRecord
    <3> QED
      BY <2>2, <3>1 DEF execute_recovery
  <2> QED
    BY <2>1, <2>2 DEF request_recovery, approve_recovery
<1>6. /\ pauses' \in Seq(PauseRecord) /\ requests' \in Seq(RequestRecord)
      /\ Len(requests') = Len(requests) /\ Len(pauses') = Len(pauses)
      /\ \A q \in DOMAIN pauses : q # p => pauses'[q] = pauses[q] /\ requests'[q] = requests[q]
  BY <1>1, <1>2, <1>4, <1>5
<1>7. GuardianTypeOK'
  BY <1>1, <1>3, <1>6
     DEF request_recovery, approve_recovery, execute_recovery, PausesInv, PausesSound,
         GuardianTypeOK, PauseRecord, RequestRecord
<1>8. IF pauses[p].active
      THEN requests[p].open \/ requests[p] = NoRequest
      ELSE ~requests[p].open /\ requests[p].approvals >= requests[p].threshold
  BY DEF PausesInv, PausesSound, LiftedByRequest
<1>9. IF pauses'[p].active
      THEN requests'[p].open \/ requests'[p] = NoRequest
      ELSE ~requests'[p].open /\ requests'[p].approvals >= requests'[p].threshold
  <2>1. CASE request_recovery(g, p)
    <3>1. pauses'[p] = pauses[p] /\ pauses[p].active /\ requests'[p].open
      BY <1>2, <2>1 DEF request_recovery
    <3> QED
      BY <3>1
  <2>2. CASE approve_recovery(g, p)
    <3>1. pauses'[p] = pauses[p] /\ requests[p].open /\ requests'[p].open = requests[p].open
      BY <1>2, <2>2 DEF approve_recovery, RequestRecord
    <3> QED
      BY <1>8, <3>1
  <2>3. CASE execute_recovery(g, p)
    <3>1. /\ pauses'[p].active = FALSE
          /\ requests'[p] = [requests[p] EXCEPT !.open = FALSE]
          /\ requests[p].approvals >= requests[p].threshold
      BY <1>1, <1>2, <2>3 DEF execute_recovery, PauseRecord
    <3>2. /\ requests'[p].open = FALSE
          /\ requests'[p].approvals = requests[p].approvals
          /\ requests'[p].threshold = requests[p].threshold
      BY <1>2, <3>1 DEF RequestRecord
    <3> QED
      BY <3>1, <3>2
  <2> QED
    BY <2>1, <2>2, <2>3
<1>10. LiftedByRequest'
  <2> SUFFICES ASSUME NEW q \in DOMAIN pauses'
               PROVE  IF pauses'[q].active
                      THEN requests'[q].open \/ requests'[q] = NoRequest
                      ELSE /\ ~requests'[q].open
                           /\ requests'[q].approvals >= requests'[q].threshold
    BY DEF LiftedByRequest
  <2>1. CASE q = p
    BY <1>9, <2>1
  <2>2. CASE q # p
    <3>1. q \in DOMAIN pauses
      BY <1>1, <1>6
    <3> QED
      BY <1>6, <2>2, <3>1 DEF PausesInv, PausesSound, LiftedByRequest
  <2> QED
    BY <2>1, <2>2
<1> QED
  BY <1>7, <1>10 DEF PausesInv, PausesSound

GuardianAct == [GuardianNext \/ (Tick /\ UNCHANGED guardianVars)]_<<now, guardianVars>>

LEMMA PausesStep == PausesInv /\ GuardianAct => PausesInv'
<1> SUFFICES ASSUME PausesInv, GuardianAct PROVE PausesInv'
  OBVIOUS
<1>1. CASE GuardianNext
  BY <1>1, SetGuardianKeeps, PauseKeeps, RequestKeeps DEF GuardianNext
<1>2. CASE UNCHANGED guardianVars /\ now' \in Nat
  BY <1>2 DEF guardianVars, PausesInv, PausesSound, GuardianTypeOK, LiftedByRequest, is_paused
<1>3. Tick \/ UNCHANGED now => now' \in Nat
  BY DEF Tick, PausesInv
<1> QED
  BY <1>1, <1>2, <1>3 DEF GuardianAct

LEMMA PausesInvHolds == GuardianSpec => []PausesInv
BY PausesInitial, PausesStep, PTL DEF GuardianSpec, GuardianAct

\* Each pause is held or was lifted by its own request, for any number of
\* guardians and of pauses.
THEOREM PausesSoundHolds == GuardianSpec => []PausesSound
<1>1. PausesInv => PausesSound
  BY DEF PausesInv
<1> QED
  BY <1>1, PausesInvHolds, PTL

\* A step that frees a place recovers one pause, by its own request, and
\* leaves the others as they are.
LEMMA FreedByRecovery ==
    ASSUME PausesInv, GuardianAct, NEW scope \in Place, is_paused(scope), ~is_paused(scope)'
    PROVE  \E p \in DOMAIN pauses :
              /\ pauses[p].active /\ pauses[p].scope \in {"global", scope}
              /\ requests[p].open /\ requests[p].approvals >= requests[p].threshold
              /\ \A q \in DOMAIN pauses \ {p} : pauses'[q] = pauses[q]
<1>1. pauses \in Seq(PauseRecord)
  BY DEF PausesInv, PausesSound, GuardianTypeOK, PauseRecord
<1>2. pauses' # pauses
  BY DEF is_paused
<1>3. PICK p \in DOMAIN pauses : pauses[p].active /\ pauses[p].scope \in {"global", scope}
  BY DEF is_paused
<1>4. ASSUME NEW g \in Guardian, NEW place \in Place \cup {"global"}, pause_scope(g, place)
      PROVE  FALSE
  <2>1. \A x : p \in DOMAIN Append(pauses, x) /\ Append(pauses, x)[p] = pauses[p]
    BY <1>1
  <2>2. p \in DOMAIN pauses' /\ pauses'[p] = pauses[p]
    BY <1>4, <2>1 DEF pause_scope
  <2> QED
    BY <1>3, <2>2 DEF is_paused
<1>5. PICK g \in Guardian, q \in DOMAIN pauses : execute_recovery(g, q)
  BY <1>2, <1>4
     DEF GuardianAct, GuardianNext, guardianVars, set_guardian, request_recovery, approve_recovery
<1>6. \A r \in DOMAIN pauses \ {q} : r \in DOMAIN pauses' /\ pauses'[r] = pauses[r]
  BY <1>1, <1>5 DEF execute_recovery
<1>7. p = q
  BY <1>3, <1>6 DEF is_paused
<1> QED
  BY <1>3, <1>5, <1>6, <1>7 DEF execute_recovery

\* What is paused is freed only by the recovery of the last pause that holds
\* it, by that pause's own approved request and with no other pause touched,
\* for any number of places and any order of recoveries.
THEOREM HeldWhilePausedHolds == GuardianSpec => HeldWhilePaused
<1>1. PausesInv /\ GuardianAct =>
         [\A scope \in Place : is_paused(scope) /\ ~is_paused(scope)' =>
             \E p \in DOMAIN pauses :
                 /\ pauses[p].active /\ pauses[p].scope \in {"global", scope}
                 /\ requests[p].open /\ requests[p].approvals >= requests[p].threshold
                 /\ \A q \in DOMAIN pauses \ {p} : pauses'[q] = pauses[q]]_guardianVars
  BY FreedByRecovery
<1> QED
  BY <1>1, PausesInvHolds, PTL DEF GuardianSpec, GuardianAct, HeldWhilePaused

-----------------------------------------------------------------------------
(***************************************************************************)
(* The votes of the governance contract.                                   *)
(***************************************************************************)

GovAct == [GovNext \/ (Tick /\ UNCHANGED govVars)]_<<now, govVars>>

Ballot == {NoBallot} \cup [choice : VoteChoice, votes : Nat]
Ids == 1..MaxGovProposals
NoBallots == [v \in Voter |-> NoBallot]

\* The votes among the ballots b for a choice.
Tally(b, choice) ==
    SumFunctionOnSet([v \in Voter |-> b[v].votes], {v \in Voter : b[v].choice = choice})

TalliedAs(q, b) ==
    /\ q.for = Tally(b, "For")
    /\ q.against = Tally(b, "Against")
    /\ q.abstain = Tally(b, "Abstain")

\* What has been decided of a proposal q at the time t, given the guardians g
\* that approved it.  That a proposal has passed is what it is queued on.
DecidedByVote(q, t) ==
    /\ q.status \in {"Passed", "Queued", "Executed"} =>
          /\ q.for * 10000 >= q.bar * (q.for + q.against)
          /\ q.for + q.against > 0 /\ t > q.end
    /\ q.status \in {"Queued", "Executed"} => q.due > q.end
    /\ q.status = "Executed" => t >= q.due

DecidedByGuard(q, g) ==
    q.status = "GuardianExecuted" => q.emergency /\ Cardinality(g) >= q.asked

DecidedBy(q, g, t) == DecidedByVote(q, t) /\ DecidedByGuard(q, g)

\* The types, the supply and, for each proposal that exists, its tally and how
\* it was decided; nobody has voted on one that does not exist.
GovInv ==
    /\ now \in Nat /\ Len(proposals) <= MaxGovProposals
    /\ GovTypeOK /\ SupplyIsPower
    /\ \A p \in DOMAIN proposals :
          /\ TalliedAs(proposals[p], ballots[p])
          /\ DecidedBy(proposals[p], gapprovals[p], now)
    /\ \A p \in Ids \ DOMAIN proposals : ballots[p] = NoBallots

LEMMA GovFacts ==
    ASSUME GovInv
    PROVE  /\ proposals \in Seq(Proposal) /\ DOMAIN proposals \subseteq Ids
           /\ \A p \in DOMAIN proposals : proposals[p] \in Proposal /\ p \in Ids
           /\ ballots \in [Ids -> [Voter -> Ballot]]
           /\ gapprovals \in [Ids -> SUBSET Guard]
           /\ power \in [Voter -> Nat] /\ received \in [Voter -> Nat]
           /\ delegate \in [Voter -> Voter] /\ supply \in Nat /\ config \in Configs
<1>1. proposals \in Seq(Proposal) /\ Len(proposals) <= MaxGovProposals
    BY DEF GovInv, GovTypeOK
<1>2. MaxGovProposals \in Nat
    BY GovernanceAssumption
<1>3. DOMAIN proposals \subseteq Ids /\ \A p \in DOMAIN proposals : proposals[p] \in Proposal
    BY <1>1, <1>2 DEF Ids
<1> QED
    BY <1>1, <1>3 DEF GovInv, GovTypeOK, Ids, Ballot

LEMMA GovInvSound == GovInv => GovSound
<1> SUFFICES ASSUME GovInv PROVE GovSound
    OBVIOUS
<1>1. TallyIsBallots
    <2> SUFFICES ASSUME NEW p \in DOMAIN proposals
                 PROVE  /\ proposals[p].for = VotesFor(p, "For")
                        /\ proposals[p].against = VotesFor(p, "Against")
                        /\ proposals[p].abstain = VotesFor(p, "Abstain")
        BY DEF TallyIsBallots
    <2>1. TalliedAs(proposals[p], ballots[p])
        BY DEF GovInv
    <2>2. \A choice : VotesFor(p, choice) = Tally(ballots[p], choice)
        BY DEF VotesFor, Tally
    <2> QED
        BY <2>1, <2>2 DEF TalliedAs
<1>2. ExecutedWasDecided
    <2> SUFFICES ASSUME NEW p \in DOMAIN proposals
                 PROVE  LET q == proposals[p] IN
                        /\ q.status \in {"Queued", "Executed"} =>
                              /\ q.for * 10000 >= q.bar * (q.for + q.against)
                              /\ q.for + q.against > 0 /\ now > q.end /\ q.due > q.end
                              /\ q.status = "Executed" => now >= q.due
                        /\ q.status = "GuardianExecuted" =>
                              q.emergency /\ Cardinality(gapprovals[p]) >= q.asked
        BY DEF ExecutedWasDecided
    <2> DEFINE q == proposals[p]
    <2>1. DecidedByVote(q, now) /\ DecidedByGuard(q, gapprovals[p])
        BY DEF GovInv, DecidedBy
    <2> HIDE DEF q
    <2>2. q.status \in {"Queued", "Executed"} =>
              /\ q.for * 10000 >= q.bar * (q.for + q.against)
              /\ q.for + q.against > 0 /\ now > q.end /\ q.due > q.end
              /\ q.status = "Executed" => now >= q.due
        BY <2>1 DEF DecidedByVote
    <2>3. q.status = "GuardianExecuted" =>
              q.emergency /\ Cardinality(gapprovals[p]) >= q.asked
        BY <2>1 DEF DecidedByGuard
    <2> QED
        BY <2>2, <2>3 DEF q
<1> QED
    BY <1>1, <1>2 DEF GovSound, GovInv

-----------------------------------------------------------------------------
(* The powers.                                                              *)

LEMMA SupplyMoves ==
    ASSUME GovInv, NEW v \in Voter, NEW n \in Powers, set_voting_power(v, n)
    PROVE  supply' \in Nat /\ SupplyIsPower' /\ power' \in [Voter -> Nat]
<1>1. power \in [Voter -> Nat] /\ supply = SumFunctionOnSet(power, Voter)
    BY GovFacts DEF GovInv, SupplyIsPower, SumFunction
<1>2. n \in Nat /\ IsFiniteSet(Voter)
    BY GovernanceAssumption
<1>3. power' = [power EXCEPT ![v] = n] /\ supply' = supply - power[v] + n
    BY DEF set_voting_power
<1>4. power' \in [Voter -> Nat] /\ power'[v] = n
      /\ \A u \in Voter \ {v} : power'[u] = power[u]
    BY <1>1, <1>2, <1>3
<1>5. power[v] <= supply /\ supply \in Nat /\ power[v] \in Nat
    BY <1>1, <1>2, SumNat
<1> DEFINE old == power
           new == power'
<1>6. /\ \A u \in Voter : old[u] \in Int /\ new[v] \in Int
      /\ \A u \in Voter \ {v} : new[u] = old[u]
    BY <1>1, <1>2, <1>4
<1> HIDE DEF old, new
<1>7. SumFunctionOnSet(new, Voter) = SumFunctionOnSet(old, Voter) - old[v] + new[v]
    BY <1>2, <1>6, SumChange
<1>8. supply' = SumFunctionOnSet(power', Voter)
    BY <1>1, <1>3, <1>4, <1>7 DEF old, new
<1>9. SupplyIsPower'
    BY <1>4, <1>8 DEF SupplyIsPower, SumFunction
<1>10. supply' \in Nat
    BY <1>2, <1>3, <1>5
<1> QED
    BY <1>4, <1>9, <1>10

\* What a voter has received stays a natural number.
LEMMA ReclaimedNat ==
    ASSUME GovInv, NEW v \in Voter
    PROVE  Reclaimed(v) \in [Voter -> Nat]
<1> DEFINE w == delegate[v]
           less == IF received[w] > power[v] THEN received[w] - power[v] ELSE 0
<1>1. w \in Voter /\ received \in [Voter -> Nat] /\ power[v] \in Nat /\ received[w] \in Nat
    BY GovFacts
<1>2. less \in Nat
    <2> HIDE DEF w
    <2> QED
        BY <1>1
<1>3. Reclaimed(v) = IF w = v THEN received ELSE [received EXCEPT ![w] = less]
    BY DEF Reclaimed
<1> HIDE DEF w, less
<1> QED
    BY <1>1, <1>2, <1>3

LEMMA PowersKeep ==
    ASSUME GovInv, now' = now, NEW v \in Voter,
           \/ \E n \in Powers : set_voting_power(v, n)
           \/ \E w \in Voter : delegate_votes(v, w)
           \/ undelegate_votes(v)
    PROVE  GovInv'
<1>1. UNCHANGED <<guardians, gapprovals, config, proposals, ballots>>
    <2>1. ASSUME NEW n \in Powers, set_voting_power(v, n)
          PROVE  UNCHANGED <<guardians, gapprovals, config, proposals, ballots>>
        BY <2>1 DEF set_voting_power
    <2>2. ASSUME NEW w \in Voter, delegate_votes(v, w)
          PROVE  UNCHANGED <<guardians, gapprovals, config, proposals, ballots>>
        BY <2>2 DEF delegate_votes
    <2>3. ASSUME undelegate_votes(v)
          PROVE  UNCHANGED <<guardians, gapprovals, config, proposals, ballots>>
        BY <2>3 DEF undelegate_votes
    <2> QED
        BY <2>1, <2>2, <2>3
<1>2. /\ power' \in [Voter -> Nat] /\ delegate' \in [Voter -> Voter]
      /\ received' \in [Voter -> Nat] /\ supply' \in Nat /\ SupplyIsPower'
    <2>1. ASSUME NEW n \in Powers, set_voting_power(v, n)
          PROVE  /\ power' \in [Voter -> Nat] /\ delegate' \in [Voter -> Voter]
                 /\ received' \in [Voter -> Nat] /\ supply' \in Nat /\ SupplyIsPower'
        BY <2>1, SupplyMoves, GovFacts DEF set_voting_power
    <2>2. ASSUME power' = power, supply' = supply
          PROVE  power' \in [Voter -> Nat] /\ supply' \in Nat /\ SupplyIsPower'
        BY <2>2, GovFacts DEF GovInv, SupplyIsPower
    <2>3. ASSUME NEW w \in Voter, delegate_votes(v, w)
          PROVE  delegate' \in [Voter -> Voter] /\ received' \in [Voter -> Nat]
        <3> DEFINE r == Reclaimed(v)
                   n == r[w] + power[v]
        <3>1. r \in [Voter -> Nat] /\ power[v] \in Nat /\ delegate \in [Voter -> Voter]
            BY ReclaimedNat, GovFacts
        <3>2. received' = [r EXCEPT ![w] = n] /\ delegate' = [delegate EXCEPT ![v] = w]
            BY <2>3 DEF delegate_votes
        <3> HIDE DEF r
        <3>3. n \in Nat
            BY <3>1
        <3> HIDE DEF n
        <3> QED
            BY <3>1, <3>2, <3>3
    <2>4. ASSUME undelegate_votes(v)
          PROVE  delegate' \in [Voter -> Voter] /\ received' \in [Voter -> Nat]
        BY <2>4, ReclaimedNat, GovFacts DEF undelegate_votes
    <2>5. /\ \A w \in Voter : delegate_votes(v, w) => power' = power /\ supply' = supply
          /\ undelegate_votes(v) => power' = power /\ supply' = supply
        BY DEF delegate_votes, undelegate_votes
    <2> QED
        BY <2>1, <2>2, <2>3, <2>4, <2>5
<1> QED
    BY <1>1, <1>2 DEF GovInv, GovTypeOK

-----------------------------------------------------------------------------
(* The guardians, the settings and the clock.                               *)

LEMMA ApprovedMore ==
    ASSUME NEW g \in SUBSET Guard, NEW h \in SUBSET Guard, g \subseteq h
    PROVE  /\ Cardinality(g) \in Nat /\ Cardinality(h) \in Nat
           /\ Cardinality(g) <= Cardinality(h)
<1>1. IsFiniteSet(h) /\ IsFiniteSet(g)
    BY GovernanceAssumption, FS_Subset
<1> QED
    BY <1>1, FS_Subset, FS_CardinalityType

\* Guardians and time undo no decision.
LEMMA StaysDecided ==
    ASSUME NEW q \in Proposal, NEW g \in SUBSET Guard, NEW h \in SUBSET Guard, g \subseteq h,
           NEW s \in Nat, NEW t \in Nat, s <= t, DecidedBy(q, g, s)
    PROVE  DecidedBy(q, h, t)
<1>1. q.end \in Nat /\ q.due \in Nat
    BY DEF Proposal
<1>2. q.asked \in Nat
    BY DEF Proposal
<1>3. s > q.end => t > q.end
    BY <1>1
<1>4. s >= q.due => t >= q.due
    BY <1>1
<1>5. Cardinality(g) >= q.asked => Cardinality(h) >= q.asked
    BY <1>2, ApprovedMore
<1>6. DecidedByVote(q, t)
    BY <1>3, <1>4 DEF DecidedBy, DecidedByVote
<1>7. DecidedByGuard(q, h)
    BY <1>5, Zenon DEF DecidedBy, DecidedByGuard
<1> QED
    BY <1>6, <1>7 DEF DecidedBy

LEMMA GuardiansKeep ==
    ASSUME GovInv, now' \in Nat, now <= now',
           UNCHANGED <<power, delegate, received, supply, proposals, ballots>>,
           guardians' \subseteq Guard, config' \in Configs,
           gapprovals' \in [Ids -> SUBSET Guard],
           \A p \in Ids : gapprovals[p] \subseteq gapprovals'[p]
    PROVE  GovInv'
<1>1. ASSUME NEW p \in DOMAIN proposals
      PROVE  DecidedBy(proposals[p], gapprovals'[p], now')
    <2>1. DecidedBy(proposals[p], gapprovals[p], now) /\ now \in Nat
        BY DEF GovInv
    <2>2. /\ proposals[p] \in Proposal /\ p \in Ids
          /\ gapprovals[p] \in SUBSET Guard /\ gapprovals'[p] \in SUBSET Guard
        BY GovFacts
    <2> QED
        BY <2>1, <2>2, StaysDecided
<1> QED
    BY <1>1 DEF GovInv, GovTypeOK, SupplyIsPower, Ids

-----------------------------------------------------------------------------
(* The life of a proposal.                                                  *)

\* One proposal becomes q, and nothing else changes.
LEMMA ProposalKeeps ==
    ASSUME GovInv, now' = now, NEW p \in DOMAIN proposals, NEW q \in Proposal,
           proposals' = [proposals EXCEPT ![p] = q],
           UNCHANGED <<power, delegate, received, supply, guardians, gapprovals, config,
                       ballots>>,
           q.for = proposals[p].for, q.against = proposals[p].against,
           q.abstain = proposals[p].abstain,
           DecidedBy(q, gapprovals[p], now)
    PROVE  GovInv'
<1>1. proposals \in Seq(Proposal)
    BY GovFacts
<1>2. /\ proposals' \in Seq(Proposal) /\ Len(proposals') = Len(proposals)
      /\ DOMAIN proposals' = DOMAIN proposals /\ proposals'[p] = q
      /\ \A i \in DOMAIN proposals : i # p => proposals'[i] = proposals[i]
    BY <1>1
<1>3. ASSUME NEW i \in DOMAIN proposals
      PROVE  /\ TalliedAs(proposals'[i], ballots[i])
             /\ DecidedBy(proposals'[i], gapprovals[i], now)
    <2>1. CASE i = p
        BY <1>2, <2>1 DEF GovInv, TalliedAs
    <2>2. CASE i # p
        BY <1>2, <2>2 DEF GovInv
    <2> QED
        BY <2>1, <2>2
<1> QED
    BY <1>2, <1>3 DEF GovInv, GovTypeOK, SupplyIsPower

\* The status of a proposal.
LEMMA StatusKeeps ==
    ASSUME GovInv, now' = now, NEW p \in DOMAIN proposals,
           NEW s \in {"Active", "Executed", "Cancelled"},
           SetStatus(p, s),
           UNCHANGED <<power, delegate, received, supply, guardians, gapprovals, config,
                       ballots>>,
           s = "Executed" => proposals[p].status = "Queued" /\ now >= proposals[p].due
    PROVE  GovInv'
<1> DEFINE q == [proposals[p] EXCEPT !.status = s]
<1>1. proposals[p] \in Proposal /\ DecidedBy(proposals[p], gapprovals[p], now)
    BY GovFacts DEF GovInv
<1>2. proposals' = [proposals EXCEPT ![p] = q]
    BY DEF SetStatus
<1>3. /\ q \in Proposal /\ q.status = s
      /\ q.emergency = proposals[p].emergency /\ q.start = proposals[p].start
      /\ q.end = proposals[p].end /\ q.due = proposals[p].due
      /\ q.for = proposals[p].for /\ q.against = proposals[p].against
      /\ q.abstain = proposals[p].abstain /\ q.bar = proposals[p].bar
    BY <1>1 DEF Proposal
<1> HIDE DEF q
<1>4. DecidedByVote(q, now)
    BY <1>1, <1>3 DEF DecidedBy, DecidedByVote
<1>5. DecidedByGuard(q, gapprovals[p])
    BY <1>3, Zenon DEF DecidedByGuard
<1> QED
    BY <1>2, <1>3, <1>4, <1>5, ProposalKeeps DEF DecidedBy

\* A proposal with two of its fields set, whatever the fields may hold.
LEMMA WithTwo ==
    ASSUME NEW Bar, NEW Status, NEW r, NEW n \in Nat, NEW m \in Bar, NEW s \in Status,
           r \in [emergency : BOOLEAN, start : Nat, end : Nat, due : Nat, for : Nat,
                  against : Nat, abstain : Nat, bar : Bar, asked : Nat,
                        status : Status]
    PROVE  /\ LET q == [r EXCEPT !.due = n, !.status = s] IN
              /\ q \in [emergency : BOOLEAN, start : Nat, end : Nat, due : Nat, for : Nat,
                        against : Nat, abstain : Nat, bar : Bar, asked : Nat,
                        status : Status]
              /\ q.status = s /\ q.due = n
              /\ q.end = r.end /\ q.for = r.for /\ q.against = r.against
              /\ q.abstain = r.abstain /\ q.bar = r.bar
           /\ LET q == [r EXCEPT !.bar = m, !.status = s] IN
              /\ q \in [emergency : BOOLEAN, start : Nat, end : Nat, due : Nat, for : Nat,
                        against : Nat, abstain : Nat, bar : Bar, asked : Nat,
                        status : Status]
              /\ q.status = s /\ q.bar = m
              /\ q.end = r.end /\ q.for = r.for /\ q.against = r.against
              /\ q.abstain = r.abstain /\ q.due = r.due
           /\ LET q == [r EXCEPT !.asked = n, !.status = s] IN
              /\ q \in [emergency : BOOLEAN, start : Nat, end : Nat, due : Nat, for : Nat,
                        against : Nat, abstain : Nat, bar : Bar, asked : Nat,
                        status : Status]
              /\ q.status = s /\ q.asked = n /\ q.emergency = r.emergency
              /\ q.for = r.for /\ q.against = r.against /\ q.abstain = r.abstain
OBVIOUS

Statuses == {"Pending", "Active", "Passed", "Failed", "Queued", "Executed",
             "GuardianExecuted", "Cancelled"}

LEMMA ProposalIs ==
    Proposal = [emergency : BOOLEAN, start : Nat, end : Nat, due : Nat, for : Nat,
                against : Nat, abstain : Nat, bar : BasisPoints, asked : Nat,
                status : Statuses]
BY DEF Proposal, Statuses

LEMMA ConfigFields ==
    ASSUME GovInv
    PROVE  /\ config.timelock \in Nat /\ config.pass \in Nat /\ config.pass \in BasisPoints
           /\ config.delay \in Nat /\ config.period \in Nat /\ config.threshold \in Nat
<1>1. config \in Config
    BY GovernanceAssumption DEF GovInv, GovTypeOK
<1>2. /\ config.timelock \in Nat /\ config.pass \in BasisPoints
      /\ config.delay \in Nat /\ config.period \in Nat /\ config.threshold \in Nat
    BY <1>1 DEF Config
<1>3. \A n \in BasisPoints : n \in Nat
    BY DEF BasisPoints
<1> QED
    BY <1>2, <1>3

LEMMA QueueKeeps ==
    ASSUME GovInv, now' = now, NEW p \in DOMAIN proposals, queue_proposal(p)
    PROVE  GovInv'
<1> DEFINE due == now + config.timelock
           q == [proposals[p] EXCEPT !.due = due, !.status = "Queued"]
<1>1. proposals[p] \in Proposal /\ DecidedBy(proposals[p], gapprovals[p], now)
      /\ proposals[p].status = "Passed"
    BY GovFacts DEF GovInv, queue_proposal
<1>2. config.timelock \in Nat
    BY ConfigFields
<1>3. due \in Nat /\ due >= now /\ now \in Nat
    BY <1>2 DEF GovInv
<1>4. proposals' = [proposals EXCEPT ![p] = q]
      /\ UNCHANGED <<power, delegate, received, supply, guardians, gapprovals, config, ballots>>
    BY GovFacts DEF queue_proposal
<1> HIDE DEF due
<1>5. /\ q \in Proposal /\ q.status = "Queued" /\ q.due = due
      /\ q.end = proposals[p].end
      /\ q.for = proposals[p].for /\ q.against = proposals[p].against
      /\ q.abstain = proposals[p].abstain /\ q.bar = proposals[p].bar
    BY <1>1, <1>3, ProposalIs, WithTwo DEF Statuses
<1> HIDE DEF q
<1>6. DecidedBy(q, gapprovals[p], now)
    <2>1. now > proposals[p].end /\ proposals[p].end \in Nat
        BY <1>1 DEF DecidedBy, DecidedByVote, Proposal
    <2>2. due > proposals[p].end
        BY <1>3, <2>1
    <2> QED
        BY <1>1, <1>5, <2>2 DEF DecidedBy, DecidedByVote, DecidedByGuard
<1> QED
    BY <1>4, <1>5, <1>6, ProposalKeeps

\* What the guardians execute.
LEMMA GuardianKeeps ==
    ASSUME GovInv, now' = now, NEW p \in DOMAIN proposals, guardian_execute(p)
    PROVE  GovInv'
<1> DEFINE q == [proposals[p] EXCEPT !.asked = config.threshold, !.status = "GuardianExecuted"]
<1>1. /\ proposals[p] \in Proposal /\ proposals[p].emergency
      /\ Cardinality(gapprovals[p]) >= config.threshold
    BY GovFacts DEF guardian_execute
<1>2. config.threshold \in Nat
    BY ConfigFields
<1>3. proposals' = [proposals EXCEPT ![p] = q]
      /\ UNCHANGED <<power, delegate, received, supply, guardians, gapprovals, config, ballots>>
    BY GovFacts DEF guardian_execute
<1>4. /\ q \in Proposal /\ q.status = "GuardianExecuted" /\ q.asked = config.threshold
      /\ q.emergency = proposals[p].emergency
      /\ q.for = proposals[p].for /\ q.against = proposals[p].against
      /\ q.abstain = proposals[p].abstain
    BY <1>1, <1>2, ProposalIs, WithTwo DEF Statuses
<1> HIDE DEF q
<1>5. DecidedBy(q, gapprovals[p], now)
    BY <1>1, <1>4 DEF DecidedBy, DecidedByVote, DecidedByGuard
<1> QED
    BY <1>3, <1>4, <1>5, ProposalKeeps

\* A quotient that reaches a bound.
LEMMA Reaches ==
    ASSUME NEW a \in Nat, NEW b \in Nat \ {0}, NEW c \in Nat, a \div b >= c
    PROVE  a >= c * b
<1> DEFINE d == a \div b
<1>1. d \in Nat /\ b * d <= a
    OBVIOUS
<1>2. d >= c
    OBVIOUS
<1> HIDE DEF d
<1>3. PICK e \in Nat : d = c + e
    <2>1. d - c \in Nat /\ d = c + (d - c)
        BY <1>1, <1>2
    <2> QED
        BY <2>1
<1>4. b * d = b * c + b * e
    BY <1>3
<1>5. b * e \in Nat /\ b * c \in Nat /\ b * c = c * b
    OBVIOUS
<1> QED
    BY <1>1, <1>4, <1>5

LEMMA FinalizeKeeps ==
    ASSUME GovInv, now' = now, NEW p \in DOMAIN proposals, finalize_proposal(p)
    PROVE  GovInv'
<1> DEFINE status == IF Passes(p) THEN "Passed" ELSE "Failed"
           q == [proposals[p] EXCEPT !.bar = config.pass, !.status = status]
<1>1. proposals[p] \in Proposal /\ now > proposals[p].end
    BY GovFacts DEF finalize_proposal
<1>2. config.pass \in BasisPoints /\ config.pass \in Nat
    BY ConfigFields
<1>3. proposals' = [proposals EXCEPT ![p] = q]
      /\ UNCHANGED <<power, delegate, received, supply, guardians, gapprovals, config, ballots>>
    BY GovFacts DEF finalize_proposal
<1>4. status \in {"Passed", "Failed"} /\ (status = "Passed" => Passes(p))
    OBVIOUS
<1> HIDE DEF status
<1>5. /\ q \in Proposal /\ q.status = status /\ q.bar = config.pass
      /\ q.end = proposals[p].end
      /\ q.for = proposals[p].for /\ q.against = proposals[p].against
      /\ q.abstain = proposals[p].abstain
    BY <1>1, <1>2, <1>4, ProposalIs, WithTwo DEF Statuses
<1> HIDE DEF q
<1>6. ASSUME Passes(p)
      PROVE  /\ q.for * 10000 >= q.bar * (q.for + q.against)
             /\ q.for + q.against > 0
    <2> DEFINE for == proposals[p].for
               decided == proposals[p].for + proposals[p].against
               n == for * 10000
    <2>1. decided > 0 /\ n \div decided >= config.pass
        BY <1>6 DEF Passes
    <2>2. for \in Nat /\ decided \in Nat
        BY <1>1 DEF Proposal
    <2> HIDE DEF decided, for
    <2>3. n \in Nat /\ decided \in Nat \ {0}
        BY <2>1, <2>2
    <2> HIDE DEF n
    <2>4. n >= config.pass * decided
        BY <1>2, <2>1, <2>3, Reaches
    <2> QED
        BY <1>5, <2>1, <2>4 DEF for, decided, n
<1>7. DecidedBy(q, gapprovals[p], now)
    BY <1>1, <1>4, <1>5, <1>6 DEF DecidedBy, DecidedByVote, DecidedByGuard
<1> QED
    BY <1>3, <1>5, <1>7, ProposalKeeps

-----------------------------------------------------------------------------
(* Ballots.                                                                 *)

\* Nobody has voted.
LEMMA NoTally ==
    ASSUME NEW choice \in VoteChoice
    PROVE  Tally(NoBallots, choice) = 0
<1>1. {v \in Voter : NoBallots[v].choice = choice} = {}
    BY DEF NoBallots, NoBallot, VoteChoice
<1> QED
    BY <1>1, SumEmpty DEF Tally

\* The ballots b with one of v's.
WithBallot(b, v, choice, n) == [b EXCEPT ![v] = [choice |-> choice, votes |-> n]]

\* A first ballot counts for its choice and for no other.
LEMMA TallyMoves ==
    ASSUME NEW b \in [Voter -> Ballot], NEW v \in Voter, b[v] = NoBallot,
           NEW choice \in VoteChoice, NEW n \in Nat, NEW other \in VoteChoice
    PROVE  /\ WithBallot(b, v, choice, n) \in [Voter -> Ballot]
           /\ Tally(WithBallot(b, v, choice, n), other)
                = Tally(b, other) + (IF other = choice THEN n ELSE 0)
           /\ Tally(b, other) \in Nat
<1> DEFINE new == [choice |-> choice, votes |-> n]
           bb == WithBallot(b, v, choice, n)
           S == {u \in Voter : b[u].choice = other}
           SS == {u \in Voter : bb[u].choice = other}
           f == [u \in Voter |-> b[u].votes]
           h == [u \in Voter |-> bb[u].votes]
<1>0. bb = [b EXCEPT ![v] = new]
    BY DEF WithBallot
<1>1. new \in Ballot /\ new.choice = choice /\ new.votes = n
    BY DEF Ballot
<1>2. v \notin S /\ b[v].choice # other
    BY DEF NoBallot, VoteChoice
<1>3. \A u \in Voter : b[u].votes \in Nat
    <2> SUFFICES ASSUME NEW u \in Voter PROVE b[u].votes \in Nat
        OBVIOUS
    <2>1. b[u] = NoBallot \/ b[u] \in [choice : VoteChoice, votes : Nat]
        BY DEF Ballot
    <2>2. NoBallot.votes \in Nat
        BY DEF NoBallot
    <2> QED
        BY <2>1, <2>2
<1> HIDE DEF new
<1>4. bb \in [Voter -> Ballot] /\ bb[v] = new /\ \A u \in Voter \ {v} : bb[u] = b[u]
    BY <1>0, <1>1
<1> HIDE DEF bb
<1>5. IsFiniteSet(S) /\ S \subseteq Voter
    BY GovernanceAssumption, FS_Subset
<1>6. h[v] = n /\ \A u \in S : f[u] \in Nat /\ h[u] = f[u]
    BY <1>1, <1>2, <1>3, <1>4
<1>7. SS = IF other = choice THEN S \cup {v} ELSE S
    BY <1>1, <1>2, <1>4
<1>8. Tally(b, other) = SumFunctionOnSet(f, S) /\ Tally(bb, other) = SumFunctionOnSet(h, SS)
    BY DEF Tally
<1> HIDE DEF f, h, S, SS
<1>9. SumFunctionOnSet(f, S) \in Nat
    BY <1>5, <1>6, SumNat
<1>10. CASE other = choice
    <2>1. SumFunctionOnSet(h, S \cup {v}) = SumFunctionOnSet(f, S) + h[v]
        <3>1. h[v] \in Int /\ \A u \in S : f[u] \in Int /\ h[u] = f[u]
            BY <1>6
        <3> QED
            BY <1>2, <1>5, <3>1, SumExtend
    <2> QED
        BY <1>4, <1>6, <1>7, <1>8, <1>9, <1>10, <2>1 DEF bb
<1>11. CASE other # choice
    <2>1. SumFunctionOnSet(h, S) = SumFunctionOnSet(f, S)
        BY <1>5, <1>6, SumSame
    <2> QED
        BY <1>4, <1>7, <1>8, <1>9, <1>11, <2>1 DEF bb
<1> QED
    BY <1>10, <1>11

\* The square root is that of a natural number: the least r whose successor's
\* square exceeds n is one.
LEMMA SquareRoot == ASSUME NEW n \in Nat PROVE isqrt(n) \in Nat
<1> DEFINE T == {r \in Nat : r <= n /\ (r + 1) * (r + 1) > n}
<1>1. n \in T
    <2>1. (n + 1) * (n + 1) = n * n + n + n + 1 /\ n * n \in Nat
        OBVIOUS
    <2>2. (n + 1) * (n + 1) > n
        BY <2>1
    <2> QED
        BY <2>2
<1>2. T \subseteq Nat /\ T # {}
    BY <1>1
<1>3. PICK r \in T : \A s \in T : ~(<<s, r>> \in OpToRel(<, Nat))
    <2> HIDE DEF T
    <2> QED
        BY <1>2, WFMin, NatLessThanWellFounded
<1>4. r \in Nat /\ r <= n /\ (r + 1) * (r + 1) > n /\ \A s \in T : ~(s < r)
    BY <1>3 DEF OpToRel
<1>5. r * r <= n
    <2>1. CASE r = 0
        BY <2>1
    <2>2. CASE r # 0
        <3>1. r - 1 \in Nat /\ r - 1 < r /\ r - 1 <= n /\ (r - 1) + 1 = r
            BY <1>4, <2>2
        <3>2. r - 1 \notin T
            BY <1>4, <3>1
        <3>3. ~(r * r > n)
            BY <3>1, <3>2
        <3>4. r * r \in Nat
            BY <1>4
        <3> QED
            BY <3>3, <3>4
    <2> QED
        BY <2>1, <2>2
<1>6. \E s \in 0..n : s * s <= n /\ (s + 1) * (s + 1) > n
    BY <1>4, <1>5
<1>7. isqrt(n) \in 0..n
    BY <1>6 DEF isqrt
<1> QED
    BY <1>7

LEMMA EffectiveNat == ASSUME GovInv, NEW v \in Voter PROVE effective_power(v) \in Nat
<1>1. power[v] \in Nat /\ received[v] \in Nat
    BY GovFacts
<1> QED
    BY <1>1 DEF effective_power

\* A proposal with these votes.
WithVotes(r, x, y, z) == [r EXCEPT !.for = x, !.against = y, !.abstain = z]

LEMMA WithThree ==
    ASSUME NEW r \in Proposal, NEW x \in Nat, NEW y \in Nat, NEW z \in Nat
    PROVE  /\ WithVotes(r, x, y, z) \in Proposal
           /\ WithVotes(r, x, y, z).for = x
           /\ WithVotes(r, x, y, z).against = y
           /\ WithVotes(r, x, y, z).abstain = z
           /\ WithVotes(r, x, y, z).status = r.status
BY ProposalIs DEF WithVotes

LEMMA CountedIs ==
    ASSUME NEW p \in DOMAIN proposals, proposals \in Seq(Proposal),
           NEW choice \in VoteChoice, NEW n \in Nat, Counted(p, choice, n)
    PROVE  LET r == proposals[p]
               x == r.for + (IF "For" = choice THEN n ELSE 0)
               y == r.against + (IF "Against" = choice THEN n ELSE 0)
               z == r.abstain + (IF "Abstain" = choice THEN n ELSE 0)
           IN  /\ x \in Nat /\ y \in Nat /\ z \in Nat
               /\ proposals' = [proposals EXCEPT ![p] = WithVotes(r, x, y, z)]
<1> DEFINE r == proposals[p]
           x == r.for + (IF "For" = choice THEN n ELSE 0)
           y == r.against + (IF "Against" = choice THEN n ELSE 0)
           z == r.abstain + (IF "Abstain" = choice THEN n ELSE 0)
<1>1. r \in Proposal
    OBVIOUS
<1>2. r.for \in Nat /\ r.against \in Nat /\ r.abstain \in Nat
    BY <1>1 DEF Proposal
<1>3. /\ x \in Nat /\ x = IF choice = "For" THEN r.for + n ELSE r.for
      /\ y \in Nat /\ y = IF choice = "Against" THEN r.against + n ELSE r.against
      /\ z \in Nat /\ z = IF choice = "Abstain" THEN r.abstain + n ELSE r.abstain
    <2> DEFINE a == r.for
               b == r.against
               c == r.abstain
    <2>1. a \in Nat /\ b \in Nat /\ c \in Nat
        BY <1>2
    <2> HIDE DEF a, b, c, r
    <2>2. /\ a + (IF "For" = choice THEN n ELSE 0) \in Nat
          /\ a + (IF "For" = choice THEN n ELSE 0) = IF choice = "For" THEN a + n ELSE a
        BY <2>1
    <2>3. /\ b + (IF "Against" = choice THEN n ELSE 0) \in Nat
          /\ b + (IF "Against" = choice THEN n ELSE 0) = IF choice = "Against" THEN b + n ELSE b
        BY <2>1
    <2>4. /\ c + (IF "Abstain" = choice THEN n ELSE 0) \in Nat
          /\ c + (IF "Abstain" = choice THEN n ELSE 0) = IF choice = "Abstain" THEN c + n ELSE c
        BY <2>1
    <2> QED
        BY <2>2, <2>3, <2>4 DEF a, b, c
<1>4. proposals' = [proposals EXCEPT ![p] = WithVotes(r, x, y, z)]
    BY <1>1, <1>3 DEF Counted, WithVotes
<1> QED
    BY <1>3, <1>4

LEMMA VoteKeeps ==
    ASSUME GovInv, now' = now, NEW v \in Voter, NEW p \in DOMAIN proposals,
           NEW choice \in VoteChoice, cast_vote(v, p, choice)
    PROVE  GovInv'
<1> DEFINE n == IF config.quadratic THEN isqrt(effective_power(v)) ELSE effective_power(v)
           r == proposals[p]
           x == r.for + (IF "For" = choice THEN n ELSE 0)
           y == r.against + (IF "Against" = choice THEN n ELSE 0)
           z == r.abstain + (IF "Abstain" = choice THEN n ELSE 0)
           q == WithVotes(r, x, y, z)
           b == ballots[p]
           bb == WithBallot(b, v, choice, n)
<1>1. n \in Nat
    BY EffectiveNat, SquareRoot
<1>2. /\ proposals[p].status = "Active" /\ ballots[p][v] = NoBallot
      /\ ballots' = [ballots EXCEPT ![p][v] = [choice |-> choice, votes |-> n]]
      /\ Counted(p, choice, n)
      /\ UNCHANGED <<power, delegate, received, supply, guardians, gapprovals, config>>
    BY DEF cast_vote
<1> HIDE DEF n
<1>3. /\ proposals \in Seq(Proposal) /\ r \in Proposal /\ p \in Ids
      /\ ballots \in [Ids -> [Voter -> Ballot]] /\ b \in [Voter -> Ballot]
    BY GovFacts
<1>4. /\ x \in Nat /\ y \in Nat /\ z \in Nat
      /\ proposals' = [proposals EXCEPT ![p] = q]
    BY <1>1, <1>2, <1>3, CountedIs
<1>5. /\ bb \in [Voter -> Ballot]
      /\ \A other \in VoteChoice :
            Tally(bb, other) = Tally(b, other) + (IF other = choice THEN n ELSE 0)
    <2>1. b \in [Voter -> Ballot] /\ b[v] = NoBallot
        BY <1>2, <1>3
    <2> HIDE DEF b
    <2> QED
        BY <1>1, <2>1, TallyMoves
<1>6. TalliedAs(r, b)
    BY DEF GovInv
<1>7. /\ x = Tally(bb, "For") /\ y = Tally(bb, "Against") /\ z = Tally(bb, "Abstain")
    <2>1. "For" \in VoteChoice /\ "Against" \in VoteChoice /\ "Abstain" \in VoteChoice
        BY DEF VoteChoice
    <2> HIDE DEF bb, b, r
    <2> QED
        BY <1>5, <1>6, <2>1 DEF TalliedAs
<1>8. ballots' = [ballots EXCEPT ![p] = bb]
    BY <1>2, <1>3 DEF WithBallot
<1>17. r.status = "Active"
    BY <1>2
<1> HIDE DEF x, y, z, bb, b, r
<1>9. q \in Proposal /\ q.for = x /\ q.against = y /\ q.abstain = z /\ q.status = "Active"
    <2>1. r \in Proposal /\ x \in Nat /\ y \in Nat /\ z \in Nat
        BY <1>3, <1>4
    <2>2. /\ q \in Proposal /\ q.for = x /\ q.against = y /\ q.abstain = z
          /\ q.status = r.status
        BY <2>1, WithThree
    <2> QED
        BY <1>17, <2>2
<1> HIDE DEF q
<1>10. TalliedAs(q, bb) /\ DecidedBy(q, gapprovals[p], now)
    <2>1. TalliedAs(q, bb)
        BY <1>7, <1>9 DEF TalliedAs
    <2>2. DecidedByVote(q, now) /\ DecidedByGuard(q, gapprovals[p])
        BY <1>9 DEF DecidedByVote, DecidedByGuard
    <2> QED
        BY <2>1, <2>2 DEF DecidedBy
<1>11. /\ proposals' \in Seq(Proposal) /\ Len(proposals') = Len(proposals)
       /\ DOMAIN proposals' = DOMAIN proposals /\ proposals'[p] = q
       /\ \A i \in DOMAIN proposals : i # p => proposals'[i] = proposals[i]
    BY <1>3, <1>4, <1>9
<1>12. /\ ballots' \in [Ids -> [Voter -> Ballot]] /\ ballots'[p] = bb
       /\ \A i \in Ids : i # p => ballots'[i] = ballots[i]
    BY <1>3, <1>5, <1>8
<1>13. ASSUME NEW i \in DOMAIN proposals'
       PROVE  /\ TalliedAs(proposals'[i], ballots'[i])
              /\ DecidedBy(proposals'[i], gapprovals'[i], now')
    <2>1. CASE i = p
        BY <1>2, <1>10, <1>11, <1>12, <2>1
    <2>2. CASE i # p
        <3>1. proposals'[i] = proposals[i] /\ ballots'[i] = ballots[i] /\ i \in DOMAIN proposals
            BY <1>11, <1>12, <2>2, GovFacts
        <3> QED
            BY <1>2, <3>1 DEF GovInv
    <2> QED
        BY <2>1, <2>2
<1>14. ASSUME NEW i \in Ids \ DOMAIN proposals'
       PROVE  ballots'[i] = NoBallots
    BY <1>11, <1>12, <1>14 DEF GovInv
<1>15. GovTypeOK'
    BY <1>2, <1>11, <1>12 DEF GovInv, GovTypeOK, Ids, Ballot
<1>16. now' \in Nat /\ Len(proposals') <= MaxGovProposals /\ SupplyIsPower'
    BY <1>2, <1>11 DEF GovInv, SupplyIsPower
<1> QED
    BY <1>13, <1>14, <1>15, <1>16 DEF GovInv

LEMMA CreateKeeps ==
    ASSUME GovInv, now' = now, NEW v \in Voter, NEW emergency \in BOOLEAN,
           create_proposal(v, emergency)
    PROVE  GovInv'
<1> DEFINE start == now + config.delay
           end == now + config.delay + config.period
           q == [emergency |-> emergency, start |-> start, end |-> end, due |-> 0,
                 for |-> 0, against |-> 0, abstain |-> 0, bar |-> 0, asked |-> 0,
                 status |-> "Pending"]
           last == Len(proposals) + 1
<1>1. start \in Nat /\ end \in Nat
    BY ConfigFields DEF GovInv
<1>2. /\ Len(proposals) < MaxGovProposals /\ proposals' = Append(proposals, q)
      /\ UNCHANGED <<power, delegate, received, supply, guardians, gapprovals, config, ballots>>
    BY DEF create_proposal
<1> HIDE DEF start, end
<1>3. /\ q \in Proposal /\ q.status = "Pending" /\ q.for = 0 /\ q.against = 0 /\ q.abstain = 0
    <2>1. 0 \in BasisPoints /\ "Pending" \in Statuses
        BY DEF BasisPoints, Statuses
    <2> QED
        BY <1>1, <2>1, ProposalIs
<1> HIDE DEF q
<1>4. proposals \in Seq(Proposal) /\ MaxGovProposals \in Nat
    BY GovFacts, GovernanceAssumption
<1>5. /\ proposals' \in Seq(Proposal) /\ Len(proposals') = last
      /\ last \in Ids /\ last \notin DOMAIN proposals /\ proposals'[last] = q
      /\ \A i \in DOMAIN proposals' : i \in DOMAIN proposals \/ i = last
      /\ \A i \in DOMAIN proposals : i \in DOMAIN proposals' /\ proposals'[i] = proposals[i]
    BY <1>2, <1>3, <1>4 DEF Ids
<1> HIDE DEF last
<1>6. ballots[last] = NoBallots
    BY <1>5 DEF GovInv
<1>7. TalliedAs(q, NoBallots) /\ DecidedBy(q, gapprovals[last], now)
    <2>1. "For" \in VoteChoice /\ "Against" \in VoteChoice /\ "Abstain" \in VoteChoice
        BY DEF VoteChoice
    <2>2. TalliedAs(q, NoBallots)
        BY <1>3, <2>1, NoTally DEF TalliedAs
    <2>3. DecidedByVote(q, now) /\ DecidedByGuard(q, gapprovals[last])
        BY <1>3 DEF DecidedByVote, DecidedByGuard
    <2> QED
        BY <2>2, <2>3 DEF DecidedBy
<1>8. ASSUME NEW i \in DOMAIN proposals'
      PROVE  /\ TalliedAs(proposals'[i], ballots'[i])
             /\ DecidedBy(proposals'[i], gapprovals'[i], now')
    <2>1. CASE i = last
        BY <1>2, <1>5, <1>6, <1>7, <2>1
    <2>2. CASE i \in DOMAIN proposals
        BY <1>2, <1>5, <2>2 DEF GovInv
    <2> QED
        BY <1>5, <2>1, <2>2
<1>9. \A i \in Ids \ DOMAIN proposals' : ballots'[i] = NoBallots
    BY <1>2, <1>5 DEF GovInv
<1>10. now' \in Nat /\ Len(proposals') <= MaxGovProposals /\ SupplyIsPower' /\ GovTypeOK'
    <2>1. Len(proposals') <= MaxGovProposals
        BY <1>4, <1>5 DEF Ids
    <2> QED
        BY <1>2, <1>5, <2>1 DEF GovInv, GovTypeOK, SupplyIsPower
<1> QED
    BY <1>8, <1>9, <1>10 DEF GovInv

-----------------------------------------------------------------------------
(* All calls.                                                               *)

LEMMA LifeKeeps ==
    ASSUME GovInv, now' = now, NEW p \in DOMAIN proposals,
           \/ activate_proposal(p) \/ finalize_proposal(p) \/ queue_proposal(p)
           \/ execute_proposal(p) \/ guardian_execute(p) \/ cancel_proposal(p)
    PROVE  GovInv'
<1>1. ASSUME activate_proposal(p) PROVE GovInv'
    <2>1. /\ SetStatus(p, "Active")
          /\ UNCHANGED <<power, delegate, received, supply, guardians, gapprovals, config,
                         ballots>>
        BY <1>1 DEF activate_proposal
    <2> QED
        BY <2>1, StatusKeeps
<1>2. ASSUME execute_proposal(p) PROVE GovInv'
    <2>1. /\ SetStatus(p, "Executed")
          /\ proposals[p].status = "Queued" /\ now >= proposals[p].due
          /\ UNCHANGED <<power, delegate, received, supply, guardians, gapprovals, config,
                         ballots>>
        BY <1>2 DEF execute_proposal
    <2> QED
        BY <2>1, StatusKeeps
<1>3. ASSUME cancel_proposal(p) PROVE GovInv'
    <2>1. /\ SetStatus(p, "Cancelled")
          /\ UNCHANGED <<power, delegate, received, supply, guardians, gapprovals, config,
                         ballots>>
        BY <1>3 DEF cancel_proposal
    <2> QED
        BY <2>1, StatusKeeps
<1> QED
    BY <1>1, <1>2, <1>3, FinalizeKeeps, QueueKeeps, GuardianKeeps

LEMMA ApproveKeeps ==
    ASSUME GovInv, now' = now, NEW g \in Guard, NEW p \in Ids, guardian_approve(g, p)
    PROVE  GovInv'
<1> DEFINE more == gapprovals[p] \cup {g}
<1>1. gapprovals \in [Ids -> SUBSET Guard] /\ gapprovals' = [gapprovals EXCEPT ![p] = more]
    BY GovFacts DEF guardian_approve
<1>2. more \in SUBSET Guard /\ gapprovals[p] \subseteq more
    BY <1>1
<1> HIDE DEF more
<1>3. /\ gapprovals' \in [Ids -> SUBSET Guard]
      /\ \A i \in Ids : gapprovals[i] \subseteq gapprovals'[i]
    BY <1>1, <1>2
<1>4. /\ UNCHANGED <<power, delegate, received, supply, guardians, config, proposals, ballots>>
      /\ guardians \subseteq Guard /\ config \in Configs /\ now \in Nat
    BY DEF guardian_approve, GovInv, GovTypeOK
<1>5. now' \in Nat /\ now <= now'
    BY <1>4
<1> QED
    BY <1>3, <1>4, <1>5, GuardiansKeep

\* The guardians, the settings and the clock.
LEMMA SettingsKeep ==
    ASSUME GovInv,
           \/ now' = now /\ \E g \in Guard : set_guardians(g)
           \/ now' = now /\ \E c \in Configs : update_config(c)
           \/ Tick /\ UNCHANGED govVars
           \/ UNCHANGED <<now, govVars>>
    PROVE  GovInv'
<1>1. now \in Nat /\ guardians \subseteq Guard /\ config \in Configs
      /\ gapprovals \in [Ids -> SUBSET Guard]
    BY GovFacts DEF GovInv, GovTypeOK
<1>2. /\ UNCHANGED <<power, delegate, received, supply, proposals, ballots, gapprovals>>
      /\ guardians' \subseteq Guard /\ config' \in Configs
    <2>1. ASSUME NEW g \in Guard, set_guardians(g)
          PROVE  /\ UNCHANGED <<power, delegate, received, supply, proposals, ballots,
                                gapprovals>>
                 /\ guardians' \subseteq Guard /\ config' \in Configs
        BY <1>1, <2>1 DEF set_guardians
    <2>2. ASSUME NEW c \in Configs, update_config(c)
          PROVE  /\ UNCHANGED <<power, delegate, received, supply, proposals, ballots,
                                gapprovals>>
                 /\ guardians' \subseteq Guard /\ config' \in Configs
        BY <1>1, <2>2 DEF update_config
    <2>3. ASSUME UNCHANGED govVars
          PROVE  /\ UNCHANGED <<power, delegate, received, supply, proposals, ballots,
                                gapprovals>>
                 /\ guardians' \subseteq Guard /\ config' \in Configs
        BY <1>1, <2>3 DEF govVars
    <2> QED
        BY <2>1, <2>2, <2>3
<1>3. now' \in Nat /\ now <= now'
    BY <1>1 DEF Tick
<1>4. /\ gapprovals' \in [Ids -> SUBSET Guard]
      /\ \A p \in Ids : gapprovals[p] \subseteq gapprovals'[p]
    BY <1>1, <1>2
<1> QED
    BY <1>2, <1>3, <1>4, GuardiansKeep

LEMMA GovStep == GovInv /\ GovAct => GovInv'
<1> SUFFICES ASSUME GovInv, GovAct PROVE GovInv'
    OBVIOUS
<1>1. ASSUME GovNext PROVE GovInv'
    <2>1. now' = now
        BY <1>1 DEF GovNext
    <2>2. ASSUME NEW v \in Voter,
                 \/ \E n \in Powers : set_voting_power(v, n)
                 \/ \E w \in Voter : delegate_votes(v, w)
                 \/ undelegate_votes(v)
          PROVE  GovInv'
        BY <2>1, <2>2, PowersKeep
    <2>3. ASSUME NEW v \in Voter, NEW emergency \in BOOLEAN, create_proposal(v, emergency)
          PROVE  GovInv'
        BY <2>1, <2>3, CreateKeeps
    <2>4. ASSUME NEW v \in Voter, NEW p \in DOMAIN proposals, NEW choice \in VoteChoice,
                 cast_vote(v, p, choice)
          PROVE  GovInv'
        BY <2>1, <2>4, VoteKeeps
    <2>5. ASSUME NEW g \in Guard, NEW p \in Ids, guardian_approve(g, p)
          PROVE  GovInv'
        BY <2>1, <2>5, ApproveKeeps
    <2>6. ASSUME \/ \E g \in Guard : set_guardians(g)
                 \/ \E c \in Configs : update_config(c)
          PROVE  GovInv'
        BY <2>1, <2>6, SettingsKeep
    <2>7. ASSUME NEW p \in DOMAIN proposals,
                 \/ activate_proposal(p) \/ finalize_proposal(p) \/ queue_proposal(p)
                 \/ execute_proposal(p) \/ guardian_execute(p) \/ cancel_proposal(p)
          PROVE  GovInv'
        BY <2>1, <2>7, LifeKeeps
    <2> QED
        BY <1>1, <2>2, <2>3, <2>4, <2>5, <2>6, <2>7 DEF GovNext, Ids
<1>2. ASSUME (Tick /\ UNCHANGED govVars) \/ UNCHANGED <<now, govVars>> PROVE GovInv'
    BY <1>2, SettingsKeep
<1> QED
    BY <1>1, <1>2 DEF GovAct

LEMMA GovInitial == ClockInit /\ GovInit => GovInv
<1> SUFFICES ASSUME ClockInit, GovInit PROVE GovInv
    OBVIOUS
<1>1. /\ power = [v \in Voter |-> 0] /\ received = [v \in Voter |-> 0] /\ supply = 0
      /\ delegate = [v \in Voter |-> v] /\ guardians = {} /\ config \in Configs
      /\ gapprovals = [p \in Ids |-> {}] /\ proposals = <<>>
      /\ ballots = [p \in Ids |-> NoBallots]
    BY DEF GovInit, Ids, NoBallots
<1>2. now \in Nat
    BY DEF ClockInit
<1>3. Len(proposals) = 0 /\ DOMAIN proposals = {} /\ proposals \in Seq(Proposal)
    BY <1>1
<1>4. NoBallots \in [Voter -> Ballot]
    BY DEF NoBallots, Ballot
<1>5. ballots \in [Ids -> [Voter -> Ballot]] /\ gapprovals \in [Ids -> SUBSET Guard]
    BY <1>1, <1>4
<1>6. GovTypeOK
    BY <1>1, <1>3, <1>5 DEF GovTypeOK, Ids, Ballot
<1>7. SupplyIsPower
    <2>1. \A v \in Voter : power[v] = 0
        BY <1>1
    <2>2. DOMAIN power = Voter
        BY <1>1
    <2> QED
        BY <1>1, <2>1, <2>2, SumZero, GovernanceAssumption DEF SupplyIsPower, SumFunction
<1>8. Len(proposals) <= MaxGovProposals
    BY <1>3, GovernanceAssumption
<1> QED
    BY <1>1, <1>2, <1>3, <1>6, <1>7, <1>8 DEF GovInv

\* Whatever calls are made, in whatever order and by whomever: a proposal's
\* tally is its ballots, what was queued or executed was decided, and the
\* supply is the sum of the powers.
THEOREM GovSoundHolds == GovSpec => []GovSound
<1>1. ClockInit /\ GovInit => GovInv
    BY GovInitial
<1>2. GovInv /\ [GovNext \/ (Tick /\ UNCHANGED govVars)]_<<now, govVars>> => GovInv'
    BY GovStep DEF GovAct
<1>3. GovInv => GovSound
    BY GovInvSound
<1> QED
    BY <1>1, <1>2, <1>3, PTL DEF GovSpec

-----------------------------------------------------------------------------
(* Outcomes.                                                                *)

Final == {"Failed", "Executed", "GuardianExecuted", "Cancelled"}

Stands(p) ==
    proposals[p].status \in Final =>
        proposals'[p] = proposals[p] /\ ballots'[p] = ballots[p]

\* A call for a proposal without an outcome that changes it alone.
LEMMA OthersStand ==
    ASSUME GovInv, NEW p \in DOMAIN proposals, proposals[p].status \notin Final,
           NEW q, proposals' = [proposals EXCEPT ![p] = q],
           \A i \in DOMAIN proposals : i # p => ballots'[i] = ballots[i]
    PROVE  \A i \in DOMAIN proposals : Stands(i)
<1>1. \A i \in DOMAIN proposals : i # p => proposals'[i] = proposals[i]
    BY GovFacts
<1> QED
    BY <1>1 DEF Stands

LEMMA LifeStands ==
    ASSUME GovInv, NEW p \in DOMAIN proposals,
           \/ activate_proposal(p) \/ finalize_proposal(p) \/ queue_proposal(p)
           \/ execute_proposal(p) \/ guardian_execute(p) \/ cancel_proposal(p)
    PROVE  \A i \in DOMAIN proposals : Stands(i)
<1>1. proposals[p].status \notin Final
    BY DEF activate_proposal, finalize_proposal, queue_proposal, execute_proposal,
           guardian_execute, cancel_proposal, Final
<1>2. ballots' = ballots
    BY DEF activate_proposal, finalize_proposal, queue_proposal, execute_proposal,
           guardian_execute, cancel_proposal
<1>3. \E q : proposals' = [proposals EXCEPT ![p] = q]
    <2>1. ASSUME NEW s, SetStatus(p, s)
          PROVE  proposals' = [proposals EXCEPT ![p] = [proposals[p] EXCEPT !.status = s]]
        BY <2>1 DEF SetStatus
    <2>2. ASSUME activate_proposal(p) PROVE \E s : SetStatus(p, s)
        BY <2>2 DEF activate_proposal
    <2>3. ASSUME execute_proposal(p) PROVE \E s : SetStatus(p, s)
        BY <2>3 DEF execute_proposal
    <2>4. ASSUME guardian_execute(p) PROVE \E q : proposals' = [proposals EXCEPT ![p] = q]
        <3> DEFINE q == [proposals[p] EXCEPT !.asked = config.threshold,
                                             !.status = "GuardianExecuted"]
        <3>1. proposals' = [proposals EXCEPT ![p] = q]
            BY <2>4, GovFacts DEF guardian_execute
        <3> HIDE DEF q
        <3> QED
            BY <3>1
    <2>5. ASSUME cancel_proposal(p) PROVE \E s : SetStatus(p, s)
        BY <2>5 DEF cancel_proposal
    <2>6. ASSUME finalize_proposal(p) PROVE \E q : proposals' = [proposals EXCEPT ![p] = q]
        <3> DEFINE q == [proposals[p] EXCEPT !.bar = config.pass,
                             !.status = IF Passes(p) THEN "Passed" ELSE "Failed"]
        <3>1. proposals' = [proposals EXCEPT ![p] = q]
            BY <2>6, GovFacts DEF finalize_proposal
        <3> HIDE DEF q
        <3> QED
            BY <3>1
    <2>7. ASSUME queue_proposal(p) PROVE \E q : proposals' = [proposals EXCEPT ![p] = q]
        <3> DEFINE q == [proposals[p] EXCEPT !.due = now + config.timelock,
                                             !.status = "Queued"]
        <3>1. proposals' = [proposals EXCEPT ![p] = q]
            BY <2>7, GovFacts DEF queue_proposal
        <3> HIDE DEF q
        <3> QED
            BY <3>1
    <2> QED
        BY <2>1, <2>2, <2>3, <2>4, <2>5, <2>6, <2>7
<1> QED
    BY <1>1, <1>2, <1>3, OthersStand

LEMMA VoteStands ==
    ASSUME GovInv, NEW v \in Voter, NEW p \in DOMAIN proposals, NEW choice \in VoteChoice,
           cast_vote(v, p, choice)
    PROVE  \A i \in DOMAIN proposals : Stands(i)
<1> DEFINE n == IF config.quadratic THEN isqrt(effective_power(v)) ELSE effective_power(v)
<1>1. n \in Nat
    BY EffectiveNat, SquareRoot
<1>2. /\ proposals[p].status = "Active" /\ Counted(p, choice, n)
      /\ ballots' = [ballots EXCEPT ![p][v] = [choice |-> choice, votes |-> n]]
    BY DEF cast_vote
<1> HIDE DEF n
<1>3. proposals \in Seq(Proposal)
    BY GovFacts
<1>4. \E q : proposals' = [proposals EXCEPT ![p] = q]
    BY <1>1, <1>2, <1>3, CountedIs
<1>5. \A i \in DOMAIN proposals : i # p => ballots'[i] = ballots[i]
    BY <1>2, GovFacts
<1>6. proposals[p].status \notin Final
    BY <1>2 DEF Final
<1> QED
    BY <1>4, <1>5, <1>6, OthersStand

LEMMA CreateStands ==
    ASSUME GovInv, NEW v \in Voter, NEW emergency \in BOOLEAN, create_proposal(v, emergency)
    PROVE  \A i \in DOMAIN proposals : Stands(i)
<1>1. proposals \in Seq(Proposal) /\ ballots' = ballots
      /\ \E q : proposals' = Append(proposals, q)
    BY GovFacts DEF create_proposal
<1>2. \A i \in DOMAIN proposals : proposals'[i] = proposals[i]
    BY <1>1
<1> QED
    BY <1>1, <1>2 DEF Stands

LEMMA GovStands == GovInv /\ GovAct => \A p \in DOMAIN proposals : Stands(p)
<1> SUFFICES ASSUME GovInv, GovAct PROVE \A p \in DOMAIN proposals : Stands(p)
    OBVIOUS
<1>1. ASSUME proposals' = proposals, ballots' = ballots
      PROVE  \A p \in DOMAIN proposals : Stands(p)
    BY <1>1 DEF Stands
<1>2. ASSUME NEW v \in Voter,
             \/ \E n \in Powers : set_voting_power(v, n)
             \/ \E w \in Voter : delegate_votes(v, w)
             \/ undelegate_votes(v)
      PROVE  proposals' = proposals /\ ballots' = ballots
    BY <1>2 DEF set_voting_power, delegate_votes, undelegate_votes
<1>3. ASSUME NEW g \in Guard,
             \/ set_guardians(g) \/ \E p \in Ids : guardian_approve(g, p)
      PROVE  proposals' = proposals /\ ballots' = ballots
    BY <1>3 DEF set_guardians, guardian_approve
<1>4. ASSUME NEW c \in Configs, update_config(c)
      PROVE  proposals' = proposals /\ ballots' = ballots
    BY <1>4 DEF update_config
<1>5. ASSUME UNCHANGED govVars
      PROVE  proposals' = proposals /\ ballots' = ballots
    BY <1>5 DEF govVars
<1>6. ASSUME GovNext PROVE \A p \in DOMAIN proposals : Stands(p)
    BY <1>1, <1>2, <1>3, <1>4, <1>6, CreateStands, VoteStands, LifeStands DEF GovNext, Ids
<1> QED
    BY <1>1, <1>5, <1>6 DEF GovAct

\* No later vote, execution, call of the guardians, cancellation or change of
\* settings touches a proposal that has an outcome.
THEOREM OutcomesStandHolds == GovSpec => OutcomesStand
<1>1. ClockInit /\ GovInit => GovInv
    BY GovInitial
<1>2. GovInv /\ [GovNext \/ (Tick /\ UNCHANGED govVars)]_<<now, govVars>> => GovInv'
    BY GovStep DEF GovAct
<1>3. GovInv /\ [GovNext \/ (Tick /\ UNCHANGED govVars)]_<<now, govVars>> =>
        [\A p \in DOMAIN proposals :
            proposals[p].status \in {"Failed", "Executed", "GuardianExecuted", "Cancelled"} =>
                proposals'[p] = proposals[p] /\ ballots'[p] = ballots[p]]_govVars
    BY GovStands DEF GovAct, Stands, Final
<1> QED
    BY <1>1, <1>2, <1>3, PTL DEF GovSpec, OutcomesStand
=============================================================================
