--------------------------- MODULE EscrowContract ---------------------------
(***************************************************************************)
(* contracts/soroban/src/escrow_contract.rs, TimeLockedEscrowContract: a   *)
(* deposit is locked, may be challenged until the lock ends, is put to a   *)
(* vote of the approvers, and leaves by releases, a refund or the admin's  *)
(* emergency recovery.  Every call is atomic: one that returns an error    *)
(* changes nothing, and is left out.                                       *)
(*                                                                         *)
(* A caller who is the recipient, the depositor, the fee collector or the  *)
(* admin always exists, so those checks do not appear; who among the       *)
(* approvers votes does matter.  The contract moves no tokens: it returns  *)
(* the amount to pay, which paid and collected record.                     *)
(***************************************************************************)
EXTENDS LedgerClock, Integers, Sequences, FiniteSets, Functions

CONSTANTS
    Approver,       \* addresses that are ever made approvers
    Amounts,        \* amounts deposited
    Parts,          \* amounts released or recovered by one call
    FeeRates,       \* values of fee_bps
    LockSecs,       \* lock periods
    MaxLock,        \* bound of the model on the end of a lock, after the last tick
    MaxEscrows      \* bound of the model on the number of deposits

ASSUME EscrowAssumption ==
    /\ IsFiniteSet(Approver) /\ Approver # {}
    /\ Amounts \subseteq Nat \ {0} /\ Parts \subseteq Nat \ {0}
    /\ FeeRates \subseteq 0..2000 /\ FeeRates # {}
    /\ LockSecs \subseteq Nat \ {0} /\ MaxLock \in Nat
    /\ MaxEscrows \in Nat

VARIABLES
    escrows,    \* EscrowDeposit by id; ids are handed out in order
    disputes,   \* DisputeResolution by id; no votes: there is none
    challenged, \* ids with a ChallengeInfo
    board,      \* the approvers and their threshold
    feeBps,
    emergency,  \* EmergencyPause
    accrued,    \* AccruedFees
    collected,  \* what collect_fees has returned
    paid        \* what refund_escrow and emergency_recover have returned, by id

escrowVars == <<escrows, disputes, challenged, board, feeBps, emergency,
                accrued, collected, paid>>

Ids == DOMAIN escrows

Escrow == [amount : Amounts, fee : Nat, released : Nat, lockUntil : Nat,
           status : {"Pending", "Challenged", "Released", "Refunded"},
           verified : BOOLEAN]

Dispute == [release : BOOLEAN, approvals : SUBSET Approver, required : Nat,
            resolved : BOOLEAN]

Boards == {b \in [approvers : SUBSET Approver, threshold : 1..Cardinality(Approver)] :
              b.threshold <= Cardinality(b.approvers)}

NoDispute == [release |-> FALSE, approvals |-> {}, required |-> 0, resolved |-> FALSE]

EscrowTypeOK ==
    /\ escrows \in Seq(Escrow)
    /\ disputes \in Seq(Dispute) /\ Len(disputes) = Len(escrows)
    /\ challenged \subseteq Ids
    /\ board \in Boards
    /\ feeBps \in FeeRates
    /\ emergency \in BOOLEAN
    /\ accrued \in Nat /\ collected \in Nat
    /\ paid \in Seq([refunded : Nat, recovered : Nat]) /\ Len(paid) = Len(escrows)

Total(e) == escrows[e].amount - escrows[e].fee
Settled(e) == escrows[e].status \in {"Released", "Refunded"}

EscrowInit ==
    /\ escrows = <<>> /\ disputes = <<>> /\ paid = <<>>
    /\ challenged = {}
    /\ board \in Boards
    /\ feeBps \in FeeRates
    /\ emergency = FALSE
    /\ accrued = 0 /\ collected = 0

-----------------------------------------------------------------------------
(* The admin's settings.                                                    *)

set_fee_config(bps) ==
    /\ feeBps' = bps
    /\ UNCHANGED <<escrows, disputes, challenged, board, emergency, accrued, collected, paid>>

set_approvers(b) ==
    /\ board' = b
    /\ UNCHANGED <<escrows, disputes, challenged, feeBps, emergency, accrued, collected, paid>>

set_emergency_pause(on) ==
    /\ emergency' = on
    /\ UNCHANGED <<escrows, disputes, challenged, board, feeBps, accrued, collected, paid>>

\* A lock is extended at most to MaxLock, which never ends here.
extend_lock(e, secs) ==
    /\ ~Settled(e)
    /\ escrows[e].lockUntil + secs <= MaxLock
    /\ escrows' = [escrows EXCEPT ![e].lockUntil = @ + secs]
    /\ UNCHANGED <<disputes, challenged, board, feeBps, emergency, accrued, collected, paid>>

-----------------------------------------------------------------------------
(* The life of a deposit.                                                   *)

\* Mutant: the fee is added to what can be collected when it is too late.
create_escrow_FeeUnaccrued(amount, secs) ==
    /\ ~emergency /\ Len(escrows) < MaxEscrows
    /\ escrows' = Append(escrows, [amount |-> amount, fee |-> (amount * feeBps) \div 10000,
                                   released |-> 0, lockUntil |-> now + secs,
                                   status |-> "Pending", verified |-> FALSE])
    /\ disputes' = Append(disputes, NoDispute)
    /\ paid' = Append(paid, [refunded |-> 0, recovered |-> 0])
    /\ UNCHANGED <<challenged, board, feeBps, emergency, accrued, collected>>

create_escrow(amount, secs) ==
    LET fee == (amount * feeBps) \div 10000 IN
    /\ ~emergency /\ Len(escrows) < MaxEscrows
    /\ escrows' = Append(escrows, [amount |-> amount, fee |-> fee, released |-> 0,
                                   lockUntil |-> now + secs,
                                   status |-> "Pending", verified |-> FALSE])
    /\ disputes' = Append(disputes, NoDispute)
    /\ paid' = Append(paid, [refunded |-> 0, recovered |-> 0])
    /\ accrued' = accrued + fee
    /\ UNCHANGED <<challenged, board, feeBps, emergency, collected>>

sync_verification(e, verified) ==
    /\ ~Settled(e)
    /\ escrows' = [escrows EXCEPT ![e].verified = verified]
    /\ UNCHANGED <<disputes, challenged, board, feeBps, emergency, accrued, collected, paid>>

challenge_escrow(e) ==
    /\ ~emergency
    /\ escrows[e].status = "Pending" /\ now < escrows[e].lockUntil
    /\ e \notin challenged
    /\ escrows' = [escrows EXCEPT ![e].status = "Challenged"]
    /\ challenged' = challenged \cup {e}
    /\ UNCHANGED <<disputes, board, feeBps, emergency, accrued, collected, paid>>

\* The first vote fixes the decision and the number of votes it takes.
Opened(e, release) ==
    IF disputes[e] = NoDispute
    THEN [NoDispute EXCEPT !.release = release, !.required = board.threshold]
    ELSE disputes[e]

\* Mutant: a vote for the other decision is counted too.
resolve_challenge_AnyVote(a, e, release) ==
    LET votes == Opened(e, release).approvals \cup {a}
        dispute == [Opened(e, release) EXCEPT !.approvals = votes, !.release = release,
                       !.resolved = Cardinality(votes) >= Opened(e, release).required]
    IN
    /\ ~emergency /\ a \in board.approvers
    /\ escrows[e].status = "Challenged"
    /\ ~disputes[e].resolved
    /\ disputes' = [disputes EXCEPT ![e] = dispute]
    /\ escrows' = [escrows EXCEPT ![e].status =
                      IF dispute.release THEN "Pending" ELSE @]
    /\ UNCHANGED <<challenged, board, feeBps, emergency, accrued, collected, paid>>

resolve_challenge(a, e, release) ==
    LET opened == Opened(e, release)
        votes == opened.approvals \cup {a}
        resolved == Cardinality(votes) >= opened.required
    IN
    /\ ~emergency /\ a \in board.approvers
    /\ escrows[e].status = "Challenged"
    /\ ~opened.resolved /\ opened.release = release /\ a \notin opened.approvals
    /\ disputes' = [disputes EXCEPT
           ![e] = [opened EXCEPT !.approvals = votes, !.resolved = resolved]]
    /\ escrows' = [escrows EXCEPT ![e].status =
                      IF resolved /\ release THEN "Pending" ELSE @]
    /\ UNCHANGED <<challenged, board, feeBps, emergency, accrued, collected, paid>>

\* batch_release runs release_escrow_internal for each id of a list, which may
\* name an id more than once, and fails as a whole: times[e] is how often e is
\* named.  release_escrow is the list of one id.
release(times, amount) ==
    /\ ~emergency
    /\ \A e \in Ids : times[e] > 0 =>
          /\ escrows[e].status = "Pending" /\ escrows[e].verified
          /\ now >= escrows[e].lockUntil
          /\ times[e] * amount <= Total(e) - escrows[e].released
    /\ escrows' = [e \in Ids |->
          LET sum == escrows[e].released + times[e] * amount IN
          [escrows[e] EXCEPT !.released = sum,
                             !.status = IF times[e] > 0 /\ sum = Total(e)
                                        THEN "Released" ELSE @]]
    /\ UNCHANGED <<disputes, challenged, board, feeBps, emergency, accrued, collected, paid>>

refund_escrow(e) ==
    /\ ~emergency /\ ~Settled(e)
    /\ IF escrows[e].status = "Challenged"
       THEN disputes[e].resolved /\ ~disputes[e].release
       ELSE ~escrows[e].verified
    /\ Total(e) > escrows[e].released
    /\ escrows' = [escrows EXCEPT ![e].status = "Refunded"]
    /\ paid' = [paid EXCEPT ![e].refunded = Total(e) - escrows[e].released]
    /\ UNCHANGED <<disputes, challenged, board, feeBps, emergency, accrued, collected>>

\* The fee is part of what can be recovered, and a refund is not looked at.
emergency_recover(e, amount) ==
    LET sum == escrows[e].released + amount IN
    /\ emergency
    /\ sum <= escrows[e].amount
    /\ escrows' = [escrows EXCEPT ![e].released = sum,
                                  ![e].status = IF sum >= Total(e) THEN "Released" ELSE @]
    /\ paid' = [paid EXCEPT ![e].recovered = @ + amount]
    /\ UNCHANGED <<disputes, challenged, board, feeBps, emergency, accrued, collected>>

collect_fees(amount) ==
    /\ amount <= accrued
    /\ accrued' = accrued - amount
    /\ collected' = collected + amount
    /\ UNCHANGED <<escrows, disputes, challenged, board, feeBps, emergency, paid>>

-----------------------------------------------------------------------------

EscrowNext ==
    /\ \/ \E bps \in FeeRates : set_fee_config(bps)
       \/ \E b \in Boards : set_approvers(b)
       \/ \E on \in BOOLEAN : set_emergency_pause(on)
       \/ \E amount \in Amounts, secs \in LockSecs : create_escrow(amount, secs)
       \/ \E e \in Ids :
             \/ \E secs \in LockSecs : extend_lock(e, secs)
             \/ \E verified \in BOOLEAN : sync_verification(e, verified)
             \/ challenge_escrow(e)
             \/ \E a \in Approver, free \in BOOLEAN : resolve_challenge(a, e, free)
             \/ refund_escrow(e)
             \/ \E amount \in Parts : emergency_recover(e, amount)
       \/ \E times \in [Ids -> 0..2], amount \in Parts : release(times, amount)
       \/ \E amount \in 1..accrued + 1 : collect_fees(amount)
    /\ UNCHANGED now

\* The escrows and the ledger's clock by themselves.
EscrowSpec ==
    /\ ClockInit /\ EscrowInit
    /\ [][EscrowNext \/ (Tick /\ UNCHANGED escrowVars)]_<<now, escrowVars>>

-----------------------------------------------------------------------------
(* Properties.                                                              *)

\* Whatever the order of partial releases, a failed verification and a
\* dispute: an escrow the admin never recovered pays its amount less the fee
\* exactly once, all of it when it is settled, and a deposit is never counted
\* as released beyond its amount (escrow_contract.rs, release and refund).
SettledExactly ==
    \A e \in Ids :
        /\ escrows[e].released <= escrows[e].amount
        /\ paid[e].recovered = 0 =>
              /\ escrows[e].released + paid[e].refunded <= Total(e)
              /\ Settled(e) <=> escrows[e].released + paid[e].refunded = Total(e)

\* The fees that can be collected and those collected are together the fees
\* of all deposits, through changes of the rate, refunds and recoveries.
FeesBalance == accrued + collected = SumFunction([e \in Ids |-> escrows[e].fee])

\* A challenge holds the money until a quorum of approvers, as large as the
\* threshold was at the first vote, has agreed on one decision: nothing but
\* an emergency takes the deposit out of dispute before, and a deposit that
\* is verified is refunded only when the approvers have decided so.
DisputeDecides ==
    \A e \in Ids : paid[e].recovered = 0 =>
        LET decided == disputes[e].resolved
                       /\ Cardinality(disputes[e].approvals) >= disputes[e].required
        IN
        /\ e \in challenged /\ escrows[e].status # "Challenged" => decided
        /\ escrows[e].status = "Refunded" /\ escrows[e].verified =>
              decided /\ ~disputes[e].release

\* A decision that was reached is not taken back, and no vote is lost or
\* changes sides, whatever the admin does to the approvers meanwhile.
VotesStand ==
    [][\A e \in Ids : disputes[e] # NoDispute =>
          /\ disputes'[e].release = disputes[e].release
          /\ disputes'[e].required = disputes[e].required
          /\ disputes[e].approvals \subseteq disputes'[e].approvals
          /\ disputes[e].resolved => disputes'[e] = disputes[e]]_escrowVars

\* Every deposit's books are sound: it is paid once and exactly, the fees are
\* those of the deposits, and a dispute is decided by its quorum only.
EscrowSound == EscrowTypeOK /\ SettledExactly /\ FeesBalance /\ DisputeDecides
=============================================================================
