---------------------------- MODULE InsurancePool ----------------------------
(***************************************************************************)
(* contracts/soroban/src/insurance_pool.rs: stakers put liquidity into a   *)
(* coverage pool and share the premiums, withdrawals wait in a time-locked *)
(* queue, and claims are verified by the admin, approved by a quorum and   *)
(* paid from the pool.  Calls are atomic and a call that panics changes    *)
(* nothing.  Pools share only the approvers, so one pool is enough.        *)
(*                                                                         *)
(* The premium that the rate, the risk score and the tier give is any of   *)
(* Premiums.  Scale stands for REWARD_SCALE.                               *)
(***************************************************************************)
EXTENDS LedgerClock, Integers, Sequences, FiniteSets, FiniteSetsExt, Functions

CONSTANTS
    Staker,         \* addresses that stake and claim
    Signer,         \* addresses that are ever made approvers
    Stakes,         \* amounts staked, withdrawn, covered and claimed
    Premiums,       \* values of required_premium
    SlashRates,     \* values of slash_bps
    CoverageCaps,   \* tier_coverage_cap_bps of the tiers
    Delay,          \* withdrawal_delay_secs
    Scale,
    MaxStakes, MaxClaims, MaxWithdrawals  \* bounds of the model on the numbers of calls

ASSUME InsuranceAssumption ==
    /\ IsFiniteSet(Staker) /\ IsFiniteSet(Signer) /\ Signer # {}
    /\ Stakes \subseteq Nat \ {0} /\ Premiums \subseteq Nat
    /\ SlashRates \subseteq 0..10000 /\ CoverageCaps \subseteq 0..10000
    /\ Delay \in Nat /\ Scale \in Nat \ {0}
    /\ MaxStakes \in Nat /\ MaxClaims \in Nat /\ MaxWithdrawals \in Nat

VARIABLES
    pool,       \* PoolInfo
    position,   \* StakerPosition of each staker
    requests,   \* WithdrawalRequest by id
    claims,     \* ClaimInfo by id
    council,    \* the approvers and the approval_threshold
    staked      \* what all stakers have put in

insuranceVars == <<pool, position, requests, claims, council, staked>>

Pool == [total : Int, staked : Nat, queued : Nat, coverage : Nat, acc : Nat,
         collected : Nat, payout : Nat]

Position == [staked : Nat, pending : Nat, debt : Nat, accrued : Nat,
             claimed : Nat, slashed : Nat]

Request == [staker : Staker, amount : Stakes, unlock : Nat, claimed : BOOLEAN]

Claim == [claimant : Staker, amount : Stakes, approvals : SUBSET Signer,
          status : {"Submitted", "Verified", "Approved", "Rejected", "Paid"}]

Councils == {c \in [approvers : SUBSET Signer, threshold : 1..Cardinality(Signer)] :
                c.threshold <= Cardinality(c.approvers)}

InsuranceTypeOK ==
    /\ pool \in Pool
    /\ position \in [Staker -> Position]
    /\ requests \in Seq(Request)
    /\ claims \in Seq(Claim)
    /\ council \in Councils
    /\ staked \in Nat

InsuranceInit ==
    /\ pool = [total |-> 0, staked |-> 0, queued |-> 0, coverage |-> 0, acc |-> 0,
               collected |-> 0, payout |-> 0]
    /\ position = [s \in Staker |-> [staked |-> 0, pending |-> 0, debt |-> 0,
                                     accrued |-> 0, claimed |-> 0, slashed |-> 0]]
    /\ requests = <<>> /\ claims = <<>>
    /\ council \in Councils
    /\ staked = 0

-----------------------------------------------------------------------------
(* Stakes, withdrawals and premiums.                                        *)

RewardDebt(amount) == (amount * pool.acc) \div Scale

\* sync_rewards, then the stake changes by the amount and the debt is set anew.
\* RewardDebt never falls below the debt of the same stake: acc only grows.
Synced(s, change) ==
    LET due == RewardDebt(position[s].staked) - position[s].debt IN
    [position[s] EXCEPT !.accrued = @ + due, !.staked = @ + change,
                        !.debt = RewardDebt(position[s].staked + change)]

stake_liquidity(s, amount) ==
    /\ staked + amount <= MaxStakes
    /\ position' = [position EXCEPT ![s] = Synced(s, amount)]
    /\ pool' = [pool EXCEPT !.total = @ + amount, !.staked = @ + amount]
    /\ staked' = staked + amount
    /\ UNCHANGED <<requests, claims, council>>

\* Mutant: the request leaves the amount among what can be staked against.
request_withdrawal_StillStaked(s, amount) ==
    /\ position[s].staked >= amount /\ Len(requests) < MaxWithdrawals
    /\ position' = [position EXCEPT ![s] = [Synced(s, -amount) EXCEPT !.pending = @ + amount]]
    /\ pool' = [pool EXCEPT !.queued = @ + amount]
    /\ requests' = Append(requests, [staker |-> s, amount |-> amount,
                                     unlock |-> now + Delay, claimed |-> FALSE])
    /\ UNCHANGED <<claims, council, staked>>

request_withdrawal(s, amount) ==
    /\ position[s].staked >= amount /\ Len(requests) < MaxWithdrawals
    /\ position' = [position EXCEPT ![s] = [Synced(s, -amount) EXCEPT !.pending = @ + amount]]
    /\ pool' = [pool EXCEPT !.staked = @ - amount, !.queued = @ + amount]
    /\ requests' = Append(requests, [staker |-> s, amount |-> amount,
                                     unlock |-> now + Delay, claimed |-> FALSE])
    /\ UNCHANGED <<claims, council, staked>>

execute_withdrawal(q) ==
    LET s == requests[q].staker  amount == requests[q].amount IN
    /\ ~requests[q].claimed /\ now >= requests[q].unlock
    /\ position[s].pending >= amount
    /\ pool.total >= amount /\ pool.queued >= amount
    /\ position' = [position EXCEPT ![s] = [Synced(s, 0) EXCEPT !.pending = @ - amount]]
    /\ pool' = [pool EXCEPT !.total = @ - amount, !.queued = @ - amount]
    /\ requests' = [requests EXCEPT ![q].claimed = TRUE]
    /\ UNCHANGED <<claims, council, staked>>

purchase_coverage(amount, premium, cap) ==
    /\ pool.coverage + amount <= (pool.staked * cap) \div 10000
    /\ pool' = [pool EXCEPT !.coverage = @ + amount, !.collected = @ + premium,
                            !.acc = @ + (premium * Scale) \div pool.staked]
    /\ UNCHANGED <<position, requests, claims, council, staked>>

claim_premium(s) ==
    /\ position' = [position EXCEPT ![s] =
           LET p == Synced(s, 0) IN [p EXCEPT !.claimed = @ + p.accrued, !.accrued = 0]]
    /\ UNCHANGED <<pool, requests, claims, council, staked>>

-----------------------------------------------------------------------------
(* Claims.                                                                  *)

configure_governance(c) ==
    /\ council' = c
    /\ UNCHANGED <<pool, position, requests, claims, staked>>

submit_claim(s, amount) ==
    /\ amount <= pool.coverage /\ Len(claims) < MaxClaims
    /\ claims' = Append(claims, [claimant |-> s, amount |-> amount, approvals |-> {},
                                 status |-> "Submitted"])
    /\ UNCHANGED <<pool, position, requests, council, staked>>

\* verify_claim with is_valid
verify_claim(c) ==
    /\ claims[c].status = "Submitted"
    /\ claims' = [claims EXCEPT ![c].status = "Verified"]
    /\ UNCHANGED <<pool, position, requests, council, staked>>

\* verify_claim without is_valid: the claimant's stake, as far as it goes, is
\* slashed.  After payouts the pool's total may become negative by it.
reject_claim(c, bps) ==
    LET s == claims[c].claimant
        slashed == Min({(claims[c].amount * bps) \div 10000, position[s].staked})
    IN
    /\ claims[c].status = "Submitted"
    /\ position' = [position EXCEPT ![s] = [Synced(s, -slashed) EXCEPT !.slashed = @ + slashed]]
    /\ pool' = [pool EXCEPT !.staked = @ - slashed, !.total = @ - slashed]
    /\ claims' = [claims EXCEPT ![c].status = "Rejected"]
    /\ UNCHANGED <<requests, council, staked>>

\* Mutant: a claim is approved by its first vote.
approve_claim_First(a, c) ==
    /\ a \in council.approvers /\ a \notin claims[c].approvals
    /\ claims[c].status \in {"Verified", "Approved"}
    /\ claims' = [claims EXCEPT ![c].approvals = @ \cup {a}, ![c].status = "Approved"]
    /\ UNCHANGED <<pool, position, requests, council, staked>>

approve_claim(a, c) ==
    LET votes == claims[c].approvals \cup {a} IN
    /\ a \in council.approvers /\ a \notin claims[c].approvals
    /\ claims[c].status \in {"Verified", "Approved"}
    /\ claims' = [claims EXCEPT ![c].approvals = votes,
                                ![c].status = IF Cardinality(votes) >= council.threshold
                                              THEN "Approved" ELSE @]
    /\ UNCHANGED <<pool, position, requests, council, staked>>

execute_payout(c) ==
    /\ claims[c].status = "Approved"
    /\ claims[c].amount <= pool.total /\ claims[c].amount <= pool.coverage
    /\ pool' = [pool EXCEPT !.total = @ - claims[c].amount,
                            !.coverage = @ - claims[c].amount,
                            !.payout = @ + claims[c].amount]
    /\ claims' = [claims EXCEPT ![c].status = "Paid"]
    /\ UNCHANGED <<position, requests, council, staked>>

InsuranceNext ==
    /\ \/ \E s \in Staker : claim_premium(s)
       \/ \E s \in Staker, amount \in Stakes :
             \/ stake_liquidity(s, amount)
             \/ request_withdrawal(s, amount)
             \/ submit_claim(s, amount)
       \/ \E q \in DOMAIN requests : execute_withdrawal(q)
       \/ \E amount \in Stakes, premium \in Premiums, cap \in CoverageCaps :
             purchase_coverage(amount, premium, cap)
       \/ \E c \in Councils : configure_governance(c)
       \/ \E c \in DOMAIN claims :
             \/ verify_claim(c)
             \/ \E bps \in SlashRates : reject_claim(c, bps)
             \/ \E a \in Signer : approve_claim(a, c)
             \/ execute_payout(c)
    /\ UNCHANGED now

\* The pool and the ledger's clock by themselves.
InsuranceSpec ==
    /\ ClockInit /\ InsuranceInit
    /\ [][InsuranceNext \/ (Tick /\ UNCHANGED insuranceVars)]_<<now, insuranceVars>>

-----------------------------------------------------------------------------
(* Properties.                                                              *)

PositionSum(field) == SumFunction([s \in Staker |-> position[s][field]])

\* The pool's books agree with the stakers': every unit staked is still in a
\* stake, waits in a request, was withdrawn once, was slashed or paid a claim,
\* and the pool lacks exactly what the claims took.
PoolBalances ==
    LET withdrawn == {q \in DOMAIN requests : requests[q].claimed}
        out == SumFunctionOnSet([q \in DOMAIN requests |-> requests[q].amount], withdrawn)
    IN
    /\ pool.staked = PositionSum("staked")
    /\ pool.queued = PositionSum("pending")
    /\ pool.total + pool.payout = pool.staked + pool.queued
    /\ staked = pool.staked + pool.queued + out + PositionSum("slashed")

\* What was paid is the sum of the claims marked Paid: no claim is paid twice,
\* and none is marked without its payment or paid without its mark.
PayoutsAreClaims ==
    pool.payout = SumFunctionOnSet([c \in DOMAIN claims |-> claims[c].amount],
                                   {c \in DOMAIN claims : claims[c].status = "Paid"})

\* The pool's accounts as a whole: the stakes, the queue, the coverage and the
\* claims' limit are never overdrawn, the books agree, and claims are what was
\* paid.  The pool's total may itself fall below zero: reject_claim slashes
\* stakes that payouts have used up already.
PoolSound == InsuranceTypeOK /\ PoolBalances /\ PayoutsAreClaims

ClaimStage == [c \in 1..MaxClaims |->
    IF c \notin DOMAIN claims \/ claims[c].status = "Submitted" THEN "none"
    ELSE CASE claims[c].status = "Verified" -> "open"
           [] claims[c].status = "Approved" -> "approved"
           [] claims[c].status = "Paid" -> "done"
           [] OTHER -> "off"]

ClaimVotes == [c \in 1..MaxClaims |-> IF c \in DOMAIN claims THEN claims[c].approvals ELSE {}]

ClaimDecision == INSTANCE QuorumDecision WITH
    Item <- 1..MaxClaims, Voter <- Signer,
    stage <- ClaimStage, votes <- ClaimVotes, need <- council.threshold

\* A claim keeps the promise of QuorumDecision with the threshold of the day:
\* it is paid at most once, only when enough different approvers have voted
\* for it, and a rejected claim is never taken up again.
ClaimIsDecision == ClaimDecision!DecisionSpec
=============================================================================
