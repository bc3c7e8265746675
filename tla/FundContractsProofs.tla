------------------------- MODULE FundContractsProofs -------------------------
(***************************************************************************)
(* The contracts that keep users' funds and a pool's history, for every    *)
(* set of users, approvers and stakers, all amounts and rates, rings of    *)
(* every size and any number of calls: the escrow's deposits and fees,     *)
(* what was recovered in emergencies, the books of the insurance pool, and *)
(* what the rings of a liquidity pool hold.  In each the argument is one   *)
(* inductive invariant, with one lemma per call; where a property is about *)
(* a sum, FiniteSums says how it moves with the one term that changes.     *)
(***************************************************************************)
EXTENDS EscrowContract, EmergencyFundRecovery, InsurancePool, LiquidityPoolHistory,
        FiniteSums

(***************************************************************************)
(* The escrow contract.                                                    *)
(***************************************************************************)

EscrowAct == [EscrowNext \/ (Tick /\ UNCHANGED escrowVars)]_<<now, escrowVars>>

Paid == [refunded : Nat, recovered : Nat]

\* What holds of one deposit x with its dispute d, what was paid p of it, and
\* whether it was challenged, c.
GoodDeposit(x, d, p, c) ==
    /\ x.fee < x.amount /\ x.released <= x.amount
    /\ d.resolved => Cardinality(d.approvals) >= d.required
    /\ p.recovered = 0 =>
          /\ x.status # "Refunded" => p.refunded = 0
          /\ x.released + p.refunded <= x.amount - x.fee
          /\ x.status \in {"Released", "Refunded"}
                <=> x.released + p.refunded = x.amount - x.fee
          /\ c /\ x.status # "Challenged" => d.resolved
          /\ x.status = "Refunded" /\ x.verified => d.resolved /\ ~d.release

Good(e) == GoodDeposit(escrows[e], disputes[e], paid[e], e \in challenged)

\* What EscrowSound needs to be inductive: a fee is less than its deposit, a
\* refund is recorded with its status, and a dispute is resolved by a quorum.
EscrowInv == now \in Nat /\ EscrowTypeOK /\ FeesBalance /\ \A e \in Ids : Good(e)

Fees == [e \in Ids |-> escrows[e].fee]

LEMMA EscrowAt ==
    ASSUME EscrowTypeOK, NEW e \in Ids
    PROVE  /\ escrows[e] \in Escrow /\ disputes[e] \in Dispute /\ paid[e] \in Paid
           /\ e \in DOMAIN disputes /\ e \in DOMAIN paid
<1>1. paid \in Seq(Paid) /\ Len(paid) = Len(escrows) /\ disputes \in Seq(Dispute)
      /\ Len(disputes) = Len(escrows) /\ escrows \in Seq(Escrow)
    BY DEF EscrowTypeOK, Paid
<1>2. e \in 1..Len(escrows)
    BY <1>1 DEF Ids
<1> QED
    BY <1>1, <1>2

LEMMA DepositNumbers ==
    ASSUME EscrowTypeOK, NEW e \in Ids
    PROVE  /\ escrows[e].released \in Nat /\ escrows[e].fee \in Nat
           /\ escrows[e].amount \in Nat
           /\ paid[e].refunded \in Nat /\ paid[e].recovered \in Nat
<1>1. escrows[e] \in Escrow /\ paid[e] \in Paid
    BY EscrowAt
<1>2. paid[e].refunded \in Nat /\ paid[e].recovered \in Nat
    BY <1>1 DEF Paid
<1>3. Amounts \subseteq Nat
    BY EscrowAssumption
<1>4. escrows[e].released \in Nat /\ escrows[e].fee \in Nat /\ escrows[e].amount \in Nat
    BY <1>1, <1>3 DEF Escrow
<1> QED
    BY <1>2, <1>4

LEMMA EscrowInvSound == EscrowInv => EscrowSound
<1> SUFFICES ASSUME EscrowInv PROVE EscrowSound
    OBVIOUS
<1>1. ASSUME NEW e \in Ids
      PROVE  /\ escrows[e].released <= escrows[e].amount
             /\ paid[e].recovered = 0 =>
                   /\ escrows[e].released + paid[e].refunded <= Total(e)
                   /\ Settled(e) <=> escrows[e].released + paid[e].refunded = Total(e)
    BY DEF EscrowInv, Good, GoodDeposit, Total, Settled
<1>2. DisputeDecides
    BY DEF EscrowInv, Good, GoodDeposit, DisputeDecides
<1> QED
    BY <1>1, <1>2 DEF EscrowInv, EscrowSound, SettledExactly

LEMMA FeesFinite ==
    ASSUME EscrowTypeOK
    PROVE  IsFiniteSet(Ids) /\ \A e \in Ids : Fees[e] \in Nat
<1>1. Ids = 1..Len(escrows) /\ Len(escrows) \in Nat
    BY DEF EscrowTypeOK, Ids
<1>2. \A e \in Ids : Fees[e] \in Nat
    BY EscrowAt DEF Fees, Escrow
<1> QED
    BY <1>1, <1>2, FS_Interval

\* The deposits stay the same ones, with the same fees.
LEMMA SameDeposits ==
    ASSUME EscrowInv, now' \in Nat,
           escrows' \in Seq(Escrow), Len(escrows') = Len(escrows),
           disputes' \in Seq(Dispute), Len(disputes') = Len(disputes),
           paid' \in Seq(Paid), Len(paid') = Len(paid),
           challenged' \subseteq Ids, board' \in Boards, feeBps' \in FeeRates,
           emergency' \in BOOLEAN, accrued' \in Nat, collected' \in Nat,
           accrued' + collected' = accrued + collected,
           \A e \in Ids : escrows'[e].fee = escrows[e].fee /\ Good(e)'
    PROVE  EscrowInv'
<1>1. Ids' = Ids
    BY DEF EscrowInv, EscrowTypeOK, Ids
<1>2. EscrowTypeOK'
    BY <1>1 DEF EscrowInv, EscrowTypeOK, Paid
<1>3. FeesBalance'
    <2>1. Fees' = Fees
        BY <1>1 DEF Fees
    <2> QED
        BY <2>1 DEF EscrowInv, FeesBalance, Fees
<1> QED
    BY <1>1, <1>2, <1>3 DEF EscrowInv

\* A step that changes one deposit.
LEMMA OneDeposit ==
    ASSUME EscrowInv, NEW e \in Ids, NEW x \in Escrow, NEW d \in Dispute, NEW p \in Paid,
           escrows' = [escrows EXCEPT ![e] = x], x.fee = escrows[e].fee,
           disputes' = [disputes EXCEPT ![e] = d],
           paid' = [paid EXCEPT ![e] = p],
           challenged' \in {challenged, challenged \cup {e}},
           UNCHANGED <<now, board, feeBps, emergency, accrued, collected>>,
           GoodDeposit(x, d, p, e \in challenged')
    PROVE  EscrowInv'
<1>1. EscrowTypeOK /\ now' \in Nat
    BY DEF EscrowInv
<1>2. /\ escrows' \in Seq(Escrow) /\ Len(escrows') = Len(escrows)
      /\ escrows'[e] = x /\ \A i \in Ids \ {e} : escrows'[i] = escrows[i]
    BY <1>1 DEF EscrowTypeOK, Ids
<1>3. /\ disputes' \in Seq(Dispute) /\ Len(disputes') = Len(disputes)
      /\ disputes'[e] = d /\ \A i \in Ids \ {e} : disputes'[i] = disputes[i]
    BY <1>1 DEF EscrowTypeOK, Ids
<1>4. /\ paid' \in Seq(Paid) /\ Len(paid') = Len(paid)
      /\ paid'[e] = p /\ \A i \in Ids \ {e} : paid'[i] = paid[i]
    BY <1>1 DEF EscrowTypeOK, Ids, Paid
<1>5. challenged' \subseteq Ids /\ \A i \in Ids \ {e} : i \in challenged' <=> i \in challenged
    BY <1>1 DEF EscrowTypeOK
<1>6. \A i \in Ids : escrows'[i].fee = escrows[i].fee
    BY <1>2
<1>7. ASSUME NEW i \in Ids PROVE Good(i)'
    <2>1. CASE i = e
        BY <1>2, <1>3, <1>4, <2>1 DEF Good
    <2>2. CASE i # e
        <3>1. Good(i)
            BY DEF EscrowInv
        <3>2. (i \in challenged)' <=> i \in challenged
            BY <1>5, <2>2
        <3> QED
            BY <1>2, <1>3, <1>4, <2>2, <3>1, <3>2 DEF Good, GoodDeposit
    <2> QED
        BY <2>1, <2>2
<1> QED
    BY <1>1, <1>2, <1>3, <1>4, <1>5, <1>6, <1>7, SameDeposits DEF EscrowTypeOK

-----------------------------------------------------------------------------

\* Steps that touch no deposit: the settings, the fees' collection and time.
LEMMA SettingsKeep ==
    ASSUME EscrowInv, now' \in Nat, UNCHANGED <<escrows, disputes, challenged, paid>>,
           board' \in Boards, feeBps' \in FeeRates, emergency' \in BOOLEAN,
           accrued' \in Nat, collected' \in Nat,
           accrued' + collected' = accrued + collected
    PROVE  EscrowInv'
<1>1. \A e \in Ids : Good(e)'
    BY DEF EscrowInv, Good
<1>2. paid' \in Seq(Paid)
    BY DEF EscrowInv, EscrowTypeOK, Paid
<1> QED
    BY <1>1, <1>2, SameDeposits DEF EscrowInv, EscrowTypeOK

LEMMA ExtendKeeps ==
    ASSUME EscrowInv, NEW e \in Ids, NEW secs \in LockSecs, extend_lock(e, secs), now' = now
    PROVE  EscrowInv'
<1> DEFINE x == [escrows[e] EXCEPT !.lockUntil = @ + secs]
<1>1. escrows[e] \in Escrow /\ disputes[e] \in Dispute /\ paid[e] \in Paid /\ secs \in Nat
    BY EscrowAt, EscrowAssumption DEF EscrowInv
<1>2. /\ x \in Escrow /\ x.amount = escrows[e].amount /\ x.fee = escrows[e].fee
      /\ x.released = escrows[e].released /\ x.status = escrows[e].status
      /\ x.verified = escrows[e].verified
    BY <1>1 DEF Escrow
<1>3. /\ escrows' = [escrows EXCEPT ![e] = x] /\ disputes' = [disputes EXCEPT ![e] = disputes[e]]
      /\ paid' = [paid EXCEPT ![e] = paid[e]] /\ challenged' = challenged
      /\ UNCHANGED <<now, board, feeBps, emergency, accrued, collected>>
    BY DEF extend_lock, EscrowInv, EscrowTypeOK
<1> HIDE DEF x
<1>4. GoodDeposit(x, disputes[e], paid[e], e \in challenged')
    BY <1>2, <1>3 DEF EscrowInv, Good, GoodDeposit
<1> QED
    BY <1>1, <1>2, <1>3, <1>4, OneDeposit

LEMMA VerifyKeeps ==
    ASSUME EscrowInv, NEW e \in Ids, NEW v \in BOOLEAN, sync_verification(e, v), now' = now
    PROVE  EscrowInv'
<1> DEFINE x == [escrows[e] EXCEPT !.verified = v]
<1>1. escrows[e] \in Escrow /\ disputes[e] \in Dispute /\ paid[e] \in Paid
    BY EscrowAt DEF EscrowInv
<1>2. /\ x \in Escrow /\ x.amount = escrows[e].amount /\ x.fee = escrows[e].fee
      /\ x.released = escrows[e].released /\ x.status = escrows[e].status
    BY <1>1 DEF Escrow
<1>3. /\ escrows' = [escrows EXCEPT ![e] = x] /\ disputes' = [disputes EXCEPT ![e] = disputes[e]]
      /\ paid' = [paid EXCEPT ![e] = paid[e]] /\ challenged' = challenged
      /\ UNCHANGED <<now, board, feeBps, emergency, accrued, collected>>
      /\ escrows[e].status # "Refunded"
    BY DEF sync_verification, EscrowInv, EscrowTypeOK, Settled
<1> HIDE DEF x
<1>4. GoodDeposit(x, disputes[e], paid[e], e \in challenged')
    BY <1>2, <1>3 DEF EscrowInv, Good, GoodDeposit
<1> QED
    BY <1>1, <1>2, <1>3, <1>4, OneDeposit

LEMMA ChallengeKeeps ==
    ASSUME EscrowInv, NEW e \in Ids, challenge_escrow(e), now' = now
    PROVE  EscrowInv'
<1> DEFINE x == [escrows[e] EXCEPT !.status = "Challenged"]
<1>1. escrows[e] \in Escrow /\ disputes[e] \in Dispute /\ paid[e] \in Paid
    BY EscrowAt DEF EscrowInv
<1>2. /\ x \in Escrow /\ x.amount = escrows[e].amount /\ x.fee = escrows[e].fee
      /\ x.released = escrows[e].released /\ x.status = "Challenged"
    BY <1>1 DEF Escrow
<1>3. /\ escrows' = [escrows EXCEPT ![e] = x] /\ disputes' = [disputes EXCEPT ![e] = disputes[e]]
      /\ paid' = [paid EXCEPT ![e] = paid[e]] /\ challenged' = challenged \cup {e}
      /\ UNCHANGED <<now, board, feeBps, emergency, accrued, collected>>
      /\ escrows[e].status = "Pending"
    BY DEF challenge_escrow, EscrowInv, EscrowTypeOK
<1> HIDE DEF x
<1>4. GoodDeposit(x, disputes[e], paid[e], e \in challenged')
    BY <1>2, <1>3 DEF EscrowInv, Good, GoodDeposit
<1> QED
    BY <1>1, <1>2, <1>3, <1>4, OneDeposit

LEMMA RefundKeeps ==
    ASSUME EscrowInv, NEW e \in Ids, refund_escrow(e), now' = now
    PROVE  EscrowInv'
<1> DEFINE x == [escrows[e] EXCEPT !.status = "Refunded"]
           rest == escrows[e].amount - escrows[e].fee - escrows[e].released
           p == [paid[e] EXCEPT !.refunded = rest]
<1>1. escrows[e] \in Escrow /\ disputes[e] \in Dispute /\ paid[e] \in Paid
    BY EscrowAt DEF EscrowInv
<1>2. /\ x \in Escrow /\ x.amount = escrows[e].amount /\ x.fee = escrows[e].fee
      /\ x.released = escrows[e].released /\ x.status = "Refunded"
      /\ x.verified = escrows[e].verified
      /\ x.amount \in Nat /\ x.fee \in Nat /\ x.released \in Nat
    BY <1>1, EscrowAssumption DEF Escrow
<1>3. /\ escrows' = [escrows EXCEPT ![e] = x] /\ disputes' = [disputes EXCEPT ![e] = disputes[e]]
      /\ paid' = [paid EXCEPT ![e] = p] /\ challenged' = challenged
      /\ UNCHANGED <<now, board, feeBps, emergency, accrued, collected>>
      /\ escrows[e].amount - escrows[e].fee > escrows[e].released
      /\ escrows[e].status \notin {"Released", "Refunded"}
      /\ escrows[e].verified => disputes[e].resolved /\ ~disputes[e].release
      /\ escrows[e].status = "Challenged" => disputes[e].resolved
    BY <1>1 DEF refund_escrow, EscrowInv, EscrowTypeOK, Settled, Total
<1>4. rest \in Nat
    BY <1>2, <1>3
<1>5. p \in Paid /\ p.refunded = rest /\ p.recovered = paid[e].recovered
    BY <1>1, <1>4 DEF Paid
<1>6. x.released + rest = x.amount - x.fee
    BY <1>2
<1> HIDE DEF x, p, rest
<1>7. GoodDeposit(x, disputes[e], p, e \in challenged')
    BY <1>2, <1>3, <1>4, <1>5, <1>6 DEF EscrowInv, Good, GoodDeposit
<1> QED
    BY <1>1, <1>2, <1>3, <1>5, <1>7, OneDeposit

LEMMA RecoverKeeps ==
    ASSUME EscrowInv, NEW e \in Ids, NEW amount \in Parts, emergency_recover(e, amount),
           now' = now
    PROVE  EscrowInv'
<1> DEFINE sum == escrows[e].released + amount
           status == IF sum >= escrows[e].amount - escrows[e].fee
                     THEN "Released" ELSE escrows[e].status
           x == [escrows[e] EXCEPT !.released = sum, !.status = status]
           p == [paid[e] EXCEPT !.recovered = @ + amount]
<1>1. escrows[e] \in Escrow /\ disputes[e] \in Dispute /\ paid[e] \in Paid
      /\ amount \in Nat /\ amount > 0
    BY EscrowAt, EscrowAssumption DEF EscrowInv
<1>2. sum \in Nat /\ status \in {"Pending", "Challenged", "Released", "Refunded"}
    BY <1>1 DEF Escrow
<1>3. /\ escrows' = [escrows EXCEPT ![e] = x] /\ disputes' = [disputes EXCEPT ![e] = disputes[e]]
      /\ paid' = [paid EXCEPT ![e] = p] /\ challenged' = challenged
      /\ UNCHANGED <<now, board, feeBps, emergency, accrued, collected>>
      /\ sum <= escrows[e].amount
    <2>1. escrows' = [escrows EXCEPT ![e] = x]
        BY DEF emergency_recover, EscrowInv, EscrowTypeOK, Total
    <2>2. paid' = [paid EXCEPT ![e] = p]
        BY DEF emergency_recover
    <2>3. disputes' = [disputes EXCEPT ![e] = disputes[e]]
        BY DEF emergency_recover, EscrowInv, EscrowTypeOK
    <2> QED
        BY <2>1, <2>2, <2>3 DEF emergency_recover
<1> HIDE DEF sum, status
<1>4. /\ x \in Escrow /\ x.amount = escrows[e].amount /\ x.fee = escrows[e].fee
      /\ x.released = sum
    BY <1>1, <1>2 DEF Escrow
<1>5. p \in Paid /\ p.recovered # 0
    BY <1>1 DEF Paid
<1> HIDE DEF x, p
<1>6. GoodDeposit(x, disputes[e], p, e \in challenged')
    BY <1>3, <1>4, <1>5 DEF EscrowInv, Good, GoodDeposit
<1> QED
    BY <1>1, <1>3, <1>4, <1>5, <1>6, OneDeposit

\* A vote: the dispute is opened by it or goes on.
LEMMA OpenedIs ==
    ASSUME EscrowInv, NEW e \in Ids, NEW free \in BOOLEAN
    PROVE  /\ Opened(e, free) \in Dispute
           /\ ~Opened(e, free).resolved => ~disputes[e].resolved
<1>1. disputes[e] \in Dispute /\ board.threshold \in Nat
    <2>1. IsFiniteSet(Approver) /\ Cardinality(Approver) \in Nat
        BY EscrowAssumption, FS_CardinalityType
    <2> QED
        BY <2>1, EscrowAt DEF EscrowInv, EscrowTypeOK, Boards
<1>2. CASE disputes[e] = NoDispute
    <2> DEFINE d == [NoDispute EXCEPT !.release = free, !.required = board.threshold]
    <2>1. Opened(e, free) = d
        BY <1>2 DEF Opened
    <2>2. d \in Dispute
        BY <1>1 DEF Dispute, NoDispute
    <2>3. ~disputes[e].resolved
        BY <1>2 DEF NoDispute
    <2> QED
        BY <2>1, <2>2, <2>3
<1>3. CASE disputes[e] # NoDispute
    BY <1>1, <1>3 DEF Opened
<1> QED
    BY <1>2, <1>3

LEMMA ResolveKeeps ==
    ASSUME EscrowInv, NEW a \in Approver, NEW e \in Ids, NEW free \in BOOLEAN,
           resolve_challenge(a, e, free), now' = now
    PROVE  EscrowInv'
<1> DEFINE opened == Opened(e, free)
           votes == opened.approvals \cup {a}
           resolved == Cardinality(votes) >= opened.required
           d == [opened EXCEPT !.approvals = votes, !.resolved = resolved]
           status == IF resolved /\ free THEN "Pending" ELSE escrows[e].status
           x == [escrows[e] EXCEPT !.status = status]
<1>1. escrows[e] \in Escrow /\ disputes[e] \in Dispute /\ paid[e] \in Paid
      /\ opened \in Dispute
    BY EscrowAt, OpenedIs DEF EscrowInv
<1>2. /\ escrows' = [escrows EXCEPT ![e] = x] /\ disputes' = [disputes EXCEPT ![e] = d]
      /\ paid' = [paid EXCEPT ![e] = paid[e]] /\ challenged' = challenged
      /\ UNCHANGED <<now, board, feeBps, emergency, accrued, collected>>
      /\ escrows[e].status = "Challenged"
      /\ ~opened.resolved /\ opened.release = free
    <2>1. escrows' = [escrows EXCEPT ![e] = x]
        BY DEF resolve_challenge
    <2>2. paid' = [paid EXCEPT ![e] = paid[e]]
        BY DEF resolve_challenge, EscrowInv, EscrowTypeOK
    <2> QED
        BY <2>1, <2>2 DEF resolve_challenge
<1> HIDE DEF opened
<1>3. votes \subseteq Approver /\ resolved \in BOOLEAN
    BY <1>1 DEF Dispute
<1>4. ~disputes[e].resolved
    BY <1>2, OpenedIs DEF opened
<1> HIDE DEF votes
<1>5. d \in Dispute /\ d.approvals = votes /\ d.resolved = resolved
      /\ d.required = opened.required
    <2> HIDE DEF resolved
    <2> QED
        BY <1>1, <1>3 DEF Dispute
<1>6. status \in {"Pending", "Challenged"} /\ (status = "Pending" => resolved)
    BY <1>2
<1> HIDE DEF status
<1>7. /\ x \in Escrow /\ x.amount = escrows[e].amount /\ x.fee = escrows[e].fee
      /\ x.released = escrows[e].released /\ x.status = status
    BY <1>1, <1>6 DEF Escrow
<1>8. d.resolved => Cardinality(d.approvals) >= d.required
    BY <1>5
<1> HIDE DEF x, d
<1>9. GoodDeposit(x, d, paid[e], e \in challenged')
    <2>1. GoodDeposit(escrows[e], disputes[e], paid[e], e \in challenged)
        BY DEF EscrowInv, Good
    <2>2. x.status \notin {"Released", "Refunded"}
        BY <1>6, <1>7
    <2>3. x.status # "Challenged" => d.resolved
        BY <1>5, <1>6, <1>7
    <2> HIDE DEF resolved
    <2> QED
        BY <1>2, <1>7, <1>8, <2>1, <2>2, <2>3 DEF GoodDeposit
<1> QED
    BY <1>1, <1>2, <1>5, <1>7, <1>9, OneDeposit

\* A batch of releases changes every deposit it names.
LEMMA ReleaseKeeps ==
    ASSUME EscrowInv, NEW times \in [Ids -> 0..2], NEW amount \in Parts,
           release(times, amount), now' = now
    PROVE  EscrowInv'
<1> DEFINE sum(e) == escrows[e].released + times[e] * amount
           status(e) == IF times[e] > 0 /\ sum(e) = Total(e) THEN "Released"
                        ELSE escrows[e].status
           x(e) == [escrows[e] EXCEPT !.released = sum(e), !.status = status(e)]
<1>1. /\ escrows' = [e \in Ids |-> x(e)]
      /\ UNCHANGED <<now, disputes, challenged, board, feeBps, emergency, accrued,
                     collected, paid>>
      /\ EscrowTypeOK
    BY DEF release, EscrowInv
<1>2. ASSUME NEW e \in Ids
      PROVE  x(e) \in Escrow /\ x(e).fee = escrows[e].fee
             /\ GoodDeposit(x(e), disputes[e], paid[e], e \in challenged)
    <2>1. escrows[e] \in Escrow /\ disputes[e] \in Dispute /\ paid[e] \in Paid
        BY <1>1, EscrowAt
    <2>2. times[e] * amount \in Nat /\ (times[e] = 0 => times[e] * amount = 0)
        BY EscrowAssumption
    <2> DEFINE more == times[e] * amount
    <2>3. times[e] > 0 => /\ escrows[e].status = "Pending" /\ escrows[e].verified
                          /\ more <= escrows[e].amount - escrows[e].fee - escrows[e].released
        BY DEF release, Total
    <2>4. ~(times[e] > 0) => more = 0
        BY <2>2
    <2>5. sum(e) = escrows[e].released + more
        OBVIOUS
    <2>6. /\ escrows[e].released \in Nat /\ escrows[e].fee \in Nat /\ escrows[e].amount \in Nat
          /\ paid[e].refunded \in Nat /\ paid[e].recovered \in Nat
        BY <1>1, DepositNumbers
    <2> HIDE DEF more
    <2>7. sum(e) \in Nat
        BY <2>2, <2>5, <2>6 DEF more
    <2>8. status(e) \in {"Pending", "Challenged", "Released", "Refunded"}
        BY <2>1 DEF Escrow
    <2>9. GoodDeposit(escrows[e], disputes[e], paid[e], e \in challenged)
        BY DEF EscrowInv, Good
    <2>10. CASE times[e] > 0
        <3>1. status(e) = IF sum(e) = escrows[e].amount - escrows[e].fee
                          THEN "Released" ELSE "Pending"
            BY <2>3, <2>10 DEF Total
        <3> HIDE DEF sum, status
        <3>2. /\ x(e) \in Escrow /\ x(e).amount = escrows[e].amount
              /\ x(e).fee = escrows[e].fee /\ x(e).released = sum(e) /\ x(e).status = status(e)
            BY <2>1, <2>7, <2>8 DEF Escrow
        <3> HIDE DEF x
        <3>3. sum(e) <= escrows[e].amount - escrows[e].fee
            BY <2>2, <2>3, <2>5, <2>6, <2>10 DEF more
        <3> QED
            BY <2>3, <2>6, <2>7, <2>9, <2>10, <3>1, <3>2, <3>3 DEF GoodDeposit
    <2>11. CASE ~(times[e] > 0)
        <3>1. sum(e) = escrows[e].released /\ status(e) = escrows[e].status
            BY <2>4, <2>5, <2>6, <2>11
        <3> HIDE DEF sum, status
        <3>2. x(e) = escrows[e]
            BY <2>1, <3>1 DEF Escrow
        <3> QED
            BY <2>1, <2>9, <3>2
    <2> QED
        BY <2>10, <2>11
<1> HIDE DEF x
<1>3. escrows' \in Seq(Escrow) /\ Len(escrows') = Len(escrows)
      /\ \A e \in Ids : escrows'[e] = x(e)
    <2>1. Ids = 1..Len(escrows) /\ Len(escrows) \in Nat
        BY <1>1 DEF EscrowTypeOK, Ids
    <2> QED
        BY <1>1, <1>2, <2>1
<1>4. \A e \in Ids : escrows'[e].fee = escrows[e].fee /\ Good(e)'
    BY <1>1, <1>2, <1>3 DEF Good
<1> QED
    BY <1>1, <1>3, <1>4, SameDeposits DEF EscrowTypeOK, EscrowInv, Paid

\* The fee of a rate of at most a fifth is less than the deposit.
FeeOf(amount, bps) == (amount * bps) \div 10000

LEMMA FeeIsPart ==
    ASSUME NEW amount \in Nat \ {0}, NEW bps \in Nat, bps <= 2000
    PROVE  FeeOf(amount, bps) \in Nat /\ FeeOf(amount, bps) < amount
<1> DEFINE n == amount * bps
<1>1. n \in Nat /\ n <= amount * 2000
    OBVIOUS
<1> HIDE DEF n
<1>2. n \div 10000 \in Nat /\ n \div 10000 < amount
    BY <1>1
<1> QED
    BY <1>2 DEF n, FeeOf

\* A new deposit adds its fee to what can be collected.
LEMMA CreateKeeps ==
    ASSUME EscrowInv, NEW amount \in Amounts, NEW secs \in LockSecs,
           create_escrow(amount, secs), now' = now
    PROVE  EscrowInv'
<1> DEFINE fee == (amount * feeBps) \div 10000
           x == [amount |-> amount, fee |-> fee, released |-> 0, lockUntil |-> now + secs,
                 status |-> "Pending", verified |-> FALSE]
           p == [refunded |-> 0, recovered |-> 0]
           new == Len(escrows) + 1
<1>1. /\ EscrowTypeOK /\ now \in Nat /\ secs \in Nat /\ amount \in Nat \ {0}
      /\ accrued \in Nat /\ collected \in Nat
    BY EscrowAssumption DEF EscrowInv, EscrowTypeOK
<1>2. fee \in Nat /\ fee < amount
    <2>1. feeBps \in 0..2000
        BY <1>1, EscrowAssumption DEF EscrowTypeOK
    <2>2. amount \in Nat \ {0}
        BY <1>1
    <2>3. fee = FeeOf(amount, feeBps)
        BY DEF FeeOf
    <2>4. feeBps \in Nat /\ feeBps <= 2000
        BY <2>1
    <2> HIDE DEF fee
    <2> QED
        BY <2>2, <2>3, <2>4, FeeIsPart
<1>3. /\ escrows' = Append(escrows, x) /\ disputes' = Append(disputes, NoDispute)
      /\ paid' = Append(paid, p) /\ accrued' = accrued + fee
      /\ UNCHANGED <<now, challenged, board, feeBps, emergency, collected>>
    BY DEF create_escrow
<1> HIDE DEF fee
<1>4. x \in Escrow /\ NoDispute \in Dispute /\ p \in Paid
    BY <1>1, <1>2 DEF Escrow, Dispute, NoDispute, Paid
<1>5. GoodDeposit(x, NoDispute, p, FALSE) /\ x.fee = fee
    BY <1>1, <1>2 DEF GoodDeposit, NoDispute
<1> HIDE DEF x, p
<1>6. /\ escrows' \in Seq(Escrow) /\ Len(escrows') = new /\ escrows'[new] = x
      /\ \A e \in Ids : escrows'[e] = escrows[e]
      /\ Ids' = Ids \cup {new} /\ new \notin Ids
    BY <1>1, <1>3, <1>4 DEF EscrowTypeOK, Ids
<1>7. /\ disputes' \in Seq(Dispute) /\ Len(disputes') = new /\ disputes'[new] = NoDispute
      /\ \A e \in Ids : disputes'[e] = disputes[e]
    BY <1>1, <1>3, <1>4 DEF EscrowTypeOK, Ids
<1>8. /\ paid' \in Seq(Paid) /\ Len(paid') = new /\ paid'[new] = p
      /\ \A e \in Ids : paid'[e] = paid[e]
    BY <1>1, <1>3, <1>4 DEF EscrowTypeOK, Ids, Paid
<1>9. EscrowTypeOK'
    BY <1>1, <1>2, <1>3, <1>6, <1>7, <1>8 DEF EscrowTypeOK, Paid
<1> HIDE DEF new
<1>10. ASSUME NEW e \in Ids' PROVE Good(e)'
    <2>1. CASE e = new
        <3>1. e \notin challenged'
            BY <1>1, <1>3, <1>6, <2>1 DEF EscrowTypeOK
        <3> QED
            BY <1>5, <1>6, <1>7, <1>8, <2>1, <3>1 DEF Good, GoodDeposit
    <2>2. CASE e \in Ids
        BY <1>3, <1>6, <1>7, <1>8, <2>2 DEF Good, EscrowInv
    <2> QED
        BY <1>6, <2>1, <2>2
<1>11. FeesBalance'
    <2> DEFINE h == Fees'
    <2>1. h[new] = fee /\ \A e \in Ids : h[e] = Fees[e]
        BY <1>5, <1>6 DEF Fees
    <2>2. DOMAIN h = Ids \cup {new} /\ DOMAIN Fees = Ids
        BY <1>6 DEF Fees
    <2>3. IsFiniteSet(Ids) /\ \A e \in Ids : Fees[e] \in Int
        BY <1>1, FeesFinite
    <2> HIDE DEF h
    <2>4. SumFunctionOnSet(h, Ids \cup {new}) = SumFunctionOnSet(Fees, Ids) + fee
        BY <1>2, <1>6, <2>1, <2>3, SumExtend
    <2>5. accrued + collected = SumFunctionOnSet(Fees, Ids)
        BY <2>2 DEF EscrowInv, FeesBalance, SumFunction, Fees
    <2>6. (accrued + collected)' = SumFunctionOnSet(h, Ids \cup {new})
        BY <1>1, <1>2, <1>3, <2>4, <2>5
    <2> QED
        BY <2>2, <2>6 DEF FeesBalance, SumFunction, Fees, h
<1> QED
    BY <1>1, <1>3, <1>9, <1>10, <1>11 DEF EscrowInv

LEMMA EscrowStep == EscrowInv /\ EscrowAct => EscrowInv'
<1> SUFFICES ASSUME EscrowInv, EscrowAct PROVE EscrowInv'
    OBVIOUS
<1>0. /\ now \in Nat /\ board \in Boards /\ feeBps \in FeeRates /\ emergency \in BOOLEAN
      /\ accrued \in Nat /\ collected \in Nat
    BY DEF EscrowInv, EscrowTypeOK
<1>1. CASE Tick /\ UNCHANGED escrowVars
    BY <1>0, <1>1, SettingsKeep DEF Tick, escrowVars
<1>2. CASE UNCHANGED <<now, escrowVars>>
    BY <1>0, <1>2, SettingsKeep DEF escrowVars
<1>3. ASSUME NEW bps \in FeeRates, set_fee_config(bps), now' = now PROVE EscrowInv'
    BY <1>0, <1>3, SettingsKeep DEF set_fee_config
<1>4. ASSUME NEW b \in Boards, set_approvers(b), now' = now PROVE EscrowInv'
    BY <1>0, <1>4, SettingsKeep DEF set_approvers
<1>5. ASSUME NEW on \in BOOLEAN, set_emergency_pause(on), now' = now PROVE EscrowInv'
    BY <1>0, <1>5, SettingsKeep DEF set_emergency_pause
<1>6. ASSUME NEW amount \in 1..accrued + 1, collect_fees(amount), now' = now
      PROVE  EscrowInv'
    <2>1. accrued' \in Nat /\ collected' \in Nat
          /\ accrued' + collected' = accrued + collected
        BY <1>0, <1>6 DEF collect_fees
    <2> QED
        BY <1>0, <1>6, <2>1, SettingsKeep DEF collect_fees
<1>7. ASSUME NEW times \in [Ids -> 0..2], NEW amount \in Parts, release(times, amount),
             now' = now
      PROVE  EscrowInv'
    BY <1>7, ReleaseKeeps
<1>8. ASSUME NEW e \in Ids, now' = now,
             \/ \E secs \in LockSecs : extend_lock(e, secs)
             \/ \E verified \in BOOLEAN : sync_verification(e, verified)
             \/ challenge_escrow(e)
             \/ \E a \in Approver, free \in BOOLEAN : resolve_challenge(a, e, free)
             \/ refund_escrow(e)
             \/ \E amount \in Parts : emergency_recover(e, amount)
      PROVE  EscrowInv'
    BY <1>8, ExtendKeeps, VerifyKeeps, ChallengeKeeps, ResolveKeeps, RefundKeeps, RecoverKeeps
<1>9. ASSUME NEW amount \in Amounts, NEW secs \in LockSecs, create_escrow(amount, secs),
             now' = now
      PROVE  EscrowInv'
    BY <1>9, CreateKeeps
<1> QED
    BY <1>1, <1>2, <1>3, <1>4, <1>5, <1>6, <1>7, <1>8, <1>9 DEF EscrowAct, EscrowNext

LEMMA EscrowInitial == ClockInit /\ EscrowInit => EscrowInv
<1> SUFFICES ASSUME ClockInit, EscrowInit PROVE EscrowInv
    OBVIOUS
<1>1. now \in Nat /\ accrued = 0 /\ collected = 0
    BY DEF ClockInit, EscrowInit
<1>2. EscrowTypeOK /\ Ids = {}
    <2>1. Len(escrows) = 0 /\ Len(disputes) = 0 /\ Len(paid) = 0
          /\ Ids = {} /\ challenged = {}
        BY DEF EscrowInit, Ids
    <2>2. escrows \in Seq(Escrow) /\ disputes \in Seq(Dispute) /\ paid \in Seq(Paid)
        BY DEF EscrowInit
    <2>3. board \in Boards /\ feeBps \in FeeRates /\ emergency \in BOOLEAN
        BY DEF EscrowInit
    <2> QED
        BY <1>1, <2>1, <2>2, <2>3 DEF EscrowTypeOK, Paid
<1>3. FeesBalance
    BY <1>1, <1>2, SumEmpty DEF FeesBalance, SumFunction
<1> QED
    BY <1>1, <1>2, <1>3 DEF EscrowInv

\* The books of the escrows are sound, for any number of deposits, approvers
\* and fee rates up to a fifth.
THEOREM EscrowSoundHolds == EscrowSpec => []EscrowSound
BY EscrowInitial, EscrowStep, EscrowInvSound, PTL DEF EscrowSpec, EscrowAct

\* What a step may do to a dispute that was opened.
VoteStands(e) ==
    disputes[e] # NoDispute =>
        /\ disputes'[e].release = disputes[e].release
        /\ disputes'[e].required = disputes[e].required
        /\ disputes[e].approvals \subseteq disputes'[e].approvals
        /\ disputes[e].resolved => disputes'[e] = disputes[e]

LEMMA ResolveStands ==
    ASSUME EscrowInv, NEW a \in Approver, NEW e \in Ids, NEW free \in BOOLEAN,
           resolve_challenge(a, e, free), NEW i \in Ids
    PROVE  VoteStands(i)
<1>1. disputes \in Seq(Dispute) /\ e \in DOMAIN disputes /\ i \in DOMAIN disputes
      /\ disputes[e] \in Dispute
    BY EscrowAt DEF EscrowInv, EscrowTypeOK
<1>2. CASE i # e
    BY <1>1, <1>2 DEF VoteStands, resolve_challenge
<1>3. CASE i = e /\ disputes[e] # NoDispute
    <2> DEFINE votes == disputes[e].approvals \cup {a}
               resolved == Cardinality(votes) >= disputes[e].required
               d == [disputes[e] EXCEPT !.approvals = votes, !.resolved = resolved]
    <2>1. Opened(e, free) = disputes[e]
        BY <1>3 DEF Opened
    <2>2. disputes' = [disputes EXCEPT ![e] = d] /\ ~disputes[e].resolved
        BY <2>1 DEF resolve_challenge
    <2> HIDE DEF resolved
    <2>3. d.release = disputes[e].release /\ d.required = disputes[e].required
          /\ disputes[e].approvals \subseteq d.approvals
        BY <1>1 DEF Dispute
    <2> HIDE DEF d
    <2> QED
        BY <1>1, <1>3, <2>2, <2>3 DEF VoteStands
<1> QED
    BY <1>2, <1>3 DEF VoteStands

LEMMA VotesStandStep ==
    ASSUME EscrowInv, EscrowAct, NEW i \in Ids
    PROVE  VoteStands(i)
<1>1. CASE disputes' = disputes
    BY <1>1 DEF VoteStands
<1>2. CASE disputes' = Append(disputes, NoDispute)
    <2>1. disputes'[i] = disputes[i]
        BY <1>2, EscrowAt DEF EscrowInv, EscrowTypeOK
    <2> QED
        BY <2>1 DEF VoteStands
<1>3. CASE \E a \in Approver, e \in Ids, free \in BOOLEAN : resolve_challenge(a, e, free)
    BY <1>3, ResolveStands
<1>4. ASSUME NEW e \in Ids,
             \/ \E secs \in LockSecs : extend_lock(e, secs)
             \/ \E verified \in BOOLEAN : sync_verification(e, verified)
             \/ challenge_escrow(e) \/ refund_escrow(e)
             \/ \E amount \in Parts : emergency_recover(e, amount)
      PROVE  disputes' = disputes
    BY <1>4 DEF extend_lock, sync_verification, challenge_escrow, refund_escrow,
                emergency_recover
<1>5. ASSUME \/ \E bps \in FeeRates : set_fee_config(bps)
             \/ \E b \in Boards : set_approvers(b)
             \/ \E on \in BOOLEAN : set_emergency_pause(on)
             \/ \E times \in [Ids -> 0..2], amount \in Parts : release(times, amount)
             \/ \E amount \in 1..accrued + 1 : collect_fees(amount)
             \/ UNCHANGED escrowVars
      PROVE  disputes' = disputes
    BY <1>5 DEF escrowVars, set_fee_config, set_approvers, set_emergency_pause, release,
                collect_fees
<1>6. ASSUME NEW amount \in Amounts, NEW secs \in LockSecs, create_escrow(amount, secs)
      PROVE  disputes' = Append(disputes, NoDispute)
    BY <1>6 DEF create_escrow
<1>7. UNCHANGED <<now, escrowVars>> => UNCHANGED escrowVars
    OBVIOUS
<1> QED
    BY <1>1, <1>2, <1>3, <1>4, <1>5, <1>6, <1>7 DEF EscrowAct, EscrowNext

\* No vote is lost or changes sides and no decision is taken back, whatever
\* the admin does to the approvers between two votes.
THEOREM VotesStandHolds == EscrowSpec => VotesStand
<1>1. EscrowInv /\ EscrowAct =>
          [\A e \in Ids : disputes[e] # NoDispute =>
              /\ disputes'[e].release = disputes[e].release
              /\ disputes'[e].required = disputes[e].required
              /\ disputes[e].approvals \subseteq disputes'[e].approvals
              /\ disputes[e].resolved => disputes'[e] = disputes[e]]_escrowVars
    BY VotesStandStep DEF VoteStands
<1> QED
    BY <1>1, EscrowInitial, EscrowStep, PTL DEF EscrowSpec, EscrowAct, VotesStand

-----------------------------------------------------------------------------
(***************************************************************************)
(* The recovery of funds in an emergency.                                  *)
(***************************************************************************)

RecoveryAct == [RecoveryNext \/ (Tick /\ UNCHANGED recoveryVars)]_<<now, recoveryVars>>

\* All that a decision depends on.
RecoveryInv ==
    /\ now \in Nat /\ recoverySeq \in Nat /\ timelock \in Timelocks
    /\ recoveries \in Seq(Recovery) /\ Len(recoveries) <= MaxRecoveries

AmountsOf == [r \in DOMAIN recoveries |-> recoveries[r].amount]
Executed == {r \in DOMAIN recoveries : recoveries[r].status = "Executed"}
SumExecuted == SumFunctionOnSet(AmountsOf, Executed)

\* QuorumDecision counts with the same Cardinality.
LEMMA SameCardinality == \A S : OneDecision!Cardinality(S) = Cardinality(S)
BY DEF OneDecision!Cardinality, Cardinality

StageOf(r) ==
    CASE r.status = "Pending" -> "open"
      [] r.status = "Approved" -> "approved"
      [] r.status = "Executed" -> "done"
      [] OTHER -> "off"

LEMMA StageAndVotes ==
    ASSUME NEW i \in 1..MaxRecoveries
    PROVE  /\ RecoveryStage[i]
                = IF i \in DOMAIN recoveries THEN StageOf(recoveries[i]) ELSE "none"
           /\ RecoveryVotes[i] = IF i \in DOMAIN recoveries THEN recoveries[i].approvals ELSE {}
BY DEF RecoveryStage, RecoveryVotes, StageOf

LEMMA StageAndVotesPrimed ==
    ASSUME NEW i \in 1..MaxRecoveries
    PROVE  /\ RecoveryStage'[i]
                = IF i \in DOMAIN recoveries' THEN StageOf(recoveries'[i]) ELSE "none"
           /\ RecoveryVotes'[i]
                = IF i \in DOMAIN recoveries' THEN recoveries'[i].approvals ELSE {}
BY DEF RecoveryStage, RecoveryVotes, StageOf

\* A recovery that is the same before and after rests.
LEMMA SameRests ==
    ASSUME NEW i \in 1..MaxRecoveries,
           i \in DOMAIN recoveries <=> i \in DOMAIN recoveries',
           i \in DOMAIN recoveries => recoveries'[i] = recoveries[i]
    PROVE  OneDecision!Decide(i)
BY StageAndVotes, StageAndVotesPrimed DEF OneDecision!Decide, OneDecision!Rest

\* A recovery r that becomes new, in a step that touches no other.
LEMMA Becomes ==
    ASSUME RecoveryInv, NEW r \in DOMAIN recoveries, NEW new \in Recovery,
           recoveries' = [recoveries EXCEPT ![r] = new]
    PROVE  /\ recoveries' \in Seq(Recovery) /\ Len(recoveries') = Len(recoveries)
           /\ r \in 1..MaxRecoveries
           /\ RecoveryStage[r] = StageOf(recoveries[r])
           /\ RecoveryVotes[r] = recoveries[r].approvals
           /\ RecoveryStage'[r] = StageOf(new) /\ RecoveryVotes'[r] = new.approvals
           /\ \A i \in 1..MaxRecoveries : i # r => OneDecision!Decide(i)
<1>1. recoveries \in Seq(Recovery) /\ Len(recoveries) <= MaxRecoveries
  BY DEF RecoveryInv
<1>2. /\ recoveries' \in Seq(Recovery) /\ Len(recoveries') = Len(recoveries)
      /\ DOMAIN recoveries' = DOMAIN recoveries /\ recoveries'[r] = new
      /\ \A i \in DOMAIN recoveries : i # r => recoveries'[i] = recoveries[i]
  BY <1>1
<1>3. r \in 1..MaxRecoveries
  BY <1>1, RecoveryAssumption
<1> QED
  BY <1>2, <1>3, StageAndVotes, StageAndVotesPrimed, SameRests

LEMMA InitiateKeeps ==
    ASSUME RecoveryInv, NEW u \in User, NEW amount \in RecoveryAmounts,
           initiate_recovery(u, amount)
    PROVE  /\ recoveries' \in Seq(Recovery) /\ Len(recoveries') <= MaxRecoveries
           /\ \A i \in 1..MaxRecoveries : OneDecision!Decide(i)
<1> DEFINE r == [id |-> recoverySeq + 1, amount |-> amount, until |-> now + timelock,
                 approvals |-> {}, status |-> "Pending"]
           new == Len(recoveries) + 1
<1>1. recoveries \in Seq(Recovery) /\ Len(recoveries) < MaxRecoveries
      /\ recoveries' = Append(recoveries, r)
  BY DEF RecoveryInv, initiate_recovery
<1>2. r \in Recovery /\ r.status = "Pending" /\ r.approvals = {}
  <2>1. recoverySeq + 1 \in Nat /\ now + timelock \in Nat
    BY RecoveryAssumption DEF RecoveryInv
  <2> QED
    BY <2>1 DEF Recovery
<1> HIDE DEF r
<1>3. /\ recoveries' \in Seq(Recovery) /\ Len(recoveries') = new
      /\ recoveries'[new] = r /\ new \in DOMAIN recoveries' /\ new \notin DOMAIN recoveries
      /\ \A i \in DOMAIN recoveries : i \in DOMAIN recoveries' /\ recoveries'[i] = recoveries[i]
      /\ \A i \in DOMAIN recoveries' : i \in DOMAIN recoveries \/ i = new
  BY <1>1, <1>2
<1>4. new \in 1..MaxRecoveries
  BY <1>1, RecoveryAssumption
<1> HIDE DEF new
<1>5. OneDecision!Propose(new)
  BY <1>2, <1>3, <1>4, StageAndVotes, StageAndVotesPrimed DEF OneDecision!Propose, StageOf
<1>6. ASSUME NEW i \in 1..MaxRecoveries, i # new PROVE OneDecision!Decide(i)
  BY <1>3, <1>6, SameRests
<1>7. Len(recoveries') <= MaxRecoveries
  BY <1>3, <1>4
<1> QED
  BY <1>3, <1>5, <1>6, <1>7 DEF OneDecision!Decide

LEMMA ApproveKeeps ==
    ASSUME RecoveryInv, NEW u \in User, NEW r \in DOMAIN recoveries, approve_recovery(u, r)
    PROVE  /\ recoveries' \in Seq(Recovery) /\ Len(recoveries') <= MaxRecoveries
           /\ \A i \in 1..MaxRecoveries : OneDecision!Decide(i)
<1> DEFINE approvals == recoveries[r].approvals \cup {u}
           new == [recoveries[r] EXCEPT !.approvals = approvals, !.status = "Approved"]
<1>1. recoveries[r] \in Recovery
  BY DEF RecoveryInv
<1>2. recoveries[r].status = "Pending" /\ u \notin recoveries[r].approvals
  BY DEF approve_recovery
<1>3. Cardinality(approvals) \in Nat /\ Cardinality(approvals) >= 1
  <2>1. IsFiniteSet(recoveries[r].approvals)
    BY <1>1, RecoveryAssumption, FS_Subset DEF Recovery
  <2> QED
    <3>1. Cardinality(approvals) = Cardinality(recoveries[r].approvals) + 1
      BY <1>2, <2>1, FS_AddElement
    <3>2. Cardinality(recoveries[r].approvals) \in Nat
      BY <2>1, FS_CardinalityType
    <3> HIDE DEF approvals
    <3> QED
      BY <3>1, <3>2
<1>4. recoveries' = [recoveries EXCEPT ![r] = new]
  BY <1>3 DEF approve_recovery, RequiredApprovals, RecoveryInv
<1>5. new \in Recovery /\ new.status = "Approved" /\ new.approvals = approvals
  BY <1>1 DEF Recovery
<1> HIDE DEF new
<1>6. /\ RecoveryStage[r] = "open" /\ RecoveryVotes[r] = recoveries[r].approvals
      /\ RecoveryStage'[r] = "approved" /\ RecoveryVotes'[r] = approvals
  BY <1>2, <1>4, <1>5, Becomes DEF StageOf
<1>7. OneDecision!Vote(r)
  BY <1>2, <1>3, <1>6, SameCardinality DEF OneDecision!Vote, RequiredApprovals
<1>8. Len(recoveries) <= MaxRecoveries
  BY DEF RecoveryInv
<1> QED
  BY <1>4, <1>5, <1>7, <1>8, Becomes DEF OneDecision!Decide

\* A recovery that is executed or cancelled.
LEMMA EndKeeps ==
    ASSUME RecoveryInv, NEW u \in User, NEW r \in DOMAIN recoveries,
           execute_recovery(u, r) \/ cancel_recovery(u, r)
    PROVE  /\ recoveries' \in Seq(Recovery) /\ Len(recoveries') <= MaxRecoveries
           /\ \A i \in 1..MaxRecoveries : OneDecision!Decide(i)
<1> DEFINE new(status) == [recoveries[r] EXCEPT !.status = status]
<1>1. recoveries[r] \in Recovery /\ Len(recoveries) <= MaxRecoveries
  BY DEF RecoveryInv
<1>2. \A status \in {"Executed", "Cancelled"} :
         new(status) \in Recovery /\ new(status).status = status
         /\ new(status).approvals = recoveries[r].approvals
  BY <1>1 DEF Recovery
<1>3. CASE execute_recovery(u, r)
  <2>1. recoveries' = [recoveries EXCEPT ![r] = new("Executed")]
        /\ recoveries[r].status = "Approved"
    BY <1>3 DEF execute_recovery, SetStatus
  <2> HIDE DEF new
  <2>2. OneDecision!CarryOut(r)
    BY <1>2, <2>1, Becomes DEF StageOf, OneDecision!CarryOut
  <2> QED
    BY <1>1, <1>2, <2>1, <2>2, Becomes DEF OneDecision!Decide
<1>4. CASE cancel_recovery(u, r)
  <2>1. recoveries' = [recoveries EXCEPT ![r] = new("Cancelled")]
        /\ recoveries[r].status \in {"Pending", "Approved"}
    BY <1>4 DEF cancel_recovery, SetStatus
  <2> HIDE DEF new
  <2>2. OneDecision!CallOff(r)
    BY <1>2, <2>1, Becomes DEF StageOf, OneDecision!CallOff
  <2> QED
    BY <1>1, <1>2, <2>1, <2>2, Becomes DEF OneDecision!Decide
<1> QED
  BY <1>3, <1>4

LEMMA RecoveryStep ==
    ASSUME RecoveryInv, RecoveryAct
    PROVE  RecoveryInv' /\ \A i \in 1..MaxRecoveries : OneDecision!Decide(i)
<1>1. now' \in Nat /\ recoverySeq' \in Nat /\ timelock' \in Timelocks
  <2>1. CASE Tick /\ UNCHANGED recoveryVars
    BY <2>1 DEF RecoveryInv, Tick, recoveryVars
  <2>2. CASE RecoveryNext
    <3>1. now' = now
      BY <2>2 DEF RecoveryNext
    <3>2. \/ \E secs \in Timelocks : timelock' = secs /\ recoverySeq' = 0
          \/ timelock' = timelock /\ recoverySeq' \in {recoverySeq, recoverySeq + 1}
      BY <2>2
         DEF RecoveryNext, initialize_recovery, set_emergency_recovery,
             add_recovery_authorizer, initiate_recovery, approve_recovery,
             execute_recovery, cancel_recovery
    <3> QED
      BY <3>1, <3>2 DEF RecoveryInv
  <2>3. CASE UNCHANGED <<now, recoveryVars>>
    BY <2>3 DEF RecoveryInv, recoveryVars
  <2> QED
    BY <2>1, <2>2, <2>3 DEF RecoveryAct
<1>2. CASE recoveries' = recoveries
  BY <1>1, <1>2, SameRests DEF RecoveryInv
<1>3. ASSUME NEW u \in User, NEW amount \in RecoveryAmounts, initiate_recovery(u, amount)
      PROVE  RecoveryInv' /\ \A i \in 1..MaxRecoveries : OneDecision!Decide(i)
  BY <1>1, <1>3, InitiateKeeps DEF RecoveryInv
<1>4. ASSUME NEW u \in User, NEW r \in DOMAIN recoveries,
             approve_recovery(u, r) \/ execute_recovery(u, r) \/ cancel_recovery(u, r)
      PROVE  RecoveryInv' /\ \A i \in 1..MaxRecoveries : OneDecision!Decide(i)
  BY <1>1, <1>4, ApproveKeeps, EndKeeps DEF RecoveryInv
<1> QED
  BY <1>2, <1>3, <1>4
     DEF RecoveryAct, RecoveryNext, recoveryVars, initialize_recovery, set_emergency_recovery,
         add_recovery_authorizer

\* Every recovery keeps the promise of QuorumDecision, for any number of
\* users and of proposals and however often the contract is initialised again:
\* approved before it is carried out, and at most once.
THEOREM RecoveryIsDecisionHolds == RecoverySpec => RecoveryIsDecision
<1>1. ClockInit /\ RecoveryInit => RecoveryInv /\ OneDecision!DecisionInit
  BY RecoveryAssumption
     DEF ClockInit, RecoveryInit, RecoveryInv, OneDecision!DecisionInit, RecoveryStage,
         RecoveryVotes
<1>2. RecoveryInv /\ RecoveryAct => RecoveryInv'
  BY RecoveryStep
<1>3. RecoveryInv /\ RecoveryAct =>
        [\A i \in 1..MaxRecoveries : OneDecision!Decide(i)]_<<RecoveryStage, RecoveryVotes>>
  BY RecoveryStep
<1> QED
  BY <1>1, <1>2, <1>3, PTL
     DEF RecoverySpec, RecoveryAct, RecoveryIsDecision, OneDecision!DecisionSpec

\* The recoveries that are executed are finitely many, of natural amounts.
LEMMA ExecutedFinite ==
    ASSUME recoveries \in Seq(Recovery)
    PROVE  IsFiniteSet(Executed) /\ \A r \in DOMAIN recoveries : AmountsOf[r] \in Nat
<1>1. IsFiniteSet(1..Len(recoveries)) /\ DOMAIN recoveries = 1..Len(recoveries)
    BY FS_Interval
<1>2. Executed \subseteq 1..Len(recoveries)
    BY <1>1 DEF Executed
<1>3. ASSUME NEW r \in DOMAIN recoveries
      PROVE  recoveries[r].amount \in Nat
    <2>1. recoveries[r] \in Recovery
        BY <1>3
    <2> QED
        BY <2>1, RecoveryAssumption DEF Recovery
<1> QED
    BY <1>1, <1>2, <1>3, FS_Subset DEF AmountsOf

LEMMA SumExecutedType ==
    ASSUME recoveries \in Seq(Recovery)
    PROVE  SumExecuted \in Int
<1>1. \A r \in Executed : AmountsOf[r] \in Int
    BY ExecutedFinite DEF Executed
<1> QED
    BY <1>1, ExecutedFinite, SumInt DEF SumExecuted

\* No executed recovery is added or lost, and none changes its amount.
LEMMA SameExecuted ==
    ASSUME recoveries \in Seq(Recovery),
           \A r \in DOMAIN recoveries :
              /\ r \in DOMAIN recoveries'
              /\ recoveries'[r].amount = recoveries[r].amount
              /\ recoveries'[r].status = "Executed" <=> recoveries[r].status = "Executed",
           \A r \in DOMAIN recoveries' \ DOMAIN recoveries :
              recoveries'[r].status # "Executed"
    PROVE  SumExecuted' = SumExecuted
<1>1. Executed' = Executed
    BY DEF Executed
<1>2. \A r \in Executed : AmountsOf'[r] = AmountsOf[r]
    BY DEF Executed, AmountsOf
<1> QED
    BY <1>1, <1>2, ExecutedFinite, SumSame DEF SumExecuted

\* A recovery that is executed adds its amount.
LEMMA OneMoreExecuted ==
    ASSUME recoveries \in Seq(Recovery), NEW r \in DOMAIN recoveries, SetStatus(r, "Executed"),
           recoveries[r].status # "Executed"
    PROVE  SumExecuted' = SumExecuted + recoveries[r].amount
<1> DEFINE new == [recoveries[r] EXCEPT !.status = "Executed"]
<1>0. new.amount = recoveries[r].amount /\ new.status = "Executed"
    <2>1. recoveries[r] \in Recovery
        OBVIOUS
    <2> QED
        BY <2>1 DEF Recovery
<1>1. /\ DOMAIN recoveries' = DOMAIN recoveries
      /\ \A q \in DOMAIN recoveries : recoveries'[q].amount = recoveries[q].amount
      /\ recoveries'[r].status = "Executed"
      /\ \A q \in DOMAIN recoveries : q # r => recoveries'[q].status = recoveries[q].status
    <2>1. recoveries' = [recoveries EXCEPT ![r] = new]
        BY DEF SetStatus
    <2> HIDE DEF new
    <2> QED
        BY <1>0, <2>1
<1>2. Executed' = Executed \cup {r} /\ r \notin Executed
    BY <1>1 DEF Executed
<1>3. AmountsOf'[r] = recoveries[r].amount /\ recoveries[r].amount \in Nat
    BY <1>1, ExecutedFinite DEF AmountsOf
<1>4. \A q \in Executed : AmountsOf[q] \in Int /\ AmountsOf'[q] = AmountsOf[q]
    BY <1>1, ExecutedFinite DEF AmountsOf, Executed
<1> DEFINE h == AmountsOf'
<1>5. h[r] \in Int /\ \A q \in Executed : AmountsOf[q] \in Int /\ h[q] = AmountsOf[q]
    BY <1>3, <1>4
<1> HIDE DEF h
<1>6. SumFunctionOnSet(h, Executed \cup {r}) = SumFunctionOnSet(AmountsOf, Executed) + h[r]
    BY <1>2, <1>5, ExecutedFinite, SumExtend
<1> QED
    BY <1>2, <1>3, <1>6 DEF SumExecuted, h

\* What has left the contract is what the executed recoveries say.
LEMMA RecoverySoundStep ==
    ASSUME RecoveryInv, RecoverySound, RecoveryAct
    PROVE  RecoverySound'
<1> DEFINE Books == /\ balance + SumExecuted = Funds
                    /\ balance + totalRecovered = opening
           Types == /\ enabled \in BOOLEAN /\ grants \in [User -> Grants \cup {{}}]
                    /\ totalRecovered \in Nat /\ balance \in Nat /\ opening \in Nat
<1>1. RecoveredOnce <=> Books
    BY DEF RecoveredOnce, SumOfExecuted, SumExecuted, AmountsOf, Executed
<1>2. RecoveredOnce' <=> Books'
    BY DEF RecoveredOnce, SumOfExecuted, SumExecuted, AmountsOf, Executed
<1>3. /\ recoveries \in Seq(Recovery) /\ recoveries' \in Seq(Recovery)
      /\ recoverySeq' \in Nat /\ timelock' \in Timelocks
      /\ Types /\ Books
    BY <1>1, RecoveryStep DEF RecoverySound, RecoveryTypeOK, RecoveryInv
<1> SUFFICES Types' /\ Books'
    BY <1>2, <1>3 DEF RecoverySound, RecoveryTypeOK
<1>4. CASE UNCHANGED recoveryVars
    BY <1>3, <1>4, SameExecuted DEF recoveryVars
<1>5. ASSUME NEW on \in BOOLEAN, set_emergency_recovery(on)
      PROVE  Types' /\ Books'
    BY <1>3, <1>5, SameExecuted DEF set_emergency_recovery
<1>6. ASSUME NEW u \in User, NEW permissions \in Grants, add_recovery_authorizer(u, permissions)
      PROVE  Types' /\ Books'
    BY <1>3, <1>6, SameExecuted DEF add_recovery_authorizer
<1>7. ASSUME NEW u \in User, NEW amount \in RecoveryAmounts, initiate_recovery(u, amount)
      PROVE  Types' /\ Books'
    <2> DEFINE r == [id |-> recoverySeq + 1, amount |-> amount, until |-> now + timelock,
                     approvals |-> {}, status |-> "Pending"]
    <2>1. recoveries' = Append(recoveries, r) /\ r.status = "Pending"
        BY <1>7 DEF initiate_recovery
    <2> HIDE DEF r
    <2>2. SumExecuted' = SumExecuted
        BY <1>3, <2>1, SameExecuted
    <2> QED
        BY <1>3, <1>7, <2>2 DEF initiate_recovery
<1>8. ASSUME NEW u \in User, NEW r \in DOMAIN recoveries,
             approve_recovery(u, r) \/ cancel_recovery(u, r)
      PROVE  Types' /\ Books'
    <2>1. /\ DOMAIN recoveries' = DOMAIN recoveries
          /\ \A q \in DOMAIN recoveries :
                /\ recoveries'[q].amount = recoveries[q].amount
                /\ recoveries'[q].status = "Executed" <=> recoveries[q].status = "Executed"
        <3> DEFINE approvals == recoveries[r].approvals \cup {u}
                   stage == IF Cardinality(approvals) >= RequiredApprovals
                            THEN "Approved" ELSE recoveries[r].status
                   approved == [recoveries[r] EXCEPT !.approvals = approvals, !.status = stage]
                   cancelled == [recoveries[r] EXCEPT !.status = "Cancelled"]
        <3>1. recoveries[r] \in Recovery
            BY <1>3
        <3>2. cancelled.amount = recoveries[r].amount /\ cancelled.status # "Executed"
            BY <3>1 DEF Recovery
        <3>3. CASE approve_recovery(u, r)
            <4>1. recoveries[r].status = "Pending"
                  /\ recoveries' = [recoveries EXCEPT ![r] = approved]
                BY <1>3, <3>3 DEF approve_recovery
            <4>2. stage # "Executed"
                BY <4>1
            <4>3. approved.amount = recoveries[r].amount /\ approved.status # "Executed"
                <5> HIDE DEF stage, approvals
                <5> QED
                    BY <3>1, <4>2 DEF Recovery
            <4> HIDE DEF approved
            <4> QED
                BY <4>1, <4>3
        <3>4. CASE cancel_recovery(u, r)
            <4>1. recoveries[r].status # "Executed"
                  /\ recoveries' = [recoveries EXCEPT ![r] = cancelled]
                BY <1>3, <3>4 DEF cancel_recovery, SetStatus
            <4> HIDE DEF cancelled
            <4> QED
                BY <3>2, <4>1
        <3> QED
            BY <1>8, <3>3, <3>4
    <2>2. SumExecuted' = SumExecuted
        BY <1>3, <2>1, SameExecuted
    <2> QED
        BY <1>3, <1>8, <2>2 DEF approve_recovery, cancel_recovery
<1>9. ASSUME NEW u \in User, NEW r \in DOMAIN recoveries, execute_recovery(u, r)
      PROVE  Types' /\ Books'
    <2>1. SumExecuted' = SumExecuted + recoveries[r].amount
        BY <1>3, <1>9, OneMoreExecuted DEF execute_recovery
    <2>2. recoveries[r].amount \in Nat
        BY <1>3, ExecutedFinite DEF AmountsOf
    <2>3. /\ recoveries[r].amount <= balance /\ balance' = balance - recoveries[r].amount
          /\ totalRecovered' = totalRecovered + recoveries[r].amount
          /\ enabled' = enabled /\ grants' = grants /\ opening' = opening
        BY <1>9 DEF execute_recovery
    <2>4. totalRecovered' \in Nat /\ balance' \in Nat /\ Books'
        <3> DEFINE amount == recoveries[r].amount
        <3>1. amount \in Nat /\ amount <= balance /\ balance' = balance - amount
              /\ totalRecovered' = totalRecovered + amount
              /\ SumExecuted' = SumExecuted + amount
            BY <2>1, <2>2, <2>3
        <3>2. /\ totalRecovered \in Nat /\ balance \in Nat /\ Books /\ SumExecuted \in Int
              /\ opening' = opening
            BY <1>3, <2>3, SumExecutedType
        <3> HIDE DEF amount
        <3>3. totalRecovered' \in Nat /\ balance' \in Nat
            BY <3>1, <3>2
        <3>4. balance' + SumExecuted' = Funds
            BY <3>1, <3>2
        <3>5. balance' + totalRecovered' = opening'
            BY <3>1, <3>2
        <3> QED
            BY <3>3, <3>4, <3>5
    <2> QED
        BY <1>3, <2>3, <2>4
<1>10. ASSUME NEW secs \in Timelocks, initialize_recovery(secs)
       PROVE  Types' /\ Books'
    <2>1. SumExecuted' = SumExecuted
        BY <1>3, <1>10, SameExecuted DEF initialize_recovery
    <2>2. /\ enabled' \in BOOLEAN /\ grants' = grants /\ balance' = balance
          /\ totalRecovered' = 0 /\ opening' = balance
        BY <1>10 DEF initialize_recovery
    <2>3. Types'
        BY <1>3, <2>2
    <2>4. balance' + SumExecuted' = Funds
        BY <1>3, <2>1, <2>2
    <2>5. balance' + totalRecovered' = opening'
        BY <1>3, <2>2
    <2> QED
        BY <2>3, <2>4, <2>5
<1> QED
    BY <1>4, <1>5, <1>6, <1>7, <1>8, <1>9, <1>10
       DEF RecoveryAct, RecoveryNext

\* No token leaves twice or without its record, for any number of users and
\* of proposals, any funds, and however often the contract is initialised again.
THEOREM RecoverySoundHolds == RecoverySpec => []RecoverySound
<1>1. ClockInit /\ RecoveryInit => RecoveryInv /\ RecoverySound
    <2> SUFFICES ASSUME ClockInit, RecoveryInit PROVE RecoveryInv /\ RecoverySound
        OBVIOUS
    <2>1. Executed = {}
        BY DEF RecoveryInit, Executed
    <2>2. SumExecuted = 0
        BY <2>1, SumEmpty DEF SumExecuted
    <2>3. RecoveredOnce
        BY <2>2, RecoveryAssumption
           DEF RecoveryInit, RecoveredOnce, SumOfExecuted, SumExecuted, AmountsOf, Executed
    <2>4. recoveries \in Seq(Recovery) /\ Len(recoveries) = 0
        BY DEF RecoveryInit
    <2>5. grants \in [User -> Grants \cup {{}}] /\ enabled \in BOOLEAN
        BY DEF RecoveryInit
    <2>6. /\ now \in Nat /\ totalRecovered \in Nat /\ balance \in Nat /\ opening \in Nat
          /\ recoverySeq \in Nat /\ timelock \in Timelocks /\ MaxRecoveries \in Nat
        BY RecoveryAssumption DEF RecoveryInit, ClockInit
    <2>7. RecoveryInv
        BY <2>4, <2>6 DEF RecoveryInv
    <2> QED
        BY <2>3, <2>4, <2>5, <2>6, <2>7 DEF RecoverySound, RecoveryTypeOK
<1>2. RecoveryInv /\ RecoverySound /\ RecoveryAct => RecoveryInv' /\ RecoverySound'
    BY RecoveryStep, RecoverySoundStep
<1> QED
    BY <1>1, <1>2, PTL DEF RecoverySpec, RecoveryAct

-----------------------------------------------------------------------------
(***************************************************************************)
(* The insurance pool.                                                     *)
(***************************************************************************)

InsuranceAct == [InsuranceNext \/ (Tick /\ UNCHANGED insuranceVars)]_<<now, insuranceVars>>

\* What PoolSound needs to be inductive: a staker's debt is never above what
\* the stake has earned, so that what is due is not negative.
InsuranceInv ==
    /\ now \in Nat /\ Len(claims) <= MaxClaims
    /\ PoolSound
    /\ \A s \in Staker : position[s].debt <= (position[s].staked * pool.acc) \div Scale

RequestAmounts == [q \in DOMAIN requests |-> requests[q].amount]
Withdrawn == {q \in DOMAIN requests : requests[q].claimed}
SumWithdrawn == SumFunctionOnSet(RequestAmounts, Withdrawn)

ClaimAmounts == [c \in DOMAIN claims |-> claims[c].amount]
PaidClaims == {c \in DOMAIN claims : claims[c].status = "Paid"}
SumPaid == SumFunctionOnSet(ClaimAmounts, PaidClaims)

StakedSum == PositionSum("staked")
PendingSum == PositionSum("pending")
SlashedSum == PositionSum("slashed")

\* The pool's books, in these names.
Balanced ==
    /\ pool.staked = StakedSum /\ pool.queued = PendingSum
    /\ pool.total + pool.payout = pool.staked + pool.queued
    /\ staked = pool.staked + pool.queued + SumWithdrawn + SlashedSum
    /\ pool.payout = SumPaid

LEMMA BalancedIs == Balanced <=> PoolBalances /\ PayoutsAreClaims
BY DEF Balanced, PoolBalances, PayoutsAreClaims, RequestAmounts, Withdrawn, SumWithdrawn,
       ClaimAmounts, PaidClaims, SumPaid, StakedSum, PendingSum, SlashedSum

LEMMA BalancedIsPrimed == Balanced' <=> PoolBalances' /\ PayoutsAreClaims'
BY DEF Balanced, PoolBalances, PayoutsAreClaims, RequestAmounts, Withdrawn, SumWithdrawn,
       ClaimAmounts, PaidClaims, SumPaid, StakedSum, PendingSum, SlashedSum

\* The sums over the stakers, of natural numbers.
LEMMA PositionSums ==
    ASSUME position \in [Staker -> Position]
    PROVE  /\ StakedSum \in Nat /\ \A s \in Staker : position[s].staked <= StakedSum
           /\ PendingSum \in Nat /\ SlashedSum \in Nat
<1> DEFINE f == [s \in Staker |-> position[s].staked]
           g == [s \in Staker |-> position[s].pending]
           h == [s \in Staker |-> position[s].slashed]
<1>1. \A s \in Staker : f[s] = position[s].staked /\ f[s] \in Nat /\ g[s] \in Nat /\ h[s] \in Nat
    BY DEF Position
<1>2. DOMAIN f = Staker /\ DOMAIN g = Staker /\ DOMAIN h = Staker /\ IsFiniteSet(Staker)
    BY InsuranceAssumption
<1>3. StakedSum = SumFunctionOnSet(f, Staker) /\ PendingSum = SumFunctionOnSet(g, Staker)
      /\ SlashedSum = SumFunctionOnSet(h, Staker)
    BY <1>2 DEF StakedSum, PendingSum, SlashedSum, PositionSum, SumFunction
<1> HIDE DEF f, g, h
<1>4. SumFunctionOnSet(f, Staker) \in Nat /\ SumFunctionOnSet(g, Staker) \in Nat
      /\ SumFunctionOnSet(h, Staker) \in Nat
      /\ \A s \in Staker : f[s] <= SumFunctionOnSet(f, Staker)
    BY <1>1, <1>2, SumNat
<1> QED
    BY <1>1, <1>3, <1>4

\* The sums move with the one position that changes.
LEMMA OnePosition ==
    ASSUME position \in [Staker -> Position], NEW s \in Staker, NEW p \in Position,
           position' = [position EXCEPT ![s] = p]
    PROVE  /\ StakedSum' = StakedSum - position[s].staked + p.staked
           /\ PendingSum' = PendingSum - position[s].pending + p.pending
           /\ SlashedSum' = SlashedSum - position[s].slashed + p.slashed
<1> DEFINE f == [t \in Staker |-> position[t].staked]
           g == [t \in Staker |-> position[t].pending]
           h == [t \in Staker |-> position[t].slashed]
           ff == [t \in Staker |-> position'[t].staked]
           gg == [t \in Staker |-> position'[t].pending]
           hh == [t \in Staker |-> position'[t].slashed]
<1>1. \A t \in Staker : f[t] \in Int /\ g[t] \in Int /\ h[t] \in Int
    BY DEF Position
<1>2. ff[s] = p.staked /\ gg[s] = p.pending /\ hh[s] = p.slashed
      /\ ff[s] \in Int /\ gg[s] \in Int /\ hh[s] \in Int
    BY DEF Position
<1>3. \A t \in Staker \ {s} : ff[t] = f[t] /\ gg[t] = g[t] /\ hh[t] = h[t]
    OBVIOUS
<1>4. f[s] = position[s].staked /\ g[s] = position[s].pending /\ h[s] = position[s].slashed
    OBVIOUS
<1>5. /\ StakedSum = SumFunctionOnSet(f, Staker) /\ PendingSum = SumFunctionOnSet(g, Staker)
      /\ SlashedSum = SumFunctionOnSet(h, Staker)
      /\ StakedSum' = SumFunctionOnSet(ff, Staker) /\ PendingSum' = SumFunctionOnSet(gg, Staker)
      /\ SlashedSum' = SumFunctionOnSet(hh, Staker)
    BY DEF StakedSum, PendingSum, SlashedSum, PositionSum, SumFunction
<1>6. IsFiniteSet(Staker)
    BY InsuranceAssumption
<1> HIDE DEF f, g, h, ff, gg, hh
<1>7. SumFunctionOnSet(ff, Staker) = SumFunctionOnSet(f, Staker) - f[s] + ff[s]
    BY <1>1, <1>2, <1>3, <1>6, SumChange
<1>8. SumFunctionOnSet(gg, Staker) = SumFunctionOnSet(g, Staker) - g[s] + gg[s]
    BY <1>1, <1>2, <1>3, <1>6, SumChange
<1>9. SumFunctionOnSet(hh, Staker) = SumFunctionOnSet(h, Staker) - h[s] + hh[s]
    BY <1>1, <1>2, <1>3, <1>6, SumChange
<1> QED
    BY <1>2, <1>4, <1>5, <1>7, <1>8, <1>9

\* What a stake has earned is natural and grows with what a unit has earned.
LEMMA DebtGrows ==
    ASSUME NEW a \in Nat, NEW acc \in Nat, NEW more \in Nat
    PROVE  /\ (a * acc) \div Scale \in Nat
           /\ (a * acc) \div Scale <= (a * (acc + more)) \div Scale
<1> DEFINE x == a * acc
           y == a * more
<1>1. x \in Nat /\ y \in Nat /\ a * (acc + more) = x + y
    OBVIOUS
<1>2. Scale \in Nat \ {0}
    BY InsuranceAssumption
<1> HIDE DEF x, y
<1>3. x \div Scale \in Nat /\ x \div Scale <= (x + y) \div Scale
    BY <1>1, <1>2
<1> QED
    BY <1>1, <1>3 DEF x

LEMMA PoolFields ==
    ASSUME InsuranceInv
    PROVE  /\ pool \in Pool /\ position \in [Staker -> Position]
           /\ requests \in Seq(Request) /\ claims \in Seq(Claim)
           /\ council \in Councils /\ staked \in Nat /\ Balanced
           /\ pool.total \in Int /\ pool.staked \in Nat /\ pool.queued \in Nat
           /\ pool.coverage \in Nat /\ pool.acc \in Nat /\ pool.collected \in Nat
           /\ pool.payout \in Nat
BY BalancedIs DEF InsuranceInv, PoolSound, InsuranceTypeOK, Pool

LEMMA PositionFields ==
    ASSUME InsuranceInv, NEW s \in Staker
    PROVE  /\ position[s] \in Position /\ position[s].staked \in Nat
           /\ position[s].pending \in Nat /\ position[s].slashed \in Nat
           /\ position[s].debt \in Nat /\ position[s].accrued \in Nat
           /\ position[s].claimed \in Nat
BY PoolFields DEF Position

\* Syncing a stake pays it what is due, never less than nothing.
LEMMA SyncedIs ==
    ASSUME InsuranceInv, NEW s \in Staker, NEW change \in Int,
           position[s].staked + change \in Nat
    PROVE  /\ Synced(s, change) \in Position
           /\ Synced(s, change).staked = position[s].staked + change
           /\ Synced(s, change).pending = position[s].pending
           /\ Synced(s, change).slashed = position[s].slashed
           /\ Synced(s, change).debt
                 = ((position[s].staked + change) * pool.acc) \div Scale
<1> DEFINE due == (position[s].staked * pool.acc) \div Scale - position[s].debt
           earnings == position[s].accrued + due
           stake == position[s].staked + change
           debt == (stake * pool.acc) \div Scale
           p == [position[s] EXCEPT !.accrued = earnings, !.staked = stake, !.debt = debt]
<1>1. Synced(s, change) = p
    BY DEF Synced, RewardDebt
<1>2. stake \in Nat
    OBVIOUS
<1> HIDE DEF stake
<1>3. debt \in Nat
    BY <1>2, PoolFields, DebtGrows
<1>4. earnings \in Nat
    <2> DEFINE earned == (position[s].staked * pool.acc) \div Scale
    <2>1. earned \in Nat
        BY PoolFields, PositionFields, DebtGrows
    <2>2. position[s].debt <= earned
        BY DEF InsuranceInv
    <2> HIDE DEF earned
    <2>3. earned - position[s].debt \in Nat
        BY <2>1, <2>2, PositionFields
    <2>4. earnings = position[s].accrued + (earned - position[s].debt)
        BY DEF earned
    <2> QED
        BY <2>3, <2>4, PositionFields
<1> HIDE DEF debt, earnings
<1>5. /\ p \in Position /\ p.staked = stake /\ p.pending = position[s].pending
      /\ p.slashed = position[s].slashed /\ p.debt = debt
    BY <1>2, <1>3, <1>4, PositionFields DEF Position
<1> QED
    BY <1>1, <1>5 DEF stake, debt

\* The debts stay covered when one position changes and its debt is set anew.
LEMMA DebtsCovered ==
    ASSUME InsuranceInv, NEW s \in Staker, NEW p \in Position,
           position' = [position EXCEPT ![s] = p],
           p.debt = (p.staked * pool.acc) \div Scale, pool'.acc = pool.acc
    PROVE  \A t \in Staker : position'[t].debt <= (position'[t].staked * pool'.acc) \div Scale
<1> SUFFICES ASSUME NEW t \in Staker
             PROVE  position'[t].debt <= (position'[t].staked * pool'.acc) \div Scale
    OBVIOUS
<1>1. CASE t = s
    <2>1. position'[t] = p /\ p.debt \in Nat
        BY <1>1, PoolFields DEF Position
    <2> QED
        BY <2>1
<1>2. CASE t # s
    <2>1. position'[t] = position[t]
        BY <1>2, PoolFields
    <2> QED
        BY <2>1 DEF InsuranceInv
<1> QED
    BY <1>1, <1>2

-----------------------------------------------------------------------------
(* The sums over requests and claims.                                       *)

LEMMA StakesNat == \A n \in Stakes : n \in Nat \ {0}
BY InsuranceAssumption, SMTT(20)

LEMMA RatesNat ==
    /\ Scale \in Nat \ {0}
    /\ \A n \in Premiums : n \in Nat
    /\ \A n \in CoverageCaps : n \in Nat
    /\ \A n \in SlashRates : n \in Nat
<1>1. Scale \in Nat \ {0}
    BY InsuranceAssumption
<1>2. \A n \in Premiums : n \in Nat
    BY InsuranceAssumption, SMTT(30)
<1>3. CoverageCaps \subseteq 0..10000
    BY InsuranceAssumption
<1>4. SlashRates \subseteq 0..10000
    BY InsuranceAssumption
<1>5. ASSUME NEW n \in CoverageCaps PROVE n \in Nat
    <2>1. n \in 0..10000
        BY <1>3
    <2> QED
        BY <2>1
<1>6. ASSUME NEW n \in SlashRates PROVE n \in Nat
    <2>1. n \in 0..10000
        BY <1>4
    <2> QED
        BY <2>1
<1> QED
    BY <1>1, <1>2, <1>5, <1>6

LEMMA RequestsFinite ==
    ASSUME requests \in Seq(Request)
    PROVE  IsFiniteSet(Withdrawn) /\ SumWithdrawn \in Nat
           /\ \A q \in DOMAIN requests : RequestAmounts[q] = requests[q].amount
                                         /\ requests[q].amount \in Nat
<1>1. IsFiniteSet(1..Len(requests)) /\ DOMAIN requests = 1..Len(requests)
    BY FS_Interval
<1>2. Withdrawn \subseteq 1..Len(requests)
    BY <1>1 DEF Withdrawn
<1>3. IsFiniteSet(Withdrawn)
    BY <1>1, <1>2, FS_Subset
<1>4. ASSUME NEW q \in DOMAIN requests
      PROVE  requests[q].amount \in Nat
    <2>1. requests[q] \in Request
        BY <1>4
    <2>2. requests[q].amount \in Stakes
        BY <2>1 DEF Request
    <2> QED
        BY <2>2, StakesNat
<1>5. \A q \in Withdrawn : RequestAmounts[q] \in Nat
    BY <1>4 DEF Withdrawn, RequestAmounts
<1>6. SumWithdrawn \in Nat
    BY <1>3, <1>5, SumNat DEF SumWithdrawn
<1> QED
    BY <1>3, <1>4, <1>6 DEF RequestAmounts

LEMMA SameWithdrawn ==
    ASSUME requests \in Seq(Request),
           \A q \in DOMAIN requests :
              /\ q \in DOMAIN requests' /\ requests'[q].amount = requests[q].amount
              /\ requests'[q].claimed <=> requests[q].claimed,
           \A q \in DOMAIN requests' \ DOMAIN requests : ~requests'[q].claimed
    PROVE  SumWithdrawn' = SumWithdrawn
<1>1. Withdrawn' = Withdrawn
    BY DEF Withdrawn
<1>2. \A q \in Withdrawn : RequestAmounts'[q] = RequestAmounts[q]
    BY DEF Withdrawn, RequestAmounts
<1> QED
    BY <1>1, <1>2, RequestsFinite, SumSame DEF SumWithdrawn

LEMMA OneMoreWithdrawn ==
    ASSUME requests \in Seq(Request), NEW q \in DOMAIN requests, ~requests[q].claimed,
           NEW new \in Request, new.amount = requests[q].amount, new.claimed,
           requests' = [requests EXCEPT ![q] = new]
    PROVE  /\ requests' \in Seq(Request)
           /\ SumWithdrawn' = SumWithdrawn + requests[q].amount
<1>3. /\ requests' \in Seq(Request) /\ DOMAIN requests' = DOMAIN requests
      /\ requests'[q] = new /\ \A i \in DOMAIN requests : i # q => requests'[i] = requests[i]
    OBVIOUS
<1>4. Withdrawn' = Withdrawn \cup {q} /\ q \notin Withdrawn
    BY <1>3 DEF Withdrawn
<1> DEFINE h == RequestAmounts'
<1>5. \A i \in DOMAIN requests : h[i] = requests[i].amount
    BY <1>3 DEF RequestAmounts
<1>6. h[q] \in Int /\ \A i \in Withdrawn : RequestAmounts[i] \in Int /\ h[i] = RequestAmounts[i]
    BY <1>5, RequestsFinite DEF Withdrawn
<1> HIDE DEF h
<1>7. SumFunctionOnSet(h, Withdrawn \cup {q}) = SumFunctionOnSet(RequestAmounts, Withdrawn) + h[q]
    BY <1>4, <1>6, RequestsFinite, SumExtend, SMTT(30)
<1> QED
    BY <1>3, <1>4, <1>5, <1>7 DEF SumWithdrawn, h

LEMMA ClaimsFinite ==
    ASSUME claims \in Seq(Claim)
    PROVE  IsFiniteSet(PaidClaims) /\ SumPaid \in Nat
           /\ \A c \in DOMAIN claims : ClaimAmounts[c] = claims[c].amount
                                       /\ claims[c].amount \in Nat \ {0}
<1>1. IsFiniteSet(1..Len(claims)) /\ DOMAIN claims = 1..Len(claims)
    BY FS_Interval
<1>2. PaidClaims \subseteq 1..Len(claims)
    BY <1>1 DEF PaidClaims
<1>3. IsFiniteSet(PaidClaims)
    BY <1>1, <1>2, FS_Subset
<1>4. ASSUME NEW c \in DOMAIN claims
      PROVE  claims[c].amount \in Nat \ {0}
    <2>1. claims[c] \in Claim
        BY <1>4
    <2>2. claims[c].amount \in Stakes
        BY <2>1 DEF Claim
    <2> QED
        BY <2>2, StakesNat
<1>5. \A c \in PaidClaims : ClaimAmounts[c] \in Nat
    BY <1>4 DEF PaidClaims, ClaimAmounts
<1>6. SumPaid \in Nat
    BY <1>3, <1>5, SumNat DEF SumPaid
<1> QED
    BY <1>3, <1>4, <1>6 DEF ClaimAmounts

LEMMA SamePaid ==
    ASSUME claims \in Seq(Claim),
           \A c \in DOMAIN claims :
              /\ c \in DOMAIN claims' /\ claims'[c].amount = claims[c].amount
              /\ claims'[c].status = "Paid" <=> claims[c].status = "Paid",
           \A c \in DOMAIN claims' \ DOMAIN claims : claims'[c].status # "Paid"
    PROVE  SumPaid' = SumPaid
<1>1. PaidClaims' = PaidClaims
    BY DEF PaidClaims
<1>2. \A c \in PaidClaims : ClaimAmounts'[c] = ClaimAmounts[c]
    BY DEF PaidClaims, ClaimAmounts
<1> QED
    BY <1>1, <1>2, ClaimsFinite, SumSame DEF SumPaid

\* One claim changes its status and perhaps its votes.
LEMMA OneClaim ==
    ASSUME claims \in Seq(Claim), NEW c \in DOMAIN claims, NEW new \in Claim,
           claims' = [claims EXCEPT ![c] = new], new.amount = claims[c].amount,
           claims[c].status # "Paid"
    PROVE  /\ claims' \in Seq(Claim) /\ Len(claims') = Len(claims)
           /\ new.status # "Paid" => SumPaid' = SumPaid
           /\ new.status = "Paid" => SumPaid' = SumPaid + claims[c].amount
<1>1. /\ claims' \in Seq(Claim) /\ Len(claims') = Len(claims) /\ DOMAIN claims' = DOMAIN claims
      /\ claims'[c] = new /\ \A i \in DOMAIN claims : i # c => claims'[i] = claims[i]
    OBVIOUS
<1>2. CASE new.status # "Paid"
    BY <1>1, <1>2, SamePaid
<1>3. CASE new.status = "Paid"
    <2>1. PaidClaims' = PaidClaims \cup {c} /\ c \notin PaidClaims
        BY <1>1, <1>3 DEF PaidClaims
    <2> DEFINE h == ClaimAmounts'
    <2>2. \A i \in DOMAIN claims : h[i] = claims[i].amount
        BY <1>1 DEF ClaimAmounts
    <2>3. h[c] \in Int /\ \A i \in PaidClaims : ClaimAmounts[i] \in Int /\ h[i] = ClaimAmounts[i]
        BY <2>2, ClaimsFinite DEF PaidClaims
    <2> HIDE DEF h
    <2>4. SumFunctionOnSet(h, PaidClaims \cup {c})
              = SumFunctionOnSet(ClaimAmounts, PaidClaims) + h[c]
        BY <2>1, <2>3, ClaimsFinite, SumExtend
    <2> QED
        BY <1>1, <1>3, <2>1, <2>2, <2>4 DEF SumPaid, h
<1> QED
    BY <1>1, <1>2, <1>3

-----------------------------------------------------------------------------
(* Every call keeps InsuranceInv.                                           *)

\* What a call does to the books: one position becomes p, its three amounts move
\* by ds, dp and dl, the sum of the withdrawals by dw and what was put in by in.
Moves(s, p, ds, dp, dl, dw, in) ==
    /\ position' = [position EXCEPT ![s] = p]
    /\ p.staked = position[s].staked + ds
    /\ p.pending = position[s].pending + dp
    /\ p.slashed = position[s].slashed + dl
    /\ p.debt = (p.staked * pool.acc) \div Scale
    /\ pool' \in Pool /\ pool'.acc = pool.acc /\ pool'.payout = pool.payout
    /\ pool'.staked = pool.staked + ds
    /\ pool'.queued = pool.queued + dp
    /\ pool'.total = pool.total + (ds + dp)
    /\ SumWithdrawn' = SumWithdrawn + dw
    /\ staked' = staked + in
    /\ requests' \in Seq(Request)
    /\ claims' \in Seq(Claim) /\ Len(claims') = Len(claims) /\ SumPaid' = SumPaid
    /\ council' = council

\* A call that moves no amount to nowhere keeps the invariant.
LEMMA PositionKeeps ==
    ASSUME InsuranceInv, now' = now, NEW s \in Staker, NEW p \in Position,
           NEW ds \in Int, NEW dp \in Int, NEW dl \in Int, NEW dw \in Int, NEW in \in Int,
           Moves(s, p, ds, dp, dl, dw, in), in = ds + dp + dl + dw, staked + in \in Nat
    PROVE  InsuranceInv'
<1>1. position' = [position EXCEPT ![s] = p]
    BY DEF Moves
<1>2. \A t \in Staker : position'[t].debt <= (position'[t].staked * pool'.acc) \div Scale
    <2>1. p.debt = (p.staked * pool.acc) \div Scale /\ pool'.acc = pool.acc
        BY DEF Moves
    <2> QED
        BY <1>1, <2>1, DebtsCovered
<1>3. position' \in [Staker -> Position]
    BY <1>1, PoolFields
<1>4. Balanced'
    <2>1. PICK a \in Int, b \in Int, c \in Int, t \in Int, ps \in Int, q \in Int, o \in Int,
               w \in Int, sa \in Int, sl \in Int :
              /\ a = position[s].staked /\ b = position[s].pending /\ c = position[s].slashed
              /\ t = pool.total /\ ps = pool.staked /\ q = pool.queued /\ o = pool.payout
              /\ w = SumWithdrawn /\ sa = staked /\ sl = SlashedSum
        <3>1. /\ position[s].staked \in Int /\ position[s].pending \in Int
              /\ position[s].slashed \in Int
            BY PositionFields
        <3>3. /\ pool.total \in Int /\ pool.staked \in Int
              /\ pool.queued \in Int /\ pool.payout \in Int /\ staked \in Int
            BY PoolFields, SMTT(20)
        <3>2. SumWithdrawn \in Int /\ SlashedSum \in Int
            BY PoolFields, PositionSums, RequestsFinite
        <3> QED
            BY <3>1, <3>2, <3>3
    <2>2. /\ ps = StakedSum /\ q = PendingSum /\ o = SumPaid
          /\ t + o = ps + q /\ sa = ps + q + w + sl
        BY <2>1, PoolFields DEF Balanced
    <2>3. /\ p.staked = a + ds /\ p.pending = b + dp /\ p.slashed = c + dl
          /\ pool'.staked = ps + ds /\ pool'.queued = q + dp /\ pool'.total = t + (ds + dp)
          /\ pool'.payout = o /\ SumWithdrawn' = w + dw /\ staked' = sa + in
        BY <2>1 DEF Moves
    <2>4. /\ StakedSum' = ps - a + (a + ds) /\ PendingSum' = q - b + (b + dp)
          /\ SlashedSum' = sl - c + (c + dl)
        BY <1>1, <2>1, <2>2, <2>3, PoolFields, OnePosition
    <2>5. /\ StakedSum' = ps + ds /\ PendingSum' = q + dp /\ SlashedSum' = sl + dl
        BY <2>4
    <2>6. (t + (ds + dp)) + o = (ps + ds) + (q + dp)
        BY <2>2
    <2>7. sa + in = (ps + ds) + (q + dp) + (w + dw) + (sl + dl)
        BY <2>2
    <2>8. SumPaid' = SumPaid
        BY DEF Moves
    <2> QED
        BY <2>2, <2>3, <2>5, <2>6, <2>7, <2>8, Zenon DEF Balanced
<1>5. staked' \in Nat /\ pool' \in Pool /\ requests' \in Seq(Request) /\ claims' \in Seq(Claim)
      /\ Len(claims') = Len(claims) /\ council' \in Councils
    BY PoolFields DEF Moves
<1> QED
    BY <1>2, <1>3, <1>4, <1>5, BalancedIsPrimed, PoolFields
       DEF InsuranceInv, PoolSound, InsuranceTypeOK

\* A call that changes no position, and the pool and the claims alike.
LEMMA ClaimsKeep ==
    ASSUME InsuranceInv, now' = now, UNCHANGED <<position, requests, staked>>,
           pool' \in Pool, claims' \in Seq(Claim), Len(claims') <= MaxClaims,
           council' \in Councils,
           pool'.staked = pool.staked, pool'.queued = pool.queued,
           NEW more \in Nat, pool'.acc = pool.acc + more,
           pool'.total + pool'.payout = pool.total + pool.payout,
           pool'.payout = SumPaid'
    PROVE  InsuranceInv'
<1>1. ASSUME NEW t \in Staker
      PROVE  position'[t].debt <= (position'[t].staked * pool'.acc) \div Scale
    <2> DEFINE earned == (position[t].staked * pool.acc) \div Scale
               earnedNow == (position[t].staked * (pool.acc + more)) \div Scale
    <2>1. earned \in Nat /\ earned <= earnedNow
        BY PoolFields, PositionFields, DebtGrows
    <2>2. earnedNow \in Nat
        <3>1. pool.acc + more \in Nat /\ position[t].staked \in Nat /\ more \in Nat
            BY PoolFields, PositionFields, SMTT(20)
        <3> QED
            BY <3>1, DebtGrows
    <2>3. position[t].debt <= earned /\ position[t].debt \in Nat
        BY PositionFields DEF InsuranceInv
    <2> HIDE DEF earned
    <2>4. position[t].debt <= earnedNow
        <3> HIDE DEF earnedNow
        <3> QED
            BY <2>1, <2>2, <2>3
    <2> QED
        BY <2>4
<1>2. Balanced'
    <2>1. StakedSum' = StakedSum /\ PendingSum' = PendingSum /\ SlashedSum' = SlashedSum
        BY DEF StakedSum, PendingSum, SlashedSum, PositionSum
    <2>2. SumWithdrawn' = SumWithdrawn
        BY DEF SumWithdrawn, RequestAmounts, Withdrawn
    <2> QED
        BY <2>1, <2>2, PoolFields DEF Balanced
<1> QED
    BY <1>1, <1>2, BalancedIsPrimed, PoolFields
       DEF InsuranceInv, PoolSound, InsuranceTypeOK

LEMMA WithPending ==
    ASSUME NEW p \in Position, NEW n \in Nat
    PROVE  LET q == [p EXCEPT !.pending = n] IN
           /\ q \in Position /\ q.staked = p.staked /\ q.pending = n
           /\ q.slashed = p.slashed /\ q.debt = p.debt
BY DEF Position

LEMMA WithSlashed ==
    ASSUME NEW p \in Position, NEW n \in Nat
    PROVE  LET q == [p EXCEPT !.slashed = n] IN
           /\ q \in Position /\ q.staked = p.staked /\ q.pending = p.pending
           /\ q.slashed = n /\ q.debt = p.debt
BY DEF Position

LEMMA PoolAsIs ==
    ASSUME NEW r \in Pool, NEW t, NEW n, NEW m
    PROVE  /\ [r EXCEPT !.total = t, !.staked = n]
                = [r EXCEPT !.total = t, !.staked = n, !.queued = r.queued]
           /\ [r EXCEPT !.staked = n, !.total = t]
                = [r EXCEPT !.total = t, !.staked = n, !.queued = r.queued]
           /\ [r EXCEPT !.staked = n, !.queued = m]
                = [r EXCEPT !.total = r.total, !.staked = n, !.queued = m]
           /\ [r EXCEPT !.total = t, !.queued = m]
                = [r EXCEPT !.total = t, !.staked = r.staked, !.queued = m]
BY DEF Pool

\* Nothing was paid or withdrawn.
LEMMA SameSums ==
    /\ requests' = requests => SumWithdrawn' = SumWithdrawn
    /\ claims' = claims => SumPaid' = SumPaid
BY DEF SumWithdrawn, SumPaid, Withdrawn, RequestAmounts, PaidClaims, ClaimAmounts

LEMMA StakeKeeps ==
    ASSUME InsuranceInv, now' = now, NEW s \in Staker, NEW amount \in Stakes,
           stake_liquidity(s, amount)
    PROVE  InsuranceInv'
<1> DEFINE p == Synced(s, amount)
           t == pool.total + amount
           n == pool.staked + amount
<1>1. amount \in Nat
    BY StakesNat
<1>2. position[s].staked + amount \in Nat
    BY <1>1, PositionFields
<1>3. /\ p \in Position /\ p.staked = position[s].staked + amount
      /\ p.pending = position[s].pending /\ p.slashed = position[s].slashed
      /\ p.debt = (p.staked * pool.acc) \div Scale
    BY <1>1, <1>2, SyncedIs
<1>4. /\ position' = [position EXCEPT ![s] = p] /\ staked' = staked + amount
      /\ requests' = requests /\ claims' = claims /\ council' = council
      /\ pool' = [pool EXCEPT !.total = t, !.staked = n]
    BY DEF stake_liquidity
<1>5. t \in Int /\ n \in Nat /\ staked + amount \in Nat /\ pool \in Pool /\ pool.queued \in Nat
    <2>1. pool.total \in Int /\ pool.staked \in Nat /\ staked \in Nat
        BY PoolFields
    <2>2. t \in Int /\ n \in Nat /\ staked + amount \in Nat
        BY <1>1, <2>1
    <2> QED
        BY <2>2, PoolFields
<1>6. t = pool.total + (amount + 0) /\ n = pool.staked + amount
      /\ pool.queued + 0 = pool.queued
    BY <1>1, PoolFields
<1> HIDE DEF p, t, n
<1>7. /\ pool' \in Pool /\ pool'.acc = pool.acc /\ pool'.payout = pool.payout
      /\ pool'.total = t /\ pool'.staked = n /\ pool'.queued = pool.queued
    <2>1. pool' = [pool EXCEPT !.total = t, !.staked = n, !.queued = pool.queued]
        BY Zenon, <1>4, <1>5, PoolAsIs
    <2> QED
        BY Zenon, <1>5, <2>1 DEF Pool
<1>8. /\ p.pending = position[s].pending + 0 /\ p.slashed = position[s].slashed + 0
      /\ SumWithdrawn' = SumWithdrawn + 0 /\ SumPaid' = SumPaid
    BY <1>3, <1>4, PositionFields, PoolFields, RequestsFinite, SameSums, SMTT(30)
<1>9. Moves(s, p, amount, 0, 0, 0, amount)
    BY <1>3, <1>4, <1>6, <1>7, <1>8, PoolFields, Zenon DEF Moves
<1>10. amount \in Int /\ 0 \in Int /\ amount = amount + 0 + 0 + 0
    BY <1>1
<1> QED
    BY <1>3, <1>5, <1>9, <1>10, PositionKeeps

LEMMA RequestKeeps ==
    ASSUME InsuranceInv, now' = now, NEW s \in Staker, NEW amount \in Stakes,
           request_withdrawal(s, amount)
    PROVE  InsuranceInv'
<1> DEFINE p0 == Synced(s, -amount)
           n == p0.pending + amount
           p == [p0 EXCEPT !.pending = n]
           new == [staker |-> s, amount |-> amount, unlock |-> now + Delay, claimed |-> FALSE]
           ps == pool.staked - amount
           q == pool.queued + amount
<1>1. amount \in Nat /\ amount <= position[s].staked
    <2>1. amount \in Nat /\ position[s].staked >= amount
        BY StakesNat DEF request_withdrawal
    <2> QED
        BY <2>1, PositionFields
<1>2. position[s].staked + (-amount) = position[s].staked - amount
      /\ position[s].staked - amount \in Nat
    BY <1>1, PositionFields
<1>3. /\ p0 \in Position /\ p0.staked = position[s].staked + (-amount)
      /\ p0.pending = position[s].pending /\ p0.slashed = position[s].slashed
      /\ p0.debt = (p0.staked * pool.acc) \div Scale
    BY <1>1, <1>2, SyncedIs
<1>4. /\ position' = [position EXCEPT ![s] = p] /\ staked' = staked
      /\ requests' = Append(requests, new) /\ claims' = claims /\ council' = council
      /\ pool' = [pool EXCEPT !.staked = ps, !.queued = q]
    BY DEF request_withdrawal
<1>5. n \in Nat /\ n = position[s].pending + amount
    BY <1>1, <1>3, PositionFields
<1>6. new \in Request
    <2>1. now \in Nat
        BY Zenon DEF InsuranceInv
    <2>2. Delay \in Nat
        BY InsuranceAssumption
    <2>3. now + Delay \in Nat
        BY <2>1, <2>2
    <2> QED
        BY <2>3 DEF Request
<1>7. ps \in Nat /\ q \in Nat /\ pool.total \in Int /\ staked \in Nat /\ pool \in Pool
    <2>1. position[s].staked <= pool.staked
        BY PoolFields, PositionSums DEF Balanced
    <2>2. pool.staked \in Nat /\ pool.queued \in Nat /\ position[s].staked \in Nat
        BY PoolFields, PositionFields
    <2>3. ps \in Nat /\ q \in Nat
        BY <1>1, <2>1, <2>2
    <2> QED
        BY <2>3, PoolFields
<1>8. /\ ps = pool.staked + (-amount) /\ q = pool.queued + amount
      /\ pool.total = pool.total + ((-amount) + amount) /\ staked = staked + 0
    BY <1>1, PoolFields
<1> HIDE DEF p0, n, ps, q
<1>9. /\ p \in Position /\ p.staked = position[s].staked + (-amount)
      /\ p.pending = position[s].pending + amount /\ p.slashed = position[s].slashed
      /\ p.debt = (p.staked * pool.acc) \div Scale
    BY <1>3, <1>5, WithPending
<1> HIDE DEF p
<1>10. SumWithdrawn' = SumWithdrawn
    <2>1. requests \in Seq(Request) /\ new.claimed = FALSE
        BY PoolFields
    <2> HIDE DEF new
    <2>2. /\ \A i \in DOMAIN requests : i \in DOMAIN requests' /\ requests'[i] = requests[i]
          /\ \A i \in DOMAIN requests' \ DOMAIN requests : requests'[i] = new
        BY <1>4, <1>6, <2>1
    <2> QED
        BY <2>1, <2>2, SameWithdrawn
<1>11. requests' \in Seq(Request)
    <2> HIDE DEF new
    <2> QED
        BY <1>4, <1>6, PoolFields
<1>12. SumWithdrawn' = SumWithdrawn + 0 /\ p.slashed = position[s].slashed + 0
    BY <1>9, <1>10, PositionFields, PoolFields, RequestsFinite, SMTT(30)
<1>13. /\ pool' \in Pool /\ pool'.acc = pool.acc /\ pool'.payout = pool.payout
       /\ pool'.total = pool.total /\ pool'.staked = ps /\ pool'.queued = q
    <2>1. pool' = [pool EXCEPT !.total = pool.total, !.staked = ps, !.queued = q]
        BY Zenon, <1>4, <1>7, PoolAsIs
    <2> QED
        BY <1>7, <2>1 DEF Pool
<1>14. Moves(s, p, -amount, amount, 0, 0, 0)
    BY <1>4, <1>8, <1>9, <1>11, <1>12, <1>13, SameSums, PoolFields, Zenon DEF Moves
<1>15. -amount \in Int /\ amount \in Int /\ 0 \in Int /\ 0 = (-amount) + amount + 0 + 0
       /\ staked + 0 \in Nat
    BY <1>1, <1>7
<1> QED
    BY <1>9, <1>14, <1>15, PositionKeeps

LEMMA WithdrawalKeeps ==
    ASSUME InsuranceInv, now' = now, NEW i \in DOMAIN requests, execute_withdrawal(i)
    PROVE  InsuranceInv'
<1> DEFINE s == requests[i].staker
           amount == requests[i].amount
           p0 == Synced(s, 0)
           n == p0.pending - amount
           p == [p0 EXCEPT !.pending = n]
           new == [requests[i] EXCEPT !.claimed = TRUE]
           t == pool.total - amount
           q == pool.queued - amount
<1>0. requests[i] \in Request
    BY PoolFields
<1>1. s \in Staker /\ amount \in Nat /\ amount \in Stakes
    BY <1>0, StakesNat DEF Request
<1>2. amount <= position[s].pending /\ amount <= pool.queued /\ ~requests[i].claimed
    <2>1. position[s].pending >= amount /\ pool.queued >= amount /\ ~requests[i].claimed
        BY DEF execute_withdrawal
    <2> QED
        BY <1>1, <2>1, PoolFields, PositionFields
<1>3. new \in Request /\ new.amount = requests[i].amount /\ new.claimed
    BY <1>0 DEF Request
<1>4. /\ position' = [position EXCEPT ![s] = p] /\ staked' = staked
      /\ claims' = claims /\ council' = council
      /\ requests' = [requests EXCEPT ![i] = new]
      /\ pool' = [pool EXCEPT !.total = t, !.queued = q]
    BY DEF execute_withdrawal
<1>5. t \in Int /\ q \in Nat /\ pool.staked \in Nat /\ staked \in Nat /\ pool \in Pool
    BY <1>1, <1>2, PoolFields, SMTT(30)
<1>6. t = pool.total + (0 + (-amount)) /\ q = pool.queued + (-amount)
      /\ pool.staked = pool.staked + 0 /\ staked = staked + 0
    BY <1>1, PoolFields, SMTT(30)
<1> HIDE DEF new
<1>7. requests' \in Seq(Request) /\ SumWithdrawn' = SumWithdrawn + amount
    BY <1>2, <1>3, <1>4, PoolFields, OneMoreWithdrawn
<1> HIDE DEF s, amount, t, q
<1>8. position[s].staked + 0 = position[s].staked /\ position[s].staked + 0 \in Nat /\ 0 \in Int
    BY <1>1, PositionFields
<1>9. /\ p0 \in Position /\ p0.staked = position[s].staked + 0
      /\ p0.pending = position[s].pending /\ p0.slashed = position[s].slashed
      /\ p0.debt = (p0.staked * pool.acc) \div Scale
    BY <1>1, <1>8, SyncedIs
<1>10. n \in Nat /\ n = position[s].pending + (-amount)
       /\ position[s].slashed = position[s].slashed + 0
    BY <1>1, <1>2, <1>9, PositionFields
<1> HIDE DEF p0, n
<1>11. /\ p \in Position /\ p.staked = position[s].staked + 0
       /\ p.pending = position[s].pending + (-amount)
       /\ p.slashed = position[s].slashed + 0
       /\ p.debt = (p.staked * pool.acc) \div Scale
    BY <1>9, <1>10, WithPending
<1> HIDE DEF p
<1>12. /\ pool' \in Pool /\ pool'.acc = pool.acc /\ pool'.payout = pool.payout
       /\ pool'.total = t /\ pool'.staked = pool.staked /\ pool'.queued = q
    <2>1. pool' = [pool EXCEPT !.total = t, !.staked = pool.staked, !.queued = q]
        BY Zenon, <1>4, <1>5, PoolAsIs
    <2> QED
        BY Zenon, <1>5, <2>1 DEF Pool
<1>13. Moves(s, p, 0, -amount, 0, amount, 0)
    BY <1>4, <1>6, <1>7, <1>11, <1>12, SameSums, PoolFields, Zenon DEF Moves
<1>14. -amount \in Int /\ amount \in Int /\ 0 \in Int /\ 0 = 0 + (-amount) + 0 + amount
       /\ staked + 0 \in Nat
    BY <1>1, <1>5
<1> QED
    BY <1>1, <1>11, <1>13, <1>14, PositionKeeps

LEMMA PremiumKeeps ==
    ASSUME InsuranceInv, now' = now, NEW s \in Staker, claim_premium(s)
    PROVE  InsuranceInv'
<1> DEFINE p0 == Synced(s, 0)
           n == p0.claimed + p0.accrued
           p == [p0 EXCEPT !.claimed = n, !.accrued = 0]
<1>1. position[s].staked + 0 \in Nat /\ 0 \in Int
    BY PositionFields
<1>2. /\ p0 \in Position /\ p0.staked = position[s].staked + 0
      /\ p0.pending = position[s].pending /\ p0.slashed = position[s].slashed
      /\ p0.debt = (p0.staked * pool.acc) \div Scale
    <2>1. /\ p0 \in Position /\ p0.staked = position[s].staked + 0
          /\ p0.pending = position[s].pending /\ p0.slashed = position[s].slashed
          /\ p0.debt = ((position[s].staked + 0) * pool.acc) \div Scale
        BY <1>1, SyncedIs
    <2> QED
        BY <2>1
<1>3. /\ position' = [position EXCEPT ![s] = p] /\ staked' = staked /\ pool' = pool
      /\ claims' = claims /\ council' = council /\ requests' = requests
    BY DEF claim_premium
<1> HIDE DEF p0
<1>4. n \in Nat
    BY <1>2 DEF Position
<1> HIDE DEF n
<1>5. p \in Position /\ p.staked = p0.staked /\ p.pending = p0.pending
      /\ p.slashed = p0.slashed /\ p.debt = p0.debt
    BY <1>2, <1>4 DEF Position
<1> HIDE DEF p
<1>6. /\ position[s].pending = position[s].pending + 0
      /\ position[s].slashed = position[s].slashed + 0
      /\ pool.staked = pool.staked + 0 /\ pool.queued = pool.queued + 0
      /\ pool.total = pool.total + (0 + 0) /\ staked = staked + 0
      /\ SumWithdrawn = SumWithdrawn + 0
    BY PositionFields, PoolFields, RequestsFinite, SMTT(30)
<1>7. Moves(s, p, 0, 0, 0, 0, 0)
    BY <1>2, <1>3, <1>5, <1>6, SameSums, PoolFields, Zenon DEF Moves
<1>8. 0 \in Int /\ 0 = 0 + 0 + 0 + 0 /\ staked + 0 \in Nat
    BY PoolFields
<1> QED
    BY <1>5, <1>7, <1>8, PositionKeeps

LEMMA LesserOf ==
    ASSUME NEW a \in Nat, NEW b \in Nat
    PROVE  Min({a, b}) \in Nat /\ Min({a, b}) <= b
<1> DEFINE P(x) == \A y \in {a, b} : x <= y
<1>1. \E x \in {a, b} : P(x)
    <2>1. CASE a <= b
        BY <2>1
    <2>2. CASE b <= a
        BY <2>2
    <2> QED
        BY <2>1, <2>2
<1>2. Min({a, b}) = CHOOSE x \in {a, b} : P(x)
    BY DEF Min
<1>3. Min({a, b}) \in {a, b} /\ P(Min({a, b}))
    BY <1>1, <1>2, Zenon
<1> QED
    BY <1>3

LEMMA RejectKeeps ==
    ASSUME InsuranceInv, now' = now, NEW c \in DOMAIN claims, NEW bps \in SlashRates,
           reject_claim(c, bps)
    PROVE  InsuranceInv'
<1> DEFINE s == claims[c].claimant
           share == (claims[c].amount * bps) \div 10000
           slashed == Min({share, position[s].staked})
           p0 == Synced(s, -slashed)
           n == p0.slashed + slashed
           p == [p0 EXCEPT !.slashed = n]
           new == [claims[c] EXCEPT !.status = "Rejected"]
           t == pool.total - slashed
           ps == pool.staked - slashed
<1>0. claims[c] \in Claim
    BY PoolFields
<1>1. s \in Staker /\ claims[c].amount \in Nat /\ bps \in Nat
    <2>1. s \in Staker
        BY <1>0 DEF Claim
    <2>2. claims[c].amount \in Nat
        BY PoolFields, ClaimsFinite
    <2>3. bps \in Nat
        BY InsuranceAssumption, SMTT(20)
    <2> QED
        BY <2>1, <2>2, <2>3
<1>2. new \in Claim /\ new.amount = claims[c].amount /\ new.status # "Paid"
      /\ claims[c].status # "Paid"
    BY <1>0 DEF Claim, reject_claim
<1>3. /\ position' = [position EXCEPT ![s] = p] /\ staked' = staked
      /\ requests' = requests /\ council' = council
      /\ claims' = [claims EXCEPT ![c] = new]
      /\ pool' = [pool EXCEPT !.staked = ps, !.total = t]
    BY DEF reject_claim
<1> HIDE DEF new
<1>4. claims' \in Seq(Claim) /\ Len(claims') = Len(claims) /\ SumPaid' = SumPaid
    <2>1. claims \in Seq(Claim) /\ claims' = [claims EXCEPT ![c] = new]
        BY <1>3, PoolFields
    <2> HIDE DEF s, share, p, t, ps
    <2> QED
        BY <1>2, <2>1, OneClaim
<1>5. share \in Nat
    <2> DEFINE x == claims[c].amount * bps
    <2>1. x \in Nat
        BY <1>1
    <2> HIDE DEF x
    <2>2. x \div 10000 \in Nat
        BY <2>1
    <2> QED
        BY <2>2 DEF x
<1> HIDE DEF s, share
<1>6. slashed \in Nat /\ slashed <= position[s].staked
    BY <1>1, <1>5, PositionFields, LesserOf
<1> HIDE DEF slashed
<1>7. position[s].staked + (-slashed) \in Nat /\ -slashed \in Int
    BY <1>1, <1>6, PositionFields
<1>8. /\ p0 \in Position /\ p0.staked = position[s].staked + (-slashed)
      /\ p0.pending = position[s].pending /\ p0.slashed = position[s].slashed
      /\ p0.debt = (p0.staked * pool.acc) \div Scale
    BY <1>1, <1>7, SyncedIs
<1>9. n \in Nat /\ n = position[s].slashed + slashed
      /\ position[s].pending = position[s].pending + 0
    BY <1>1, <1>6, <1>8, PositionFields
<1>10. ps \in Nat /\ t \in Int /\ pool.queued \in Nat /\ staked \in Nat /\ pool \in Pool
    <2>1. position[s].staked <= pool.staked
        BY <1>1, PoolFields, PositionSums DEF Balanced
    <2>2. pool.staked \in Nat /\ pool.total \in Int /\ position[s].staked \in Nat
        BY <1>1, PoolFields, PositionFields
    <2>3. ps \in Nat /\ t \in Int
        BY <1>6, <2>1, <2>2
    <2> QED
        BY <2>3, PoolFields
<1>11. t = pool.total + ((-slashed) + 0) /\ ps = pool.staked + (-slashed)
       /\ pool.queued = pool.queued + 0 /\ staked = staked + 0
       /\ SumWithdrawn = SumWithdrawn + 0
    <2>1. SumWithdrawn \in Nat
        BY PoolFields, RequestsFinite
    <2>2. pool.total \in Int /\ pool.staked \in Nat /\ pool.queued \in Nat /\ staked \in Nat
        BY PoolFields
    <2>3. t = pool.total + ((-slashed) + 0) /\ ps = pool.staked + (-slashed)
        BY <1>6, <2>2
    <2> QED
        BY <2>1, <2>2, <2>3
<1> HIDE DEF p0, n, t, ps
<1>12. /\ p \in Position /\ p.staked = position[s].staked + (-slashed)
       /\ p.pending = position[s].pending + 0
       /\ p.slashed = position[s].slashed + slashed
       /\ p.debt = (p.staked * pool.acc) \div Scale
    BY <1>8, <1>9, WithSlashed
<1> HIDE DEF p
<1>13. /\ pool' \in Pool /\ pool'.acc = pool.acc /\ pool'.payout = pool.payout
       /\ pool'.total = t /\ pool'.staked = ps /\ pool'.queued = pool.queued
    <2>1. pool' = [pool EXCEPT !.total = t, !.staked = ps, !.queued = pool.queued]
        BY Zenon, <1>3, <1>10, PoolAsIs
    <2> QED
        BY Zenon, <1>10, <2>1 DEF Pool
<1>14. Moves(s, p, -slashed, 0, slashed, 0, 0)
    BY <1>3, <1>4, <1>11, <1>12, <1>13, SameSums, PoolFields, Zenon DEF Moves
<1>15. slashed \in Int /\ 0 \in Int /\ 0 = (-slashed) + 0 + slashed + 0
       /\ staked + 0 \in Nat
    BY <1>6, <1>10
<1> QED
    BY <1>1, <1>7, <1>12, <1>14, <1>15, PositionKeeps

LEMMA CoverageKeeps ==
    ASSUME InsuranceInv, now' = now, NEW amount \in Stakes, NEW premium \in Premiums,
           NEW cap \in CoverageCaps, purchase_coverage(amount, premium, cap)
    PROVE  InsuranceInv'
<1> DEFINE coverage == pool.coverage + amount
           premiums == pool.collected + premium
           more == (premium * Scale) \div pool.staked
           acc == pool.acc + more
<1>1. amount \in Nat \ {0} /\ premium \in Nat /\ cap \in Nat /\ Scale \in Nat
    BY StakesNat, RatesNat
<1>2. pool.staked # 0
    <2>1. coverage <= (pool.staked * cap) \div 10000
        BY DEF purchase_coverage
    <2>2. coverage \in Nat /\ coverage > 0
        BY <1>1, PoolFields, SMTT(30)
    <2> HIDE DEF coverage
    <2>3. ASSUME pool.staked = 0 PROVE FALSE
        <3>1. (pool.staked * cap) \div 10000 = 0
            BY <1>1, <2>3
        <3> QED
            BY <2>1, <2>2, <3>1
    <2> QED
        BY <2>3
<1>3. more \in Nat
    <2> DEFINE x == premium * Scale
    <2>1. x \in Nat /\ pool.staked \in Nat \ {0}
        BY <1>1, <1>2, PoolFields
    <2> HIDE DEF x
    <2>2. x \div pool.staked \in Nat
        BY <2>1
    <2> QED
        BY <2>2 DEF x
<1>4. UNCHANGED <<position, requests, claims, council, staked>>
      /\ pool' = [pool EXCEPT !.coverage = coverage, !.collected = premiums, !.acc = acc]
    BY DEF purchase_coverage
<1> HIDE DEF more
<1>5. coverage \in Nat /\ premiums \in Nat /\ acc \in Nat /\ acc = pool.acc + more
    <2>1. pool.coverage \in Nat /\ pool.collected \in Nat /\ pool.acc \in Nat
        BY PoolFields
    <2> QED
        BY <1>1, <1>3, <2>1
<1> HIDE DEF coverage, premiums, acc
<1>6. /\ pool' \in Pool /\ pool'.staked = pool.staked /\ pool'.queued = pool.queued
      /\ pool'.acc = acc /\ pool'.total = pool.total /\ pool'.payout = pool.payout
    <2>1. pool \in Pool
        BY PoolFields
    <2> QED
        BY <1>4, <1>5, <2>1 DEF Pool
<1>7. pool'.payout = SumPaid'
    BY <1>4, <1>6, SameSums, PoolFields DEF Balanced
<1>8. claims' \in Seq(Claim) /\ Len(claims') <= MaxClaims /\ council' \in Councils
    BY <1>4, PoolFields DEF InsuranceInv
<1> QED
    BY <1>3, <1>4, <1>5, <1>6, <1>7, <1>8, ClaimsKeep

LEMMA CouncilKeeps ==
    ASSUME InsuranceInv, now' = now, NEW c \in Councils, configure_governance(c)
    PROVE  InsuranceInv'
<1>1. UNCHANGED <<pool, position, requests, claims, staked>> /\ council' \in Councils
    BY DEF configure_governance
<1>2. pool.acc = pool.acc + 0 /\ 0 \in Nat
    BY PoolFields
<1>3. pool.payout = SumPaid'
    BY <1>1, SameSums, PoolFields DEF Balanced
<1> QED
    BY <1>1, <1>2, <1>3, PoolFields, ClaimsKeep DEF InsuranceInv

LEMMA SubmitKeeps ==
    ASSUME InsuranceInv, now' = now, NEW s \in Staker, NEW amount \in Stakes,
           submit_claim(s, amount)
    PROVE  InsuranceInv'
<1> DEFINE new == [claimant |-> s, amount |-> amount, approvals |-> {}, status |-> "Submitted"]
<1>1. UNCHANGED <<pool, position, requests, council, staked>> /\ claims' = Append(claims, new)
      /\ Len(claims) < MaxClaims
    BY DEF submit_claim
<1>2. new \in Claim /\ new.status # "Paid"
    BY DEF Claim
<1> HIDE DEF new
<1>3. /\ claims' \in Seq(Claim) /\ Len(claims') = Len(claims) + 1
      /\ \A c \in DOMAIN claims : c \in DOMAIN claims' /\ claims'[c] = claims[c]
      /\ \A c \in DOMAIN claims' \ DOMAIN claims : claims'[c] = new
    BY <1>1, <1>2, PoolFields
<1>4. SumPaid' = SumPaid
    BY <1>2, <1>3, PoolFields, SamePaid
<1>5. pool'.payout = SumPaid'
    <2>1. pool.payout = SumPaid
        BY PoolFields DEF Balanced
    <2>2. pool' = pool
        BY <1>1
    <2> QED
        BY <1>4, <2>1, <2>2, Zenon
<1>6. Len(claims') <= MaxClaims
    <2>1. claims \in Seq(Claim)
        BY PoolFields
    <2>2. Len(claims) \in Nat
        BY <2>1
    <2>3. MaxClaims \in Nat
        BY InsuranceAssumption
    <2> QED
        BY <1>1, <1>3, <2>2, <2>3
<1>7. pool.acc = pool.acc + 0 /\ 0 \in Nat
    BY PoolFields
<1> QED
    BY <1>1, <1>3, <1>5, <1>6, <1>7, PoolFields, ClaimsKeep

\* A claim's status or votes change and nothing is paid.
LEMMA ClaimKeeps ==
    ASSUME InsuranceInv, now' = now, NEW c \in DOMAIN claims, NEW new \in Claim,
           claims' = [claims EXCEPT ![c] = new], new.amount = claims[c].amount,
           claims[c].status # "Paid", new.status # "Paid",
           UNCHANGED <<pool, position, requests, council, staked>>
    PROVE  InsuranceInv'
<1>1. claims' \in Seq(Claim) /\ Len(claims') = Len(claims) /\ SumPaid' = SumPaid
    BY PoolFields, OneClaim
<1>2. pool'.payout = SumPaid'
    BY <1>1, PoolFields DEF Balanced
<1>3. Len(claims') <= MaxClaims
    BY <1>1 DEF InsuranceInv
<1>4. pool.acc = pool.acc + 0 /\ 0 \in Nat
    BY PoolFields
<1> QED
    BY <1>1, <1>2, <1>3, <1>4, PoolFields, ClaimsKeep

LEMMA VerifyClaimKeeps ==
    ASSUME InsuranceInv, now' = now, NEW c \in DOMAIN claims, verify_claim(c)
    PROVE  InsuranceInv'
<1> DEFINE new == [claims[c] EXCEPT !.status = "Verified"]
<1>1. claims[c] \in Claim
    BY PoolFields
<1>2. new \in Claim /\ new.amount = claims[c].amount /\ new.status # "Paid"
    BY <1>1 DEF Claim
<1>3. /\ UNCHANGED <<pool, position, requests, council, staked>>
      /\ claims' = [claims EXCEPT ![c] = new] /\ claims[c].status # "Paid"
    BY DEF verify_claim
<1> HIDE DEF new
<1> QED
    BY <1>2, <1>3, ClaimKeeps

\* The claim c with a's vote.
VotedFor(c, a) ==
    LET votes == claims[c].approvals \cup {a} IN
    [claims[c] EXCEPT !.approvals = votes,
                      !.status = IF Cardinality(votes) >= council.threshold THEN "Approved" ELSE @]

LEMMA VoteIs ==
    ASSUME InsuranceInv, NEW c \in DOMAIN claims, NEW a \in Signer, approve_claim(a, c)
    PROVE  /\ claims' = [claims EXCEPT ![c] = VotedFor(c, a)]
           /\ VotedFor(c, a) \in Claim /\ VotedFor(c, a).amount = claims[c].amount
           /\ VotedFor(c, a).approvals = claims[c].approvals \cup {a}
           /\ VotedFor(c, a).status
                = IF Cardinality(claims[c].approvals \cup {a}) >= council.threshold
                  THEN "Approved" ELSE claims[c].status
           /\ claims[c].status \in {"Verified", "Approved"} /\ a \notin claims[c].approvals
<1> DEFINE votes == claims[c].approvals \cup {a}
           status == IF Cardinality(votes) >= council.threshold THEN "Approved"
                     ELSE claims[c].status
           new == [claims[c] EXCEPT !.approvals = votes, !.status = status]
<1>1. claims[c] \in Claim
    BY PoolFields
<1>2. claims[c].status \in {"Verified", "Approved"} /\ a \notin claims[c].approvals
    BY DEF approve_claim
<1>3. status \in {"Verified", "Approved"} /\ votes \in SUBSET Signer
    BY <1>1, <1>2 DEF Claim
<1>4. claims' = [claims EXCEPT ![c] = new]
    <2> DEFINE half == [claims EXCEPT ![c].approvals = votes]
    <2>1. claims' = [half EXCEPT ![c].status =
                        IF Cardinality(votes) >= council.threshold THEN "Approved" ELSE @]
        BY DEF approve_claim
    <2>2. half = [claims EXCEPT ![c] = [claims[c] EXCEPT !.approvals = votes]]
        BY PoolFields
    <2>3. half[c] = [claims[c] EXCEPT !.approvals = votes]
        BY <2>2, PoolFields
    <2>4. half[c].status = claims[c].status
        BY <1>1, <2>3 DEF Claim
    <2>5. claims' = [half EXCEPT ![c].status = status]
        BY <2>1, <2>4
    <2> HIDE DEF half, status, votes
    <2>6. claims' = [half EXCEPT ![c] = [half[c] EXCEPT !.status = status]]
        BY <2>5
    <2> QED
        BY <2>2, <2>3, <2>6, PoolFields
<1>5. VotedFor(c, a) = new
    <2>1. VotedFor(c, a) = [claims[c] EXCEPT !.approvals = votes, !.status =
                                IF Cardinality(votes) >= council.threshold THEN "Approved" ELSE @]
        BY DEF VotedFor
    <2>2. [claims[c] EXCEPT !.approvals = votes].status = claims[c].status
        BY <1>1 DEF Claim
    <2> QED
        BY <2>1, <2>2
<1> HIDE DEF status, votes
<1>6. new \in Claim /\ new.amount = claims[c].amount /\ new.approvals = votes
      /\ new.status = status
    BY <1>1, <1>3 DEF Claim
<1> QED
    BY <1>2, <1>4, <1>5, <1>6 DEF status, votes

LEMMA ApproveClaimKeeps ==
    ASSUME InsuranceInv, now' = now, NEW c \in DOMAIN claims, NEW a \in Signer,
           approve_claim(a, c)
    PROVE  InsuranceInv'
<1>1. UNCHANGED <<pool, position, requests, council, staked>>
    BY DEF approve_claim
<1>2. claims[c].status # "Paid" /\ VotedFor(c, a).status # "Paid"
    BY VoteIs
<1> QED
    BY <1>1, <1>2, VoteIs, ClaimKeeps

LEMMA PayoutKeeps ==
    ASSUME InsuranceInv, now' = now, NEW c \in DOMAIN claims, execute_payout(c)
    PROVE  InsuranceInv'
<1> DEFINE new == [claims[c] EXCEPT !.status = "Paid"]
           amount == claims[c].amount
           total == pool.total - amount
           coverage == pool.coverage - amount
           payout == pool.payout + amount
<1>1. claims[c] \in Claim
    BY PoolFields
<1>2. new \in Claim /\ new.amount = claims[c].amount /\ new.status = "Paid"
      /\ claims[c].status # "Paid"
    BY <1>1 DEF Claim, execute_payout
<1>3. /\ UNCHANGED <<position, requests, council, staked>>
      /\ claims' = [claims EXCEPT ![c] = new]
      /\ pool' = [pool EXCEPT !.total = total, !.coverage = coverage, !.payout = payout]
      /\ amount <= pool.coverage
    BY DEF execute_payout
<1>4. amount \in Nat
    BY PoolFields, ClaimsFinite
<1> HIDE DEF new
<1>5. claims' \in Seq(Claim) /\ Len(claims') = Len(claims) /\ SumPaid' = SumPaid + amount
    BY <1>2, <1>3, PoolFields, OneClaim
<1> HIDE DEF amount
<1>6. total \in Int /\ coverage \in Nat /\ payout \in Nat
      /\ total + payout = pool.total + pool.payout
    <2>1. pool.total \in Int /\ pool.coverage \in Nat /\ pool.payout \in Nat
        BY PoolFields
    <2> QED
        BY <1>3, <1>4, <2>1
<1>7. payout = SumPaid'
    BY <1>5, PoolFields DEF Balanced
<1> HIDE DEF total, coverage, payout
<1>8. /\ pool' \in Pool /\ pool'.staked = pool.staked /\ pool'.queued = pool.queued
      /\ pool'.acc = pool.acc /\ pool'.total = total /\ pool'.payout = payout
    <2>1. pool \in Pool
        BY PoolFields
    <2> QED
        BY <1>3, <1>6, <2>1 DEF Pool
<1>9. Len(claims') <= MaxClaims /\ council' \in Councils
    BY <1>3, <1>5, PoolFields DEF InsuranceInv
<1>10. pool.acc = pool.acc + 0 /\ 0 \in Nat
    BY PoolFields
<1> QED
    BY <1>3, <1>5, <1>6, <1>7, <1>8, <1>9, <1>10, ClaimsKeep

LEMMA InsuranceStep ==
    ASSUME InsuranceInv, InsuranceAct
    PROVE  InsuranceInv'
<1>1. CASE UNCHANGED insuranceVars /\ now' \in Nat
    <2>1. Len(claims') <= MaxClaims
        BY <1>1 DEF insuranceVars, InsuranceInv
    <2> QED
        BY <1>1, <2>1
           DEF insuranceVars, InsuranceInv, PoolSound, InsuranceTypeOK, PoolBalances,
               PayoutsAreClaims, PositionSum
<1>2. Tick => now' \in Nat
    BY DEF Tick, InsuranceInv
<1>3. now' = now => now' \in Nat
    BY DEF InsuranceInv
<1>4. CASE InsuranceNext
    <2>1. now' = now
        BY <1>4 DEF InsuranceNext
    <2>2. ASSUME NEW s \in Staker, claim_premium(s)
          PROVE  InsuranceInv'
        BY <2>1, <2>2, PremiumKeeps
    <2>3. ASSUME NEW s \in Staker, NEW amount \in Stakes,
                 \/ stake_liquidity(s, amount) \/ request_withdrawal(s, amount)
                 \/ submit_claim(s, amount)
          PROVE  InsuranceInv'
        BY <2>1, <2>3, StakeKeeps, RequestKeeps, SubmitKeeps
    <2>4. ASSUME NEW q \in DOMAIN requests, execute_withdrawal(q)
          PROVE  InsuranceInv'
        BY <2>1, <2>4, WithdrawalKeeps
    <2>5. ASSUME NEW amount \in Stakes, NEW premium \in Premiums, NEW cap \in CoverageCaps,
                 purchase_coverage(amount, premium, cap)
          PROVE  InsuranceInv'
        BY <2>1, <2>5, CoverageKeeps
    <2>6. ASSUME NEW c \in Councils, configure_governance(c)
          PROVE  InsuranceInv'
        BY <2>1, <2>6, CouncilKeeps
    <2>7. ASSUME NEW c \in DOMAIN claims,
                 \/ verify_claim(c) \/ \E bps \in SlashRates : reject_claim(c, bps)
                 \/ \E a \in Signer : approve_claim(a, c)
                 \/ execute_payout(c)
          PROVE  InsuranceInv'
        BY <2>1, <2>7, VerifyClaimKeeps, RejectKeeps, ApproveClaimKeeps, PayoutKeeps
    <2> QED
        BY <1>4, <2>2, <2>3, <2>4, <2>5, <2>6, <2>7 DEF InsuranceNext
<1> QED
    BY <1>1, <1>2, <1>3, <1>4 DEF InsuranceAct

LEMMA InsuranceInitial == ClockInit /\ InsuranceInit => InsuranceInv
<1> SUFFICES ASSUME ClockInit, InsuranceInit PROVE InsuranceInv
    OBVIOUS
<1>1. now \in Nat /\ Len(claims) <= MaxClaims
    BY InsuranceAssumption DEF ClockInit, InsuranceInit
<1>2. InsuranceTypeOK
    <2>1. pool \in Pool
        BY DEF InsuranceInit, Pool
    <2>2. position \in [Staker -> Position]
        BY DEF InsuranceInit, Position
    <2>3. requests \in Seq(Request) /\ claims \in Seq(Claim)
        BY DEF InsuranceInit
    <2>4. council \in Councils /\ staked \in Nat
        BY DEF InsuranceInit
    <2> QED
        BY <2>1, <2>2, <2>3, <2>4 DEF InsuranceTypeOK
<1>3. Balanced
    <2> DEFINE f == [s \in Staker |-> 0]
    <2>1. StakedSum = SumFunctionOnSet(f, Staker) /\ PendingSum = SumFunctionOnSet(f, Staker)
          /\ SlashedSum = SumFunctionOnSet(f, Staker)
        <3>1. /\ [s \in Staker |-> position[s].staked] = f
              /\ [s \in Staker |-> position[s].pending] = f
              /\ [s \in Staker |-> position[s].slashed] = f
            BY DEF InsuranceInit
        <3>2. DOMAIN f = Staker
            OBVIOUS
        <3> HIDE DEF f
        <3> QED
            BY <3>1, <3>2 DEF StakedSum, PendingSum, SlashedSum, PositionSum, SumFunction
    <2>2. \A s \in Staker : f[s] = 0
        OBVIOUS
    <2>3. IsFiniteSet(Staker)
        BY InsuranceAssumption
    <2> HIDE DEF f
    <2>4. SumFunctionOnSet(f, Staker) = 0
        BY <2>2, <2>3, SumZero
    <2>5. Withdrawn = {} /\ PaidClaims = {}
        BY DEF InsuranceInit, Withdrawn, PaidClaims
    <2>6. SumWithdrawn = 0 /\ SumPaid = 0
        BY <2>5, SumEmpty DEF SumWithdrawn, SumPaid
    <2>7. pool.staked = 0 /\ pool.queued = 0 /\ pool.total = 0 /\ pool.payout = 0 /\ staked = 0
        BY DEF InsuranceInit
    <2> QED
        BY <2>1, <2>4, <2>6, <2>7 DEF Balanced
<1>4. \A s \in Staker : position[s].debt <= (position[s].staked * pool.acc) \div Scale
    <2>1. Scale \in Nat \ {0}
        BY InsuranceAssumption
    <2>2. \A s \in Staker : position[s].debt = 0 /\ position[s].staked = 0
        BY DEF InsuranceInit
    <2>3. pool.acc = 0
        BY DEF InsuranceInit
    <2>4. (0 * 0) \div Scale = 0
        BY <2>1
    <2> QED
        BY <2>2, <2>3, <2>4
<1> QED
    BY <1>1, <1>2, <1>3, <1>4, BalancedIs DEF InsuranceInv, PoolSound

\* The pool's books agree with the stakers' and with the claims, and no amount
\* falls below zero, for every set of stakers, amounts, premiums and rates, and
\* any number of calls.
THEOREM PoolSoundHolds == InsuranceSpec => []PoolSound
<1>1. InsuranceInv /\ InsuranceAct => InsuranceInv'
    BY InsuranceStep
<1>2. InsuranceInv => PoolSound
    BY DEF InsuranceInv
<1> QED
    BY <1>1, <1>2, InsuranceInitial, PTL DEF InsuranceSpec, InsuranceAct

-----------------------------------------------------------------------------
(* Each claim is one decision.                                              *)

LEMMA ClaimCardinality == \A S : ClaimDecision!Cardinality(S) = Cardinality(S)
BY DEF ClaimDecision!Cardinality, Cardinality

ClaimStageOf(c) ==
    CASE c.status = "Submitted" -> "none"
      [] c.status = "Verified" -> "open"
      [] c.status = "Approved" -> "approved"
      [] c.status = "Paid" -> "done"
      [] OTHER -> "off"

LEMMA ClaimStageAndVotes ==
    ASSUME NEW i \in 1..MaxClaims
    PROVE  /\ ClaimStage[i] = IF i \in DOMAIN claims THEN ClaimStageOf(claims[i]) ELSE "none"
           /\ ClaimVotes[i] = IF i \in DOMAIN claims THEN claims[i].approvals ELSE {}
BY DEF ClaimStage, ClaimVotes, ClaimStageOf

LEMMA ClaimStageAndVotesPrimed ==
    ASSUME NEW i \in 1..MaxClaims
    PROVE  /\ ClaimStage'[i]
                = IF i \in DOMAIN claims' THEN ClaimStageOf(claims'[i]) ELSE "none"
           /\ ClaimVotes'[i] = IF i \in DOMAIN claims' THEN claims'[i].approvals ELSE {}
BY DEF ClaimStage, ClaimVotes, ClaimStageOf

LEMMA SameClaimRests ==
    ASSUME NEW i \in 1..MaxClaims,
           i \in DOMAIN claims <=> i \in DOMAIN claims',
           i \in DOMAIN claims => claims'[i] = claims[i]
    PROVE  ClaimDecision!Decide(i)
BY ClaimStageAndVotes, ClaimStageAndVotesPrimed DEF ClaimDecision!Decide, ClaimDecision!Rest

\* A claim c that becomes new, in a step that touches no other.
LEMMA ClaimBecomes ==
    ASSUME InsuranceInv, NEW c \in DOMAIN claims, NEW new \in Claim,
           claims' = [claims EXCEPT ![c] = new]
    PROVE  /\ c \in 1..MaxClaims
           /\ ClaimStage[c] = ClaimStageOf(claims[c]) /\ ClaimVotes[c] = claims[c].approvals
           /\ ClaimStage'[c] = ClaimStageOf(new) /\ ClaimVotes'[c] = new.approvals
           /\ \A i \in 1..MaxClaims : i # c => ClaimDecision!Decide(i)
<1>1. claims \in Seq(Claim) /\ Len(claims) <= MaxClaims
    BY PoolFields DEF InsuranceInv
<1>2. /\ DOMAIN claims' = DOMAIN claims /\ claims'[c] = new
      /\ \A i \in DOMAIN claims : i # c => claims'[i] = claims[i]
    BY <1>1
<1>3. c \in 1..MaxClaims
    BY <1>1, InsuranceAssumption
<1> QED
    BY <1>2, <1>3, ClaimStageAndVotes, ClaimStageAndVotesPrimed, SameClaimRests

LEMMA SubmitDecides ==
    ASSUME InsuranceInv, NEW s \in Staker, NEW amount \in Stakes, submit_claim(s, amount),
           NEW i \in 1..MaxClaims
    PROVE  ClaimDecision!Decide(i)
<1> DEFINE new == [claimant |-> s, amount |-> amount, approvals |-> {}, status |-> "Submitted"]
           last == Len(claims) + 1
<1>1. claims' = Append(claims, new) /\ claims \in Seq(Claim)
    BY PoolFields DEF submit_claim
<1>2. new \in Claim /\ ClaimStageOf(new) = "none" /\ new.approvals = {}
    BY DEF Claim, ClaimStageOf
<1> HIDE DEF new
<1>3. /\ claims'[last] = new /\ last \in DOMAIN claims' /\ last \notin DOMAIN claims
      /\ \A c \in DOMAIN claims : c \in DOMAIN claims' /\ claims'[c] = claims[c]
      /\ \A c \in DOMAIN claims' : c \in DOMAIN claims \/ c = last
    BY <1>1, <1>2
<1> HIDE DEF last
<1>4. CASE i = last
    BY <1>2, <1>3, <1>4, ClaimStageAndVotes, ClaimStageAndVotesPrimed
       DEF ClaimDecision!Decide, ClaimDecision!Rest
<1>5. CASE i # last
    BY <1>3, <1>5, SameClaimRests
<1> QED
    BY <1>4, <1>5

LEMMA VerifyDecides ==
    ASSUME InsuranceInv, NEW c \in DOMAIN claims, NEW status \in {"Verified", "Rejected"},
           claims[c].status = "Submitted",
           claims' = [claims EXCEPT ![c].status = status],
           NEW i \in 1..MaxClaims
    PROVE  ClaimDecision!Decide(i)
<1> DEFINE new == [claims[c] EXCEPT !.status = status]
<1>1. claims[c] \in Claim
    BY PoolFields
<1>2. new \in Claim /\ new.status = status /\ new.approvals = claims[c].approvals
    BY <1>1 DEF Claim
<1>3. claims' = [claims EXCEPT ![c] = new]
    OBVIOUS
<1> HIDE DEF new
<1>4. ClaimDecision!Propose(c)
    BY <1>2, <1>3, ClaimBecomes DEF ClaimStageOf, ClaimDecision!Propose
<1> QED
    BY <1>2, <1>3, <1>4, ClaimBecomes DEF ClaimDecision!Decide

LEMMA ApproveDecides ==
    ASSUME InsuranceInv, NEW c \in DOMAIN claims, NEW a \in Signer, approve_claim(a, c),
           NEW i \in 1..MaxClaims
    PROVE  ClaimDecision!Decide(i)
<1>1. council' = council
    BY DEF approve_claim
<1>2. /\ ClaimVotes[c] = claims[c].approvals
      /\ ClaimVotes'[c] = claims[c].approvals \cup {a}
      /\ ClaimStage[c] = ClaimStageOf(claims[c]) /\ ClaimStage'[c] = ClaimStageOf(VotedFor(c, a))
      /\ \A j \in 1..MaxClaims : j # c => ClaimDecision!Decide(j)
    <2> DEFINE new == VotedFor(c, a)
    <2>1. new \in Claim /\ claims' = [claims EXCEPT ![c] = new]
          /\ new.approvals = claims[c].approvals \cup {a}
        BY VoteIs
    <2> HIDE DEF new
    <2>2. /\ ClaimVotes[c] = claims[c].approvals /\ ClaimVotes'[c] = new.approvals
          /\ ClaimStage[c] = ClaimStageOf(claims[c]) /\ ClaimStage'[c] = ClaimStageOf(new)
          /\ \A j \in 1..MaxClaims : j # c => ClaimDecision!Decide(j)
        BY <2>1, ClaimBecomes
    <2> QED
        BY <2>1, <2>2 DEF new
<1>3. ClaimDecision!Vote(c)
    <2> DEFINE enough == Cardinality(claims[c].approvals \cup {a}) >= council.threshold
    <2>1. /\ claims[c].status \in {"Verified", "Approved"}
          /\ VotedFor(c, a).status = IF enough THEN "Approved" ELSE claims[c].status
          /\ a \in Signer \ ClaimVotes[c]
        BY <1>2, VoteIs
    <2>2. ClaimDecision!Cardinality(ClaimVotes'[c]) >= council'.threshold <=> enough
        BY <1>1, <1>2, ClaimCardinality
    <2> HIDE DEF enough
    <2>3. ClaimStage[c] \in {"open", "approved"}
          /\ ClaimStage'[c] = IF ClaimStage[c] = "approved" \/ enough THEN "approved" ELSE "open"
        BY <1>2, <2>1 DEF ClaimStageOf
    <2> QED
        BY <1>2, <2>1, <2>2, <2>3 DEF ClaimDecision!Vote
<1> QED
    BY <1>2, <1>3 DEF ClaimDecision!Decide

LEMMA PayoutDecides ==
    ASSUME InsuranceInv, NEW c \in DOMAIN claims, execute_payout(c), NEW i \in 1..MaxClaims
    PROVE  ClaimDecision!Decide(i)
<1> DEFINE new == [claims[c] EXCEPT !.status = "Paid"]
<1>1. claims[c] \in Claim
    BY PoolFields
<1>2. new \in Claim /\ new.status = "Paid" /\ new.approvals = claims[c].approvals
    BY <1>1 DEF Claim
<1>3. claims' = [claims EXCEPT ![c] = new] /\ claims[c].status = "Approved"
    BY DEF execute_payout
<1> HIDE DEF new
<1>4. ClaimDecision!CarryOut(c)
    BY <1>2, <1>3, ClaimBecomes DEF ClaimStageOf, ClaimDecision!CarryOut
<1> QED
    BY <1>2, <1>3, <1>4, ClaimBecomes DEF ClaimDecision!Decide

LEMMA ClaimsDecide ==
    ASSUME InsuranceInv, InsuranceAct
    PROVE  \A i \in 1..MaxClaims : ClaimDecision!Decide(i)
<1> SUFFICES ASSUME NEW i \in 1..MaxClaims PROVE ClaimDecision!Decide(i)
    OBVIOUS
<1>1. CASE claims' = claims
    BY <1>1, SameClaimRests
<1>2. /\ UNCHANGED insuranceVars => claims' = claims
      /\ \A s : claim_premium(s) => claims' = claims
      /\ \A s, amount : stake_liquidity(s, amount) => claims' = claims
      /\ \A s, amount : request_withdrawal(s, amount) => claims' = claims
      /\ \A q : execute_withdrawal(q) => claims' = claims
      /\ \A amount, premium, cap : purchase_coverage(amount, premium, cap) => claims' = claims
      /\ \A c : configure_governance(c) => claims' = claims
    <2>1. UNCHANGED insuranceVars => claims' = claims
        BY DEF insuranceVars
    <2>2. ASSUME NEW s, claim_premium(s) PROVE claims' = claims
        BY <2>2 DEF claim_premium
    <2>3. ASSUME NEW s, NEW amount, stake_liquidity(s, amount) PROVE claims' = claims
        BY <2>3 DEF stake_liquidity
    <2>4. ASSUME NEW s, NEW amount, request_withdrawal(s, amount) PROVE claims' = claims
        BY <2>4 DEF request_withdrawal
    <2>5. ASSUME NEW q, execute_withdrawal(q) PROVE claims' = claims
        BY <2>5 DEF execute_withdrawal
    <2>6. ASSUME NEW amount, NEW premium, NEW cap, purchase_coverage(amount, premium, cap)
          PROVE  claims' = claims
        BY <2>6 DEF purchase_coverage
    <2>7. ASSUME NEW c, configure_governance(c) PROVE claims' = claims
        BY <2>7 DEF configure_governance
    <2> QED
        BY <2>1, <2>2, <2>3, <2>4, <2>5, <2>6, <2>7
<1>3. ASSUME NEW c \in DOMAIN claims,
             \/ verify_claim(c) \/ \E bps \in SlashRates : reject_claim(c, bps)
      PROVE  ClaimDecision!Decide(i)
    <2>1. CASE verify_claim(c)
        BY <2>1, VerifyDecides DEF verify_claim
    <2>2. ASSUME NEW bps \in SlashRates, reject_claim(c, bps)
          PROVE  ClaimDecision!Decide(i)
        <3>1. claims[c].status = "Submitted"
              /\ claims' = [claims EXCEPT ![c].status = "Rejected"]
            BY <2>2 DEF reject_claim
        <3> QED
            BY <3>1, VerifyDecides
    <2> QED
        BY <1>3, <2>1, <2>2
<1>4. ASSUME NEW c \in DOMAIN claims,
             (\E a \in Signer : approve_claim(a, c)) \/ execute_payout(c)
      PROVE  ClaimDecision!Decide(i)
    BY <1>4, ApproveDecides, PayoutDecides
<1>5. ASSUME NEW s \in Staker, NEW amount \in Stakes, submit_claim(s, amount)
      PROVE  ClaimDecision!Decide(i)
    BY <1>5, SubmitDecides
<1>6. UNCHANGED <<now, insuranceVars>> => UNCHANGED insuranceVars
    OBVIOUS
<1> QED
    BY <1>1, <1>2, <1>3, <1>4, <1>5, <1>6 DEF InsuranceAct, InsuranceNext

\* A claim is paid at most once and only on enough different votes, for every
\* set of approvers and any number of claims: each claim implements
\* QuorumDecision with the threshold of the day.
THEOREM ClaimIsDecisionHolds == InsuranceSpec => ClaimIsDecision
<1>1. ClockInit /\ InsuranceInit => ClaimDecision!DecisionInit
    BY DEF InsuranceInit, ClaimDecision!DecisionInit, ClaimStage, ClaimVotes
<1>2. InsuranceInv /\ InsuranceAct =>
          [\A i \in 1..MaxClaims : ClaimDecision!Decide(i)]_<<ClaimStage, ClaimVotes>>
    BY ClaimsDecide
<1>3. InsuranceInv /\ InsuranceAct => InsuranceInv'
    BY InsuranceStep
<1> QED
    BY <1>1, <1>2, <1>3, InsuranceInitial, PTL
       DEF InsuranceSpec, InsuranceAct, ClaimIsDecision, ClaimDecision!DecisionSpec

(***************************************************************************)
(* The history of a pool.                                                  *)
(***************************************************************************)

\* The slot of the i-th of the entries a ring holds, the oldest from first on.
Place(first, capacity, i) ==
    IF first + i <= capacity THEN first + i - 1 ELSE first + i - 1 - capacity

\* How many of n entries a ring holds.
Kept(n, capacity) == IF n > capacity THEN capacity ELSE n

\* The ring holds the last of the entries L that were ever written to it.
Held(ring, capacity, L) ==
    /\ ring = [slot |-> ring.slot, head |-> ring.head, count |-> ring.count]
    /\ ring.slot = [i \in 0 .. capacity - 1 |-> ring.slot[i]]
    /\ ring.count = Len(L) /\ ring.head \in 0 .. capacity - 1
    /\ ring.count < capacity => ring.head = ring.count
    /\ ring.count = capacity => ring.head = 0
    /\ \A i \in 1 .. Kept(Len(L), capacity) :
          ring.slot[Place(IF Len(L) > capacity THEN ring.head ELSE 0, capacity, i)]
              = <<L[Len(L) - Kept(Len(L), capacity) + i]>>

LEMMA RemainderOnce ==
    ASSUME NEW n \in Nat \ {0}, NEW h \in 0 .. (2 * n - 1)
    PROVE  h % n = IF h < n THEN h ELSE h - n
OBVIOUS

LEMMA HeldEmpty ==
    ASSUME NEW capacity \in Nat \ {0}
    PROVE  Held(EmptyRing(capacity), capacity, <<>>)
<1>1. Len(<<>>) = 0 /\ Kept(0, capacity) = 0 /\ 1 .. 0 = {} /\ 0 \in 0 .. capacity - 1
    BY DEF Kept
<1> QED
    BY <1>1 DEF Held, EmptyRing

\* Where the latest entry is.
LEMMA HeldLatest ==
    ASSUME NEW capacity \in Nat \ {0}, NEW S, NEW L \in Seq(S), L # <<>>,
           NEW ring, Held(ring, capacity, L)
    PROVE  /\ Latest(ring, capacity) \in 0 .. capacity - 1
           /\ ring.slot[Latest(ring, capacity)] = <<L[Len(L)]>>
<1> DEFINE n == Len(L)
           h == ring.head
           k == Kept(n, capacity)
           first == IF n > capacity THEN h ELSE 0
           latest == IF h = 0 THEN capacity - 1 ELSE h - 1
<1>1. n \in Nat /\ n # 0
    OBVIOUS
<1>2. /\ h \in 0 .. capacity - 1
      /\ n < capacity => h = n
      /\ n = capacity => h = 0
      /\ \A i \in 1 .. k : ring.slot[Place(first, capacity, i)] = <<L[n - k + i]>>
    BY DEF Held
<1>3. latest = Latest(ring, capacity)
    BY DEF Latest
<1> HIDE DEF n, h
<1>4. k \in 1 .. k /\ n - k + k = n /\ latest \in 0 .. capacity - 1
    BY <1>1, <1>2 DEF Kept
<1>5. Place(first, capacity, k) = latest
    BY <1>1, <1>2 DEF Kept, Place
<1>6. ring.slot[latest] = <<L[n]>>
    BY <1>2, <1>4, <1>5
<1> QED
    BY <1>3, <1>4, <1>6 DEF n

\* What is written at the head comes after what is kept.
LEMMA HeldPushed ==
    ASSUME NEW capacity \in Nat \ {0}, NEW S, NEW L \in Seq(S), NEW entry \in S,
           NEW ring, Held(ring, capacity, L)
    PROVE  Held(Pushed(ring, capacity, entry), capacity, Append(L, entry))
<1> DEFINE n == Len(L)
           h == ring.head
           k == Kept(n, capacity)
           k2 == Kept(n + 1, capacity)
           first == IF n > capacity THEN h ELSE 0
           h2 == IF h = capacity - 1 THEN 0 ELSE h + 1
           first2 == IF n + 1 > capacity THEN h2 ELSE 0
           slot == ring.slot
           slot2 == [slot EXCEPT ![h] = <<entry>>]
           M == Append(L, entry)
<1>1. n \in Nat
    OBVIOUS
<1>2. /\ slot = [i \in 0 .. capacity - 1 |-> slot[i]]
      /\ ring.count = n /\ h \in 0 .. capacity - 1
      /\ n < capacity => h = n
      /\ n = capacity => h = 0
    BY DEF Held
<1>3. \A i \in 1 .. k : slot[Place(first, capacity, i)] = <<L[n - k + i]>>
    BY DEF Held
<1>4. (h + 1) % capacity = h2
    <2> DEFINE a == h + 1
    <2>1. a \in 0 .. (2 * capacity - 1) /\ (a < capacity <=> h # capacity - 1)
        BY <1>2
    <2> HIDE DEF a
    <2>2. a % capacity = IF a < capacity THEN a ELSE a - capacity
        BY <2>1, RemainderOnce
    <2> QED
        BY <2>1, <2>2, <1>2 DEF a
<1>5. Pushed(ring, capacity, entry) = [slot |-> slot2, head |-> h2, count |-> n + 1]
    BY <1>2, <1>4 DEF Pushed
<1>6. Len(M) = n + 1 /\ M[n + 1] = entry /\ \A i \in 1 .. n : M[i] = L[i]
    OBVIOUS
<1>7. slot2 = [i \in 0 .. capacity - 1 |-> IF i = h THEN <<entry>> ELSE slot[i]]
    BY <1>2
<1> HIDE DEF n, h, slot, M
<1>8. /\ h2 \in 0 .. capacity - 1
      /\ n + 1 < capacity => h2 = n + 1
      /\ n + 1 = capacity => h2 = 0
    BY <1>1, <1>2
<1>9. ASSUME NEW i \in 1 .. k2
      PROVE  slot2[Place(first2, capacity, i)] = <<M[(n + 1) - k2 + i]>>
    <2>1. CASE i = k2
        <3>1. Place(first2, capacity, i) = h /\ (n + 1) - k2 + i = n + 1
            BY <1>1, <1>2, <2>1 DEF Kept, Place
        <3> QED
            BY <3>1, <1>2, <1>6, <1>7
    <2>2. CASE i # k2
        <3> DEFINE j == IF n < capacity THEN i ELSE i + 1
                   p == Place(first2, capacity, i)
        <3>1. j \in 1 .. k /\ n - k + j \in 1 .. n /\ n - k + j = (n + 1) - k2 + i
            BY <1>1, <2>2 DEF Kept
        <3>2. p = Place(first, capacity, j) /\ p # h /\ p \in 0 .. capacity - 1
            <4>1. CASE n < capacity
                BY <4>1, <1>1, <1>2, <2>2 DEF Kept, Place
            <4>2. CASE n = capacity
                BY <4>2, <1>1, <1>2, <2>2 DEF Kept, Place
            <4>3. CASE n > capacity
                <5>1. first = h /\ first2 = h2 /\ k2 = capacity /\ j = i + 1
                    BY <4>3, <1>1, <1>2 DEF Kept
                <5> HIDE DEF first, first2, k2, j
                <5>2. i \in 1 .. capacity - 1
                    BY <5>1, <2>2
                <5>3. CASE h = capacity - 1
                    <6>1. h2 = 0
                        BY <5>3
                    <6> HIDE DEF h2
                    <6> QED
                        BY <5>1, <5>2, <5>3, <6>1 DEF Place
                <5>4. CASE h # capacity - 1
                    <6>1. h2 = h + 1
                        BY <5>4
                    <6> HIDE DEF h2
                    <6>2. p = IF h + 1 + i <= capacity THEN h + i ELSE h + i - capacity
                        BY <5>1, <5>2, <6>1, <1>2 DEF Place
                    <6>3. Place(first, capacity, j)
                            = IF h + 1 + i <= capacity THEN h + i ELSE h + i - capacity
                        BY <5>1, <5>2, <1>2 DEF Place
                    <6> HIDE DEF p
                    <6>4. p # h /\ p \in 0 .. capacity - 1
                        BY <5>2, <6>2, <1>2
                    <6> QED
                        BY <6>2, <6>3, <6>4
                <5> QED
                    BY <5>3, <5>4
            <4> QED
                BY <1>1, <4>1, <4>2, <4>3
        <3> HIDE DEF p, j
        <3>3. slot2[p] = slot[p] /\ slot[p] = <<L[n - k + j]>>
            BY <3>1, <3>2, <1>3, <1>7
        <3> QED
            BY <3>1, <3>3, <1>6 DEF p
    <2> QED
        BY <2>1, <2>2
<1> DEFINE new == Pushed(ring, capacity, entry)
<1>10. new = [slot |-> slot2, head |-> h2, count |-> n + 1]
    BY <1>5
<1> HIDE DEF new
<1>11. /\ new.slot = slot2 /\ new.head = h2 /\ new.count = n + 1
       /\ new = [slot |-> new.slot, head |-> new.head, count |-> new.count]
    BY <1>10
<1>12. slot2 = [i \in 0 .. capacity - 1 |-> slot2[i]]
    BY <1>7
<1> HIDE DEF slot2, h2, k2
<1>13. \A i \in 1 .. k2 : slot2[Place(first2, capacity, i)] = <<M[(n + 1) - k2 + i]>>
    BY <1>9
<1> HIDE DEF first2
<1>14. Held(new, capacity, M)
    BY <1>6, <1>8, <1>11, <1>12, <1>13 DEF Held, first2, k2
<1> QED
    BY <1>14 DEF new, M

\* What is written over the latest entry takes its place.
LEMMA HeldReplaced ==
    ASSUME NEW capacity \in Nat \ {0}, NEW S, NEW L \in Seq(S), L # <<>>, NEW entry \in S,
           NEW ring, Held(ring, capacity, L)
    PROVE  Held([ring EXCEPT !.slot[Latest(ring, capacity)] = <<entry>>], capacity,
                [L EXCEPT ![Len(L)] = entry])
<1> DEFINE n == Len(L)
           h == ring.head
           k == Kept(n, capacity)
           first == IF n > capacity THEN h ELSE 0
           latest == Latest(ring, capacity)
           slot == ring.slot
           slot2 == [slot EXCEPT ![latest] = <<entry>>]
           M == [L EXCEPT ![n] = entry]
           new == [ring EXCEPT !.slot[latest] = <<entry>>]
<1>1. n \in Nat /\ n # 0
    OBVIOUS
<1>2. /\ slot = [i \in 0 .. capacity - 1 |-> slot[i]]
      /\ ring = [slot |-> slot, head |-> h, count |-> n]
      /\ h \in 0 .. capacity - 1
      /\ n < capacity => h = n
      /\ n = capacity => h = 0
    BY DEF Held
<1>3. \A i \in 1 .. k : slot[Place(first, capacity, i)] = <<L[n - k + i]>>
    BY DEF Held
<1>4. latest = IF h = 0 THEN capacity - 1 ELSE h - 1
    BY DEF Latest
<1>5. Len(M) = n /\ M[n] = entry /\ \A i \in 1 .. n : i # n => M[i] = L[i]
    OBVIOUS
<1>6. new = [slot |-> slot2, head |-> h, count |-> n]
    <2>1. new = [ring EXCEPT !.slot = slot2]
        OBVIOUS
    <2> HIDE DEF new, slot2, h, n, slot
    <2> QED
        BY <1>2, <2>1
<1> HIDE DEF n, h, slot, M, latest
<1> HIDE DEF new
<1>7. /\ new.slot = slot2 /\ new.head = h /\ new.count = n
      /\ new = [slot |-> new.slot, head |-> new.head, count |-> new.count]
    BY <1>6
<1>8. slot2 = [i \in 0 .. capacity - 1 |-> IF i = latest THEN <<entry>> ELSE slot[i]]
    BY <1>2
<1>9. ASSUME NEW i \in 1 .. k
      PROVE  slot2[Place(first, capacity, i)] = <<M[n - k + i]>>
    <2> DEFINE p == Place(first, capacity, i)
    <2>1. /\ p \in 0 .. capacity - 1
          /\ p = latest <=> i = k
          /\ n - k + i \in 1 .. n
          /\ n - k + i = n <=> i = k
        <3>1. n <= capacity => k = n
            BY <1>1 DEF Kept
        <3>2. n > capacity => k = capacity
            BY <1>1 DEF Kept
        <3>3. CASE n > capacity
            <4>1. first = h /\ k = capacity
                BY <3>2, <3>3
            <4> HIDE DEF first, k
            <4>2. p = IF h + i <= capacity THEN h + i - 1 ELSE h + i - 1 - capacity
                BY <4>1 DEF Place
            <4> HIDE DEF p
            <4>3. /\ p \in 0 .. capacity - 1
                  /\ p = latest <=> i = capacity
                BY <1>2, <1>4, <4>1, <4>2
            <4>4. /\ n - k + i \in 1 .. n
                  /\ n - k + i = n <=> i = capacity
                BY <1>1, <3>3, <4>1
            <4> QED
                BY <4>1, <4>3, <4>4
        <3>4. CASE n <= capacity
            BY <1>1, <1>2, <1>4, <3>1, <3>4 DEF Place
        <3> QED
            BY <1>1, <3>3, <3>4
    <2>2. slot[p] = <<L[n - k + i]>>
        BY <1>3
    <2> HIDE DEF p
    <2>3. CASE i = k
        BY <2>1, <2>3, <1>5, <1>8 DEF p
    <2>4. CASE i # k
        BY <2>1, <2>2, <2>4, <1>5, <1>8 DEF p
    <2> QED
        BY <2>3, <2>4
<1>10. slot2 = [i \in 0 .. capacity - 1 |-> slot2[i]]
    BY <1>8
<1> HIDE DEF slot2, k
<1>11. \A i \in 1 .. k : slot2[Place(first, capacity, i)] = <<M[n - k + i]>>
    BY <1>9
<1> HIDE DEF first
<1>12. Held(new, capacity, M)
    BY <1>2, <1>5, <1>7, <1>10, <1>11 DEF Held, first, k
<1> QED
    BY <1>12 DEF new, M, n, latest

\* Read from its oldest entry on, the ring is the last entries in their order.
LEMMA HeldChronological ==
    ASSUME NEW capacity \in Nat \ {0}, NEW S, NEW L \in Seq(S),
           NEW ring, Held(ring, capacity, L)
    PROVE  Chronological(ring, capacity) = LastOnes(L, capacity)
<1> DEFINE n == Len(L)
           k == Kept(n, capacity)
           first == IF n > capacity THEN ring.head ELSE 0
<1>1. n \in Nat /\ ring.count = n /\ ring.head \in 0 .. capacity - 1
    BY DEF Held
<1>2. \A i \in 1 .. k : ring.slot[Place(first, capacity, i)] = <<L[n - k + i]>>
    BY DEF Held
<1>3. /\ Chronological(ring, capacity)
            = [i \in 1 .. k |-> ring.slot[(first + i - 1) % capacity][1]]
      /\ LastOnes(L, capacity) = [i \in 1 .. k |-> L[n - k + i]]
    BY <1>1 DEF Chronological, LastOnes, Kept
<1> HIDE DEF n
<1>4. ASSUME NEW i \in 1 .. k
      PROVE  (first + i - 1) % capacity = Place(first, capacity, i)
    <2> DEFINE a == first + i - 1
    <2>1. a \in 0 .. (2 * capacity - 1)
        BY <1>1 DEF Kept
    <2>2. Place(first, capacity, i) = IF a < capacity THEN a ELSE a - capacity
        BY <1>1 DEF Place, Kept
    <2> HIDE DEF a
    <2>3. a % capacity = IF a < capacity THEN a ELSE a - capacity
        BY <2>1, RemainderOnce
    <2> QED
        BY <2>2, <2>3 DEF a
<1> HIDE DEF k, first
<1>5. \A i \in 1 .. k : ring.slot[(first + i - 1) % capacity][1] = L[n - k + i]
    BY <1>2, <1>4
<1> QED
    BY <1>3, <1>5

Snapshot == [at : Nat, price : Nat, volume : Nat]

Bucket == [day : Nat, open : Nat, high : Nat, low : Nat, close : Nat,
           volume : Nat, count : Nat]

\* The snapshots R of a day, and what a bucket says of those at positions P.
TakenOn(R, day) == {i \in DOMAIN R : R[i].at \div DaySecs = day}

Ends(b, R, P) ==
    \E first, last \in P :
        /\ b.open = R[first].price /\ b.close = R[last].price
        /\ \A i \in P : first <= i /\ i <= last

Extremes(b, R, P) ==
    /\ \A i \in P : b.low <= R[i].price /\ R[i].price <= b.high
    /\ {b.low, b.high} \subseteq {R[i].price : i \in P}

Totals(b, R, P) ==
    /\ b.volume = SumFunctionOnSet([i \in P |-> R[i].volume], P)
    /\ b.count = Cardinality(P)

Says(b, R, P) == Ends(b, R, P) /\ Extremes(b, R, P) /\ Totals(b, R, P)

\* M is R and one snapshot s more.
OneMore(M, R, s) ==
    /\ R \in Seq(Snapshot) /\ s \in Snapshot /\ M = Append(R, s)

LEMMA OneMoreHas ==
    ASSUME NEW M, NEW R, NEW s, OneMore(M, R, s)
    PROVE  /\ Len(R) \in Nat /\ DOMAIN R = 1 .. Len(R) /\ M \in Seq(Snapshot)
           /\ DOMAIN M = 1 .. Len(R) + 1 /\ M[Len(R) + 1] = s
           /\ \A i \in DOMAIN R : R[i] \in Snapshot /\ M[i] = R[i]
BY DEF OneMore

\* At the positions there were, nothing has changed.
LEMMA SaysStill ==
    ASSUME NEW M, NEW R, NEW s, OneMore(M, R, s), NEW P \in SUBSET (DOMAIN R), NEW b,
           Says(b, R, P)
    PROVE  Says(b, M, P)
<1>1. \A i \in P : M[i] = R[i]
    BY OneMoreHas
<1>2. Ends(b, M, P)
    BY <1>1 DEF Says, Ends
<1>3. {M[i].price : i \in P} = {R[i].price : i \in P}
    BY <1>1
<1>4. Extremes(b, M, P)
    BY <1>1, <1>3 DEF Says, Extremes
<1>5. [i \in P |-> M[i].volume] = [i \in P |-> R[i].volume]
    BY <1>1
<1>6. Totals(b, M, P)
    BY <1>5 DEF Says, Totals
<1> QED
    BY <1>2, <1>4, <1>6 DEF Says

LEMMA OtherDaySays ==
    ASSUME NEW M, NEW R, NEW s, OneMore(M, R, s), NEW b, b.day # s.at \div DaySecs,
           Says(b, R, TakenOn(R, b.day))
    PROVE  Says(b, M, TakenOn(M, b.day))
<1>1. TakenOn(M, b.day) = TakenOn(R, b.day)
    BY OneMoreHas DEF TakenOn
<1>2. TakenOn(R, b.day) \in SUBSET (DOMAIN R)
    BY DEF TakenOn
<1> QED
    BY <1>1, <1>2, SaysStill

\* The snapshots of the day of the one more.
LEMMA TakenMore ==
    ASSUME NEW M, NEW R, NEW s, OneMore(M, R, s)
    PROVE  /\ TakenOn(M, s.at \div DaySecs)
                = TakenOn(R, s.at \div DaySecs) \cup {Len(R) + 1}
           /\ TakenOn(R, s.at \div DaySecs) \in SUBSET (1 .. Len(R))
BY OneMoreHas DEF TakenOn

\* What update_daily_bucket makes of the day's bucket, and of none.
Merged(b, s) ==
    [b EXCEPT !.high = IF s.price > @ THEN s.price ELSE @,
              !.low = IF s.price < @ THEN s.price ELSE @,
              !.close = s.price, !.volume = @ + s.volume, !.count = @ + 1]

Started(s) ==
    [day |-> s.at \div DaySecs, open |-> s.price, high |-> s.price, low |-> s.price,
     close |-> s.price, volume |-> s.volume, count |-> 1]

LEMMA MergedHas ==
    ASSUME NEW b \in Bucket, NEW s \in Snapshot
    PROVE  /\ Merged(b, s) \in Bucket
           /\ Merged(b, s).day = b.day /\ Merged(b, s).open = b.open
           /\ Merged(b, s).close = s.price
           /\ Merged(b, s).high = IF s.price > b.high THEN s.price ELSE b.high
           /\ Merged(b, s).low = IF s.price < b.low THEN s.price ELSE b.low
           /\ Merged(b, s).volume = b.volume + s.volume
           /\ Merged(b, s).count = b.count + 1
<1> DEFINE high == IF s.price > b.high THEN s.price ELSE b.high
           low == IF s.price < b.low THEN s.price ELSE b.low
<1>1. high \in Nat /\ low \in Nat /\ s.price \in Nat /\ s.volume \in Nat
    BY DEF Bucket, Snapshot
<1> DEFINE b1 == [b EXCEPT !.high = high]
           b2 == [b1 EXCEPT !.low = low]
           b3 == [b2 EXCEPT !.close = s.price]
           b4 == [b3 EXCEPT !.volume = b.volume + s.volume]
           b5 == [b4 EXCEPT !.count = b.count + 1]
<1>2. Merged(b, s) = [day |-> b.day, open |-> b.open, high |-> high, low |-> low,
                      close |-> s.price, volume |-> b.volume + s.volume,
                      count |-> b.count + 1]
    <2>1. b = [day |-> b.day, open |-> b.open, high |-> b.high, low |-> b.low,
               close |-> b.close, volume |-> b.volume, count |-> b.count]
        BY DEF Bucket
    <2>2. Merged(b, s) = b5
        <3>1. b1.low = b.low /\ b3.volume = b.volume /\ b4.count = b.count
            BY <2>1
        <3> QED
            BY <3>1 DEF Merged
    <2> HIDE DEF high, low
    <2>3. b1 = [day |-> b.day, open |-> b.open, high |-> high, low |-> b.low,
                close |-> b.close, volume |-> b.volume, count |-> b.count]
        BY <2>1
    <2> HIDE DEF b1
    <2>4. b2 = [day |-> b.day, open |-> b.open, high |-> high, low |-> low,
                close |-> b.close, volume |-> b.volume, count |-> b.count]
        BY <2>3
    <2> HIDE DEF b2
    <2>5. b3 = [day |-> b.day, open |-> b.open, high |-> high, low |-> low,
                close |-> s.price, volume |-> b.volume, count |-> b.count]
        BY <2>4
    <2> HIDE DEF b3
    <2>6. b4 = [day |-> b.day, open |-> b.open, high |-> high, low |-> low,
                close |-> s.price, volume |-> b.volume + s.volume, count |-> b.count]
        BY <2>5
    <2> HIDE DEF b4
    <2>7. b5 = [day |-> b.day, open |-> b.open, high |-> high, low |-> low,
                close |-> s.price, volume |-> b.volume + s.volume,
                count |-> b.count + 1]
        BY <2>6
    <2> QED
        BY <2>2, <2>7
<1>3. /\ b.day \in Nat /\ b.open \in Nat /\ b.volume + s.volume \in Nat
      /\ b.count + 1 \in Nat
    BY <1>1 DEF Bucket
<1> HIDE DEF high, low
<1>4. Merged(b, s) \in Bucket
    BY <1>1, <1>2, <1>3 DEF Bucket
<1> QED
    BY <1>2, <1>4 DEF high, low

LEMMA MergedSays ==
    ASSUME NEW M, NEW R, NEW s, OneMore(M, R, s), NEW b \in Bucket,
           b.day = s.at \div DaySecs, Says(b, R, TakenOn(R, b.day))
    PROVE  Says(Merged(b, s), M, TakenOn(M, b.day))
<1> DEFINE P == TakenOn(R, b.day)
           n == Len(R)
           Q == P \cup {n + 1}
           c == Merged(b, s)
<1>1. TakenOn(M, b.day) = Q /\ P \in SUBSET (1 .. n) /\ n \in Nat
    <2>1. n \in Nat
        BY OneMoreHas
    <2>2. /\ TakenOn(M, s.at \div DaySecs)
                = TakenOn(R, s.at \div DaySecs) \cup {Len(R) + 1}
          /\ TakenOn(R, s.at \div DaySecs) \in SUBSET (1 .. Len(R))
        BY TakenMore
    <2> QED
        BY <2>1, <2>2
<1>2. Says(b, R, P)
    OBVIOUS
<1>3. s \in Snapshot /\ s.price \in Nat /\ s.volume \in Nat
    BY DEF OneMore, Snapshot
<1>4. /\ c.open = b.open /\ c.close = s.price
      /\ c.high = IF s.price > b.high THEN s.price ELSE b.high
      /\ c.low = IF s.price < b.low THEN s.price ELSE b.low
      /\ c.volume = b.volume + s.volume /\ c.count = b.count + 1
    BY <1>3, MergedHas
<1>5. /\ M[n + 1] = s
      /\ \A i \in 1 .. n : M[i] = R[i] /\ R[i].price \in Nat /\ R[i].volume \in Nat
    <2>1. M[n + 1] = s /\ \A i \in 1 .. n : R[i] \in Snapshot /\ M[i] = R[i]
        BY OneMoreHas
    <2> HIDE DEF n
    <2> QED
        BY <2>1 DEF Snapshot
<1>6. b.high \in Nat /\ b.low \in Nat
    BY DEF Bucket
<1> HIDE DEF P, n, c
<1>7. Ends(c, M, Q)
    <2>1. PICK first, last \in P :
              /\ b.open = R[first].price /\ b.close = R[last].price
              /\ \A i \in P : first <= i /\ i <= last
        BY <1>2 DEF Says, Ends
    <2>2. first \in Q /\ n + 1 \in Q /\ M[first].price = c.open /\ M[n + 1].price = c.close
        BY <1>1, <1>4, <1>5, <2>1
    <2>3. \A i \in Q : first <= i /\ i <= n + 1
        BY <1>1, <2>1
    <2> QED
        BY <2>2, <2>3 DEF Ends
<1>8. Extremes(c, M, Q)
    <2>1. /\ \A i \in P : b.low <= R[i].price /\ R[i].price <= b.high
          /\ {b.low, b.high} \subseteq {R[i].price : i \in P}
        BY <1>2 DEF Says, Extremes
    <2>2. ASSUME NEW i \in Q
          PROVE  c.low <= M[i].price /\ M[i].price <= c.high
        <3>1. CASE i \in P
            BY <3>1, <2>1, <1>1, <1>3, <1>4, <1>5, <1>6
        <3>2. CASE i = n + 1
            BY <3>2, <1>3, <1>4, <1>5, <1>6
        <3> QED
            BY <3>1, <3>2
    <2>3. \A i \in P : M[i].price = R[i].price
        BY <1>1, <1>5
    <2>4. {b.low, b.high, s.price} \subseteq {M[i].price : i \in Q}
        BY <1>5, <2>1, <2>3
    <2>5. {c.low, c.high} \subseteq {M[i].price : i \in Q}
        BY <1>4, <2>4
    <2> QED
        BY <2>2, <2>5 DEF Extremes
<1>9. Totals(c, M, Q)
    <2> DEFINE f == [i \in P |-> R[i].volume]
               g == [i \in Q |-> M[i].volume]
    <2>1. IsFiniteSet(P) /\ n + 1 \notin P
        <3>1. IsFiniteSet(1 .. n)
            BY <1>1, FS_Interval
        <3>2. n + 1 \notin 1 .. n
            BY <1>1
        <3> QED
            BY <1>1, <3>1, <3>2, FS_Subset
    <2>2. \A i \in P : f[i] \in Int /\ g[i] = f[i]
        BY <1>1, <1>5
    <2>3. g[n + 1] \in Int /\ g[n + 1] = s.volume
        BY <1>3, <1>5
    <2> HIDE DEF f, g
    <2>4. SumFunctionOnSet(g, Q) = SumFunctionOnSet(f, P) + g[n + 1]
        BY <2>1, <2>2, <2>3, SumExtend
    <2>5. Cardinality(Q) = Cardinality(P) + 1
        BY <2>1, FS_AddElement
    <2>6. b.volume = SumFunctionOnSet(f, P) /\ b.count = Cardinality(P)
        BY <1>2 DEF Says, Totals, f
    <2> QED
        BY <1>4, <2>3, <2>4, <2>5, <2>6 DEF Totals, g
<1>10. Says(c, M, Q)
    BY <1>7, <1>8, <1>9 DEF Says
<1> QED
    BY <1>1, <1>10 DEF c

LEMMA StartedSays ==
    ASSUME NEW M, NEW R, NEW s, OneMore(M, R, s), TakenOn(R, s.at \div DaySecs) = {}
    PROVE  Says(Started(s), M, TakenOn(M, s.at \div DaySecs))
<1> DEFINE n == Len(R)
           c == Started(s)
           g == [i \in {n + 1} |-> M[i].volume]
<1>1. TakenOn(M, s.at \div DaySecs) = {n + 1} /\ n + 1 \in Nat /\ M[n + 1] = s
    <2>1. n \in Nat /\ M[n + 1] = s
        BY OneMoreHas
    <2>2. TakenOn(M, s.at \div DaySecs) = TakenOn(R, s.at \div DaySecs) \cup {n + 1}
        BY TakenMore
    <2> QED
        BY <2>1, <2>2
<1>2. s.price \in Nat /\ s.volume \in Nat
    BY DEF OneMore, Snapshot
<1>3. Ends(c, M, {n + 1})
    BY <1>1, <1>2 DEF Ends, Started
<1>4. Extremes(c, M, {n + 1})
    BY <1>1, <1>2 DEF Extremes, Started
<1>5. SumFunctionOnSet(g, {n + 1}) = s.volume
    <2>1. g[n + 1] = s.volume /\ {} \cup {n + 1} = {n + 1}
        BY <1>1
    <2> HIDE DEF g
    <2> DEFINE none == {}
    <2>2. SumFunctionOnSet(g, none \cup {n + 1}) = SumFunctionOnSet(g, none) + g[n + 1]
        <3>1. IsFiniteSet(none) /\ n + 1 \notin none
            BY FS_EmptySet
        <3>2. \A x \in none \cup {n + 1} : g[x] \in Int
            BY <1>2, <2>1
        <3> HIDE DEF none
        <3> QED
            BY <3>1, <3>2, SumAdd
    <2>3. SumFunctionOnSet(g, {}) = 0
        BY SumEmpty
    <2> QED
        BY <1>2, <2>1, <2>2, <2>3
<1>6. Totals(c, M, {n + 1})
    BY <1>5, FS_Singleton DEF Totals, Started
<1> QED
    BY <1>1, <1>3, <1>4, <1>6 DEF Says

\* Every day's bucket there ever was, B, for the snapshots R: the days ascend,
\* each bucket says what its day's snapshots do, and each snapshot is in one.
DaysSummed(B, R) ==
    /\ B \in Seq(Bucket)
    /\ \A k \in DOMAIN B : Says(B[k], R, TakenOn(R, B[k].day))
    /\ \A j, k \in DOMAIN B : j < k => B[j].day < B[k].day
    /\ \A i \in DOMAIN R : \E k \in DOMAIN B : i \in TakenOn(R, B[k].day)

\* The snapshots R were taken one after the other, until now.
InOrder(R, t) ==
    /\ R \in Seq(Snapshot)
    /\ \A i \in DOMAIN R : R[i].at <= t
    /\ \A i, j \in DOMAIN R : i <= j => R[i].at <= R[j].at

\* What HistorySound needs to be inductive: the ring of snapshots holds the
\* last of those recorded and the ring of buckets the last of all days'.
PoolInv ==
    /\ now \in Nat /\ InOrder(recorded, now)
    /\ Held(snapshots, Capacity, recorded)
    /\ \E B : DaysSummed(B, recorded) /\ Held(buckets, DailyCapacity, B)
    /\ Len(recorded) > 1 => compared = recorded[Len(recorded) - 1]

LEMMA DayQuotient ==
    ASSUME NEW a \in Nat, NEW c \in Nat, a <= c
    PROVE  a \div DaySecs \in Nat /\ c \div DaySecs \in Nat
           /\ a \div DaySecs <= c \div DaySecs
BY PoolHistoryAssumption

LEMMA PoolInitInv == ClockInit /\ PoolInit => PoolInv
<1> SUFFICES ASSUME ClockInit, PoolInit PROVE PoolInv
    OBVIOUS
<1>1. now \in Nat /\ recorded = <<>>
    BY DEF ClockInit, PoolInit
<1>2. InOrder(recorded, now) /\ Len(recorded) = 0
    BY <1>1 DEF InOrder
<1>3. Held(snapshots, Capacity, <<>>) /\ Held(buckets, DailyCapacity, <<>>)
    BY HeldEmpty, PoolHistoryAssumption DEF PoolInit
<1>4. DaysSummed(<<>>, recorded)
    BY <1>1 DEF DaysSummed
<1> QED
    BY <1>1, <1>2, <1>3, <1>4 DEF PoolInv

\* The days of the buckets are the days of snapshots, none of them to come.
LEMMA DaysPast ==
    ASSUME NEW B, NEW R, NEW t \in Nat, InOrder(R, t), DaysSummed(B, R), NEW k \in DOMAIN B
    PROVE  B[k].day <= t \div DaySecs
<1>1. PICK i \in DOMAIN R : R[i].at \div DaySecs = B[k].day
    BY DEF DaysSummed, Says, Ends, TakenOn
<1>2. R[i].at \in Nat /\ R[i].at <= t
    <2>1. R[i] \in Snapshot /\ R[i].at <= t
        BY DEF InOrder
    <2> QED
        BY <2>1 DEF Snapshot
<1> QED
    BY <1>1, <1>2, DayQuotient

LEMMA OrderMore ==
    ASSUME NEW R, NEW M, NEW t \in Nat, InOrder(R, t), NEW s, OneMore(M, R, s), s.at = t
    PROVE  InOrder(M, t)
<1> DEFINE n == Len(R)
<1>1. /\ n \in Nat /\ DOMAIN R = 1 .. n /\ M \in Seq(Snapshot)
      /\ DOMAIN M = 1 .. n + 1 /\ M[n + 1] = s
      /\ \A i \in DOMAIN R : R[i] \in Snapshot /\ M[i] = R[i]
    BY OneMoreHas
<1> HIDE DEF n
<1>2. ASSUME NEW i \in DOMAIN M
      PROVE  M[i].at <= t
    BY <1>1 DEF InOrder
<1>3. ASSUME NEW i \in DOMAIN M, NEW j \in DOMAIN M, i <= j
      PROVE  M[i].at <= M[j].at
    <2>1. CASE j = n + 1
        BY <2>1, <1>1, <1>2
    <2>2. CASE j # n + 1
        BY <2>2, <1>1, <1>3 DEF InOrder
    <2> QED
        BY <2>1, <2>2
<1> QED
    BY <1>1, <1>2, <1>3 DEF InOrder

\* The last bucket takes the snapshot in.
LEMMA DayGoesOn ==
    ASSUME NEW B, NEW R, NEW M, NEW t \in Nat, InOrder(R, t), DaysSummed(B, R),
           NEW s, OneMore(M, R, s), s.at = t, B # <<>>,
           B[Len(B)].day = t \div DaySecs
    PROVE  DaysSummed([B EXCEPT ![Len(B)] = Merged(B[Len(B)], s)], M)
<1> DEFINE n == Len(B)
           b == B[n]
           c == Merged(b, s)
           D == [B EXCEPT ![n] = c]
<1>1. n \in Nat /\ n \in DOMAIN B /\ DOMAIN B = 1 .. n /\ B \in Seq(Bucket) /\ b \in Bucket
    BY DEF DaysSummed
<1>2. s \in Snapshot
    BY DEF OneMore
<1>3. c \in Bucket /\ c.day = b.day
    BY <1>1, <1>2, MergedHas
<1>4. /\ D \in Seq(Bucket) /\ DOMAIN D = DOMAIN B /\ D[n] = c
      /\ \A k \in DOMAIN B : k # n => D[k] = B[k]
    <2> HIDE DEF c
    <2> QED
        BY <1>1, <1>3
<1>5. b.day = s.at \div DaySecs
    OBVIOUS
<1> HIDE DEF D, c
<1>6. \A k \in DOMAIN B : D[k].day = B[k].day /\ B[k] \in Bucket
    BY <1>1, <1>3, <1>4
<1>7. ASSUME NEW k \in DOMAIN D
      PROVE  Says(D[k], M, TakenOn(M, D[k].day))
    <2>1. CASE k = n
        <3>1. Says(b, R, TakenOn(R, b.day))
            BY <1>1 DEF DaysSummed
        <3>2. Says(c, M, TakenOn(M, b.day))
            BY <3>1, <1>1, <1>5, MergedSays DEF c
        <3> QED
            BY <2>1, <3>2, <1>3, <1>4
    <2>2. CASE k # n
        <3>1. Says(B[k], R, TakenOn(R, B[k].day)) /\ B[k].day < b.day
            BY <1>1, <1>4, <2>2 DEF DaysSummed
        <3>2. B[k].day # s.at \div DaySecs
            BY <3>1, <1>4, <1>5, <1>6 DEF Bucket
        <3> QED
            BY <3>1, <3>2, <1>4, <2>2, OtherDaySays
    <2> QED
        BY <2>1, <2>2
<1>8. \A j, k \in DOMAIN D : j < k => D[j].day < D[k].day
    BY <1>4, <1>6 DEF DaysSummed
<1>9. ASSUME NEW i \in DOMAIN M
      PROVE  \E k \in DOMAIN D : i \in TakenOn(M, D[k].day)
    <2>1. CASE i = Len(R) + 1
        <3>1. i \in TakenOn(M, b.day)
            BY <2>1, <1>5, OneMoreHas DEF TakenOn
        <3> QED
            BY <3>1, <1>1, <1>4, <1>6
    <2>2. CASE i # Len(R) + 1
        <3>1. i \in DOMAIN R /\ M[i] = R[i]
            BY <2>2, OneMoreHas
        <3>2. PICK k \in DOMAIN B : i \in TakenOn(R, B[k].day)
            BY <3>1 DEF DaysSummed
        <3>3. i \in TakenOn(M, B[k].day)
            BY <3>1, <3>2 DEF TakenOn
        <3> QED
            BY <3>3, <1>4, <1>6
    <2> QED
        BY <2>1, <2>2
<1>10. DaysSummed(D, M)
    BY <1>4, <1>7, <1>8, <1>9 DEF DaysSummed
<1> QED
    BY <1>10 DEF D, c

\* The snapshot is the first of its day.
LEMMA DayBegins ==
    ASSUME NEW B, NEW R, NEW M, NEW t \in Nat, InOrder(R, t), DaysSummed(B, R),
           NEW s, OneMore(M, R, s), s.at = t,
           B # <<>> => B[Len(B)].day # t \div DaySecs
    PROVE  DaysSummed(Append(B, Started(s)), M)
<1> DEFINE n == Len(B)
           c == Started(s)
           D == Append(B, c)
           day == t \div DaySecs
<1>1. /\ n \in Nat /\ DOMAIN B = 1 .. n /\ B \in Seq(Bucket)
      /\ \A k \in DOMAIN B : B[k] \in Bucket
    BY DEF DaysSummed
<1>2. day \in Nat /\ s.price \in Nat /\ s.volume \in Nat
    BY DayQuotient DEF OneMore, Snapshot
<1>3. c \in Bucket /\ c.day = day
    BY <1>2 DEF Bucket, Started
<1>4. /\ D \in Seq(Bucket) /\ DOMAIN D = 1 .. n + 1 /\ D[n + 1] = c
      /\ \A k \in DOMAIN B : D[k] = B[k]
    <2> HIDE DEF c
    <2> QED
        BY <1>1, <1>3
<1>5. ASSUME NEW k \in DOMAIN B
      PROVE  B[k].day < day
    <2>1. n \in DOMAIN B /\ B # <<>>
        BY <1>1
    <2>2. k = n \/ k < n
        BY <1>1, <2>1
    <2>3. k < n => B[k].day < B[n].day
        BY <2>1 DEF DaysSummed
    <2>4. B[n].day <= day /\ B[n].day # day
        BY <2>1, DaysPast
    <2>5. B[k].day \in Nat /\ B[n].day \in Nat
        BY <1>1, <2>1 DEF Bucket
    <2> HIDE DEF n, day
    <2> QED
        BY <2>2, <2>3, <2>4, <2>5, <1>2
<1>6. s.at \div DaySecs = day
    OBVIOUS
<1>7. TakenOn(R, day) = {}
    <2> SUFFICES ASSUME NEW i \in TakenOn(R, day) PROVE FALSE
        OBVIOUS
    <2>1. PICK k \in DOMAIN B : i \in TakenOn(R, B[k].day)
        BY DEF DaysSummed, TakenOn
    <2>2. B[k].day = day
        BY <2>1 DEF TakenOn
    <2> HIDE DEF day
    <2> QED
        BY <2>1, <2>2, <1>2, <1>5
<1> HIDE DEF D
<1>8. ASSUME NEW k \in DOMAIN D
      PROVE  Says(D[k], M, TakenOn(M, D[k].day))
    <2>1. CASE k = n + 1
        <3>1. Says(c, M, TakenOn(M, day))
            BY <1>7, StartedSays
        <3> QED
            BY <2>1, <3>1, <1>3, <1>4
    <2>2. CASE k # n + 1
        <3>1. k \in DOMAIN B /\ D[k] = B[k]
            BY <1>1, <1>4, <2>2
        <3>2. Says(B[k], R, TakenOn(R, B[k].day))
            BY <3>1 DEF DaysSummed
        <3>3. B[k].day # s.at \div DaySecs
            <4>1. B[k].day < day /\ B[k].day \in Nat
                BY <3>1, <1>1, <1>5 DEF Bucket
            <4> HIDE DEF day
            <4> QED
                BY <4>1, <1>2, <1>6
        <3> QED
            BY <3>1, <3>2, <3>3, OtherDaySays
    <2> QED
        BY <2>1, <2>2
<1>9. ASSUME NEW j \in DOMAIN D, NEW k \in DOMAIN D, j < k
      PROVE  D[j].day < D[k].day
    <2>1. CASE k = n + 1
        BY <2>1, <1>1, <1>3, <1>4, <1>5, <1>9
    <2>2. CASE k # n + 1
        <3>1. j \in DOMAIN B /\ k \in DOMAIN B
            BY <1>1, <1>4, <1>9, <2>2
        <3> QED
            BY <3>1, <1>4, <1>9 DEF DaysSummed
    <2> QED
        BY <2>1, <2>2
<1>10. ASSUME NEW i \in DOMAIN M
       PROVE  \E k \in DOMAIN D : i \in TakenOn(M, D[k].day)
    <2>1. CASE i = Len(R) + 1
        <3>1. i \in TakenOn(M, day)
            BY <2>1, <1>6, OneMoreHas DEF TakenOn
        <3> QED
            BY <3>1, <1>1, <1>3, <1>4
    <2>2. CASE i # Len(R) + 1
        <3>1. i \in DOMAIN R /\ M[i] = R[i]
            BY <2>2, OneMoreHas
        <3>2. PICK k \in DOMAIN B : i \in TakenOn(R, B[k].day)
            BY <3>1 DEF DaysSummed
        <3>3. i \in TakenOn(M, B[k].day)
            BY <3>1, <3>2 DEF TakenOn
        <3> QED
            BY <3>3, <1>1, <1>4
    <2> QED
        BY <2>1, <2>2
<1>11. DaysSummed(D, M)
    BY <1>4, <1>8, <1>9, <1>10 DEF DaysSummed
<1> QED
    BY <1>11 DEF D

\* A call of record_pool_state: one ring has the snapshot, the other its day.
LEMMA PoolCall ==
    ASSUME PoolInv, NEW price \in Prices, NEW volume \in Volumes,
           record_pool_state(price, volume), now' = now
    PROVE  PoolInv'
<1> DEFINE s == [at |-> now, price |-> price, volume |-> volume]
           M == Append(recorded, s)
           last == Latest(buckets, DailyCapacity)
<1>1. PICK B : DaysSummed(B, recorded) /\ Held(buckets, DailyCapacity, B)
    BY DEF PoolInv
<1>2. /\ now \in Nat /\ InOrder(recorded, now) /\ recorded \in Seq(Snapshot)
      /\ Held(snapshots, Capacity, recorded)
    BY DEF PoolInv, InOrder
<1>3. s \in Snapshot /\ s.at = now /\ s.price = price /\ s.volume = volume
    BY <1>2, PoolHistoryAssumption DEF Snapshot
<1>4. /\ recorded' = M /\ snapshots' = Pushed(snapshots, Capacity, s)
      /\ buckets' = Bucketed(s)
    BY DEF record_pool_state
<1>5. OneMore(M, recorded, s)
    BY <1>2, <1>3 DEF OneMore
<1>6. B \in Seq(Bucket) /\ Capacity \in Nat \ {0} /\ DailyCapacity \in Nat \ {0}
    BY <1>1, PoolHistoryAssumption DEF DaysSummed
<1> HIDE DEF s
<1>7. InOrder(M, now)
    BY <1>2, <1>3, <1>5, OrderMore
<1>8. Held(snapshots', Capacity, M)
    <2>1. Held(Pushed(snapshots, Capacity, s), Capacity, M)
        BY <1>2, <1>3, <1>6, HeldPushed
    <2> QED
        BY <1>4, <2>1
<1>9. \E D : DaysSummed(D, M) /\ Held(buckets', DailyCapacity, D)
    <2>1. B # <<>> => /\ last \in 0 .. DailyCapacity - 1
                      /\ buckets.slot[last] = <<B[Len(B)]>>
        BY <1>1, <1>6, HeldLatest
    <2>2. buckets.count = Len(B)
        BY <1>1 DEF Held
    <2>3. CASE B # <<>> /\ B[Len(B)].day = now \div DaySecs
        <3> DEFINE D == [B EXCEPT ![Len(B)] = Merged(B[Len(B)], s)]
        <3>1. buckets' = [buckets EXCEPT !.slot[last] = <<Merged(B[Len(B)], s)>>]
            <4>1. Len(B) > 0 /\ buckets.slot[last][1] = B[Len(B)]
                BY <1>6, <2>1, <2>3
            <4> QED
                BY <1>3, <1>4, <2>2, <2>3, <4>1 DEF Bucketed, Merged
        <3>2. DaysSummed(D, M)
            BY <1>1, <1>2, <1>3, <1>5, <2>3, DayGoesOn
        <3>3. Merged(B[Len(B)], s) \in Bucket
            <4>1. B[Len(B)] \in Bucket
                BY <1>6, <2>3
            <4> QED
                BY <1>3, <4>1, MergedHas
        <3>4. Held([buckets EXCEPT !.slot[last] = <<Merged(B[Len(B)], s)>>], DailyCapacity, D)
            BY <1>1, <1>6, <2>3, <3>3, HeldReplaced
        <3> QED
            BY <3>1, <3>2, <3>4
    <2>4. CASE B # <<>> => B[Len(B)].day # now \div DaySecs
        <3>1. buckets' = Pushed(buckets, DailyCapacity, Started(s))
            <4>1. ~ (buckets.count > 0 /\ buckets.slot[last][1].day = now \div DaySecs)
                BY <1>6, <2>1, <2>2, <2>4
            <4> QED
                BY <1>3, <1>4, <4>1 DEF Bucketed, Started
        <3>2. DaysSummed(Append(B, Started(s)), M)
            BY <1>1, <1>2, <1>3, <1>5, <2>4, DayBegins
        <3>3. Started(s) \in Bucket
            <4>1. s.at \div DaySecs \in Nat /\ s.price \in Nat /\ s.volume \in Nat
                BY <1>2, <1>3, DayQuotient DEF Snapshot
            <4> QED
                BY <4>1 DEF Bucket, Started
        <3>4. Held(Pushed(buckets, DailyCapacity, Started(s)), DailyCapacity,
                   Append(B, Started(s)))
            BY <1>1, <1>6, <3>3, HeldPushed
        <3> QED
            BY <3>1, <3>2, <3>4
    <2> QED
        BY <2>3, <2>4
<1>10. Len(M) > 1 => compared' = M[Len(M) - 1]
    <2> DEFINE n == Len(recorded)
               latest == Latest(snapshots, Capacity)
    <2> SUFFICES ASSUME Len(M) > 1 PROVE compared' = M[Len(M) - 1]
        OBVIOUS
    <2>1. n \in Nat /\ Len(M) = n + 1 /\ n > 0 /\ M[n] = recorded[n] /\ recorded # <<>>
        BY <1>2
    <2>2. latest \in 0 .. Capacity - 1 /\ snapshots.slot[latest] = <<recorded[n]>>
        BY <1>2, <1>6, <2>1, HeldLatest
    <2>3. /\ snapshots.count = n /\ snapshots.head \in 0 .. Capacity - 1
          /\ snapshots.slot = [i \in 0 .. Capacity - 1 |-> snapshots.slot[i]]
        BY <1>2 DEF Held
    <2>4. latest # snapshots.head
        BY <2>3, PoolHistoryAssumption DEF Latest
    <2>5. compared' = Pushed(snapshots, Capacity, s).slot[latest][1]
        <3>1. Pushed(snapshots, Capacity, s).count = n + 1 /\ n + 1 > 1
            BY <2>1, <2>3 DEF Pushed
        <3>2. compared' = IF Pushed(snapshots, Capacity, s).count > 1
                          THEN Pushed(snapshots, Capacity, s).slot[latest][1] ELSE compared
            BY DEF record_pool_state, s, Latest
        <3> QED
            BY <3>1, <3>2
    <2>6. Pushed(snapshots, Capacity, s).slot[latest] = snapshots.slot[latest]
        <3> HIDE DEF latest
        <3> QED
            BY <2>2, <2>3, <2>4 DEF Pushed
    <2>7. Len(M) - 1 = n
        BY <2>1
    <2> HIDE DEF n, latest, M
    <2> QED
        BY <2>1, <2>2, <2>5, <2>6, <2>7
<1> HIDE DEF M
<1> QED
    BY <1>2, <1>4, <1>7, <1>8, <1>9, <1>10 DEF PoolInv

LEMMA PoolStep ==
    PoolInv /\ [PoolNext \/ (Tick /\ UNCHANGED poolVars)]_<<now, poolVars>> => PoolInv'
<1> SUFFICES ASSUME PoolInv,
                    [PoolNext \/ (Tick /\ UNCHANGED poolVars)]_<<now, poolVars>>
             PROVE  PoolInv'
    OBVIOUS
<1>1. CASE PoolNext
    BY <1>1, PoolCall DEF PoolNext
<1>2. CASE Tick /\ UNCHANGED poolVars
    <2>1. now' \in Nat /\ now <= now' /\ now \in Nat
        BY <1>2 DEF Tick, PoolInv
    <2>2. \A i \in DOMAIN recorded : recorded[i].at \in Nat
        <3>1. \A i \in DOMAIN recorded : recorded[i] \in Snapshot
            BY DEF PoolInv, InOrder
        <3> QED
            BY <3>1 DEF Snapshot
    <2>3. InOrder(recorded, now')
        BY <2>1, <2>2 DEF PoolInv, InOrder
    <2> QED
        BY <1>2, <2>1, <2>3 DEF PoolInv, poolVars
<1>3. CASE UNCHANGED <<now, poolVars>>
    BY <1>3 DEF PoolInv, poolVars
<1> QED
    BY <1>1, <1>2, <1>3

\* A ring of buckets that holds the last of all days' is a daily history.
LEMMA DailySound ==
    ASSUME NEW B, DaysSummed(B, recorded), NEW daily, daily = LastOnes(B, DailyCapacity)
    PROVE  /\ \A i \in DOMAIN daily : SumsUp(daily[i])
           /\ \A i, j \in DOMAIN daily : i < j => daily[i].day < daily[j].day
           /\ \A i \in DOMAIN recorded :
                 \/ \E j \in DOMAIN daily : i \in OnDay(daily[j].day)
                 \/ /\ Len(daily) = DailyCapacity
                    /\ recorded[i].at \div DaySecs < daily[1].day
<1> DEFINE n == Len(B)
           size == IF n > DailyCapacity THEN DailyCapacity ELSE n
<1>1. /\ n \in Nat /\ DOMAIN B = 1 .. n /\ DailyCapacity \in Nat \ {0}
      /\ \A k \in DOMAIN B : Says(B[k], recorded, TakenOn(recorded, B[k].day))
      /\ \A j, k \in DOMAIN B : j < k => B[j].day < B[k].day
      /\ \A i \in DOMAIN recorded :
            \E k \in DOMAIN B : i \in TakenOn(recorded, B[k].day)
    BY PoolHistoryAssumption DEF DaysSummed
<1>2. daily = [i \in 1 .. size |-> B[n - size + i]]
    BY DEF LastOnes
<1> HIDE DEF n
<1>3. size \in Nat /\ size <= n
    BY <1>1
<1>4. n > size => size = DailyCapacity
    BY <1>1
<1> HIDE DEF size
<1>5. /\ DOMAIN daily = 1 .. size /\ Len(daily) = size
      /\ \A i \in 1 .. size : daily[i] = B[n - size + i] /\ n - size + i \in 1 .. n
    BY <1>1, <1>2, <1>3
<1>6. \A i \in DOMAIN daily : SumsUp(daily[i])
    <2>1. \A b : Says(b, recorded, TakenOn(recorded, b.day)) => SumsUp(b)
        BY DEF Says, Ends, Extremes, Totals, TakenOn, OnDay, SumsUp
    <2> QED
        BY <1>1, <1>5, <2>1
<1>7. ASSUME NEW i \in DOMAIN daily, NEW j \in DOMAIN daily, i < j
      PROVE  daily[i].day < daily[j].day
    <2>1. n - size + i < n - size + j
        BY <1>1, <1>3, <1>5, <1>7
    <2> QED
        BY <1>1, <1>5, <2>1
<1>8. ASSUME NEW i \in DOMAIN recorded
      PROVE  \/ \E j \in DOMAIN daily : i \in OnDay(daily[j].day)
             \/ /\ Len(daily) = DailyCapacity
                /\ recorded[i].at \div DaySecs < daily[1].day
    <2>1. PICK k \in 1 .. n : i \in TakenOn(recorded, B[k].day)
        BY <1>1
    <2>2. CASE k > n - size
        <3> DEFINE j == k - (n - size)
        <3>1. j \in 1 .. size /\ n - size + j = k
            BY <1>1, <1>3, <2>2
        <3> HIDE DEF j
        <3>2. i \in OnDay(daily[j].day)
            BY <3>1, <1>5, <2>1 DEF OnDay, TakenOn
        <3> QED
            BY <3>1, <3>2, <1>5
    <2>3. CASE k <= n - size
        <3>1. n > size /\ size = DailyCapacity
            BY <1>1, <1>3, <1>4, <2>3
        <3>2. 1 \in 1 .. size /\ k < n - size + 1
            BY <1>1, <1>3, <2>3, <3>1
        <3>3. daily[1] = B[n - size + 1] /\ n - size + 1 \in 1 .. n
            BY <1>5, <3>2
        <3>4. B[k].day < B[n - size + 1].day
            BY <1>1, <3>2, <3>3
        <3> QED
            BY <1>5, <2>1, <3>1, <3>3, <3>4 DEF TakenOn
    <2> QED
        BY <1>1, <1>3, <2>2, <2>3
<1> QED
    BY <1>6, <1>7, <1>8

LEMMA PoolInvSound == PoolInv => HistorySound
<1> SUFFICES ASSUME PoolInv PROVE HistorySound
    OBVIOUS
<1>1. PICK B : DaysSummed(B, recorded) /\ Held(buckets, DailyCapacity, B)
    BY DEF PoolInv
<1>2. /\ recorded \in Seq(Snapshot) /\ Held(snapshots, Capacity, recorded)
      /\ B \in Seq(Bucket) /\ Capacity \in Nat \ {0} /\ DailyCapacity \in Nat \ {0}
    BY <1>1, PoolHistoryAssumption DEF PoolInv, InOrder, DaysSummed
<1>3. Chronological(snapshots, Capacity) = LastOnes(recorded, Capacity)
    BY <1>2, HeldChronological
<1> DEFINE daily == Chronological(buckets, DailyCapacity)
<1>4. daily = LastOnes(B, DailyCapacity)
    BY <1>1, <1>2, HeldChronological
<1> HIDE DEF daily
<1>5. /\ \A i \in DOMAIN daily : SumsUp(daily[i])
      /\ \A i, j \in DOMAIN daily : i < j => daily[i].day < daily[j].day
      /\ \A i \in DOMAIN recorded :
            \/ \E j \in DOMAIN daily : i \in OnDay(daily[j].day)
            \/ /\ Len(daily) = DailyCapacity
               /\ recorded[i].at \div DaySecs < daily[1].day
    BY <1>1, <1>4, DailySound
<1>6. recorded # <<>> =>
          snapshots.slot[Latest(snapshots, Capacity)][1] = recorded[Len(recorded)]
    BY <1>2, HeldLatest
<1>7. Len(recorded) > 1 => compared = recorded[Len(recorded) - 1]
    BY DEF PoolInv
<1> QED
    BY <1>3, <1>5, <1>6, <1>7 DEF HistorySound, daily

\* However often the rings have wrapped, the history a pool is asked for is
\* its latest snapshots in their order, and the daily history sums up every
\* day it covers and leaves out none but the oldest (liquidity_pool.rs).
THEOREM HistorySoundHolds == PoolHistorySpec => []HistorySound
<1>1. PoolHistorySpec => []PoolInv
    BY PoolInitInv, PoolStep, PTL DEF PoolHistorySpec
<1> QED
    BY <1>1, PoolInvSound, PTL
=============================================================================
