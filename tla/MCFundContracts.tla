--------------------------- MODULE MCFundContracts ---------------------------
(***************************************************************************)
(* The contracts that keep users' funds and the ones that meter and record *)
(* them, on one ledger, for TLC.  They share the ledger's clock and        *)
(* nothing else: none reads another's storage or calls another.  A         *)
(* behaviour of the ledger is therefore one behaviour of each, and it is   *)
(* enough to let one of them, inUse, be called while the others rest as    *)
(* they were deployed.                                                     *)
(*                                                                         *)
(* The escrow contract is used twice: with one deposit while the admin     *)
(* changes approvers and fees, and with two deposits, batches across them  *)
(* included, under settings that stay.  The rate limiter is used twice as  *)
(* well: by one user while one setting at a time differs from what it was  *)
(* at the start, and by two users under settings that stay.                *)
(***************************************************************************)
EXTENDS EscrowContract, EmergencyFundRecovery, InsurancePool, RateLimiter,
        LiquidityPoolHistory, TLC

VARIABLE inUse

restOfFunds == <<recoveryVars, insuranceVars, limiterVars, poolVars>>
fundVars == <<now, escrowVars, restOfFunds, inUse>>

\* A day, a week and a month; limits for two users, by default or of one's
\* own, the stricter ones or the laxer ones.
Lengths == [daily |-> 2, weekly |-> 3, monthly |-> 4]
TwoGlobals == {[daily |-> 6, weekly |-> 12], [daily |-> 3, weekly |-> 4]}
TwoLimits == {
    [value |-> [daily |-> 2, weekly |-> 3, monthly |-> 4],
     count |-> [daily |-> 2, weekly |-> 3, monthly |-> 3]],
    [value |-> [daily |-> 4, weekly |-> 4, monthly |-> 4],
     count |-> [daily |-> 2, weekly |-> 3, monthly |-> 4]]}

\* How long each of them is used.
Until == [escrow |-> 2, escrows |-> 2, recovery |-> 2, insurance |-> 2,
          limits |-> 3, users |-> 4, pool |-> 4]

FundInit ==
    /\ ClockInit
    /\ EscrowInit /\ RecoveryInit /\ InsuranceInit /\ LimiterInit /\ PoolInit
    /\ inUse \in DOMAIN Until
    /\ inUse # "escrow" => /\ Cardinality(board.approvers) = 1
                           /\ feeBps = Max(FeeRates)
    /\ inUse # "insurance" => council.threshold = 1 /\ council.approvers = Signer
    /\ cap.daily = 6 /\ cooldown = Min(Cooldowns)
    /\ inUse # "users" => defaults.value["daily"] = 2

EscrowStep ==
    /\ EscrowNext
    /\ \/ inUse = "escrow" /\ Len(escrows') <= 1
       \/ inUse = "escrows" /\ UNCHANGED <<board, feeBps, emergency>>

\* How many settings have been changed from what they were at first.
Changed ==
    Cardinality({u \in Sender : custom[u] # NoLimits})
    + Cardinality({u \in Sender : factor[u] # 10000}) + Cardinality(trusted)
    + (IF halted.emergency \/ halted.tripped THEN 1 ELSE 0)
    + (IF defaults \in LimitSets /\ defaults.value["daily"] = 2 THEN 0 ELSE 1)
    + (IF cap.daily = 6 THEN 0 ELSE 1)
    + (IF cooldown = Min(Cooldowns) THEN 0 ELSE 1)

TheSender == CHOOSE u \in Sender : TRUE

LimiterStep ==
    \/ /\ inUse = "limits" /\ LimiterNext /\ Changed' <= 1 /\ Len(log') <= 2
       /\ \A u \in Sender \ {TheSender} :
             /\ UNCHANGED <<usage[u], custom[u], factor[u]>> /\ u \notin trusted'
    \/ inUse = "users" /\ LimiterCalls /\ usage' # usage /\ UNCHANGED now

FundNext ==
    /\ inUse' = inUse
    /\ \/ EscrowStep /\ UNCHANGED restOfFunds
       \/ /\ inUse = "recovery" /\ RecoveryNext
          /\ UNCHANGED <<escrowVars, insuranceVars, limiterVars, poolVars>>
       \/ /\ inUse = "insurance" /\ InsuranceNext
          /\ UNCHANGED <<escrowVars, recoveryVars, limiterVars, poolVars>>
       \/ /\ LimiterStep
          /\ UNCHANGED <<escrowVars, recoveryVars, insuranceVars, poolVars>>
       \/ /\ inUse = "pool" /\ PoolNext
          /\ UNCHANGED <<escrowVars, recoveryVars, insuranceVars, limiterVars>>
       \/ /\ Tick
          /\ now < Until[inUse]
          /\ UNCHANGED <<escrowVars, restOfFunds>>
       \* time is over, and those who could still call rest
       \/ inUse \in {"users", "pool"} /\ now = MaxTime /\ UNCHANGED fundVars

\* Approvers are interchangeable.
Interchangeable == Permutations(Signer) \cup Permutations(Approver)

FundSpec == FundInit /\ [][FundNext]_fundVars
=============================================================================
