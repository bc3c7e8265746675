-------------------------- MODULE MultisigTreasury --------------------------
(***************************************************************************)
(* contracts/soroban/src/multisig_treasury.rs: signers propose             *)
(* transactions and sign them, a transaction that is signed often enough   *)
(* and is due is executed.  Calls are atomic and a call that panics        *)
(* changes nothing.  The limit of transactions "per day" counts for ever,  *)
(* or until somebody initialises the contract again, which nothing         *)
(* prevents: the ids then start anew.  Settings other than the threshold   *)
(* stay as they are.                                                       *)
(***************************************************************************)
EXTENDS LedgerClock, Sequences, FiniteSets

CONSTANTS
    Person,         \* addresses that are ever signers
    Large,          \* whether the amounts may exceed DEFAULT_SPENDING_LIMIT
    TimeDelay,      \* config.time_delay, for large amounts
    Emergency,      \* config.emergency_threshold
    MaxTransactions \* config.max_transactions_per_day

VARIABLES
    signers,        \* addresses with SignerData
    signerCount,    \* SIGNER_COUNT
    threshold,      \* config.threshold
    count,          \* NONCE, the last id, and TransactionCount, which equals it
    transactions,   \* Transaction by id
    whitelisted     \* the asset of the transactions is whitelisted

treasuryVars == <<signers, signerCount, threshold, count, transactions, whitelisted>>

TreasuryInit ==
    /\ signers \in SUBSET Person /\ threshold \in 1..Cardinality(signers)
    /\ signerCount = Cardinality(signers)
    /\ count = 0 /\ transactions = <<>>
    /\ whitelisted = FALSE

\* initialize, called again: old signers stay, but are not counted.
initialize(initial, n) ==
    /\ Cardinality(initial) >= n
    /\ signers' = signers \cup initial /\ signerCount' = Cardinality(initial)
    /\ threshold' = n
    /\ count' = 0
    /\ UNCHANGED <<transactions, whitelisted, now>>

\* sign_transaction_internal: whatever the status is, a signature that
\* completes the required ones makes it Approved.
Signed(t, s) ==
    LET all == t.signers \cup {s} IN
    [t EXCEPT !.signers = all,
              !.status = IF Cardinality(all) >= t.required THEN "Approved" ELSE @]

propose_transaction(s, large, emergency) ==
    LET new == Signed([creator |-> s, status |-> "Pending", signers |-> {},
                       required |-> IF emergency THEN Emergency ELSE threshold,
                       due |-> IF large THEN now + TimeDelay ELSE now], s)
    IN
    /\ s \in signers /\ count < MaxTransactions
    /\ count' = count + 1
    /\ transactions' = IF count' \in DOMAIN transactions
                       THEN [transactions EXCEPT ![count'] = new]
                       ELSE Append(transactions, new)
    /\ UNCHANGED <<signers, signerCount, threshold, whitelisted, now>>

sign_transaction(s, t) ==
    /\ s \in signers /\ s \notin transactions[t].signers
    /\ transactions' = [transactions EXCEPT ![t] = Signed(@, s)]
    /\ UNCHANGED <<signers, signerCount, threshold, count, whitelisted, now>>

execute_transaction(t) ==
    /\ transactions[t].status = "Pending"
    /\ Cardinality(transactions[t].signers) >= transactions[t].required
    /\ now >= transactions[t].due
    /\ whitelisted
    /\ transactions' = [transactions EXCEPT ![t].status = "Executed"]
    /\ UNCHANGED <<signers, signerCount, threshold, count, whitelisted, now>>

\* by its creator or the admin
cancel_transaction(t) ==
    /\ transactions[t].status = "Pending"
    /\ transactions' = [transactions EXCEPT ![t].status = "Cancelled"]
    /\ UNCHANGED <<signers, signerCount, threshold, count, whitelisted, now>>

add_signer(s) ==
    /\ s \notin signers
    /\ signers' = signers \cup {s} /\ signerCount' = signerCount + 1
    /\ UNCHANGED <<threshold, count, transactions, whitelisted, now>>

remove_signer(s) ==
    /\ s \in signers /\ signerCount - 1 >= threshold
    /\ signers' = signers \ {s} /\ signerCount' = signerCount - 1
    /\ UNCHANGED <<threshold, count, transactions, whitelisted, now>>

update_threshold(n) ==
    /\ n <= signerCount
    /\ threshold' = n
    /\ UNCHANGED <<signers, signerCount, count, transactions, whitelisted, now>>

\* whitelist_asset and remove_whitelisted_asset
set_whitelisted(on) ==
    /\ whitelisted' = on
    /\ UNCHANGED <<signers, signerCount, threshold, count, transactions, now>>

TreasuryNext ==
    \/ \E s \in Person :
          \/ \E large \in Large, emergency \in BOOLEAN : propose_transaction(s, large, emergency)
          \/ \E t \in DOMAIN transactions : sign_transaction(s, t)
          \/ add_signer(s) \/ remove_signer(s)
    \/ \E t \in DOMAIN transactions : execute_transaction(t) \/ cancel_transaction(t)
    \/ \E n \in 1..Cardinality(Person) : update_threshold(n)
    \/ \E initial \in SUBSET Person, n \in 1..Cardinality(Person) : initialize(initial, n)
    \/ \E on \in BOOLEAN : set_whitelisted(on)
    \/ Tick /\ UNCHANGED treasuryVars

\* Time passes, and whoever wants a payment keeps calling execute_transaction.
TreasurySpec ==
    /\ ClockInit /\ TreasuryInit
    /\ [][TreasuryNext]_<<now, treasuryVars>>
    /\ WF_<<now, treasuryVars>>(Tick /\ UNCHANGED treasuryVars)
    /\ \A t \in 1..MaxTransactions :
          WF_<<now, treasuryVars>>(t \in DOMAIN transactions /\ execute_transaction(t))

-----------------------------------------------------------------------------
(* Properties.                                                              *)

Approved(t) == t \in DOMAIN transactions /\ transactions[t].status = "Approved"

\* "Execute a transaction" (multisig_treasury.rs, execute_transaction): one
\* that has its signatures is executed, unless its asset leaves the whitelist.
ApprovedIsExecuted ==
    \A t \in 1..MaxTransactions :
        []<>~whitelisted \/ (Approved(t) ~> ~Approved(t))
=============================================================================
