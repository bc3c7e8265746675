------------------------- MODULE GovernanceContract -------------------------
(***************************************************************************)
(* contracts/soroban/src/governance.rs: voters propose, vote with their    *)
(* own and delegated power, and a proposal that passes is queued and       *)
(* executed after a timelock; guardians may execute an emergency proposal  *)
(* at once.  Calls are atomic and a call that panics changes nothing.      *)
(*                                                                         *)
(* The proposer and the admin may cancel, so cancelling is always open.    *)
(* All the settings may be changed at any time.                            *)
(***************************************************************************)
EXTENDS LedgerClock, Integers, Sequences, FiniteSets, Functions

CONSTANTS
    Voter,
    Guard,          \* addresses that are ever guardians
    Powers,         \* voting powers the admin registers
    Configs,        \* GovernanceConfigs that the admin sets
    MaxGovProposals \* bound of the model on the number of proposals

BasisPoints == 0..10000
Config == [timelock : Nat, period : Nat, delay : Nat, quorum : BasisPoints,
           pass : BasisPoints \ {0}, deposit : Int, quadratic : BOOLEAN, threshold : Nat]

ASSUME GovernanceAssumption ==
    /\ IsFiniteSet(Voter) /\ IsFiniteSet(Guard)
    /\ Powers \subseteq Nat
    /\ MaxGovProposals \in Nat
    /\ Configs \subseteq Config

VARIABLES
    power,          \* VotingPower
    delegate,       \* Delegation; a voter without one is its own
    received,       \* DelegatedPower
    supply,         \* TotalSupply
    guardians,      \* Guardian
    gapprovals,     \* GuardianApproval by proposal id, also of ids to come
    config,
    proposals,      \* Proposal by id; Executed by guardians is told apart; bar is
                    \* the majority it was finalized against and asked the number
                    \* of guardians it was executed on (history)
    ballots         \* VoteRecord by proposal id and voter; NoBallot without one

govVars == <<power, delegate, received, supply, guardians, gapprovals, config,
             proposals, ballots>>

VoteChoice == {"For", "Against", "Abstain"}
NoBallot == [choice |-> "none", votes |-> 0]

Proposal == [emergency : BOOLEAN, start : Nat, end : Nat, due : Nat,
             for : Nat, against : Nat, abstain : Nat, bar : BasisPoints, asked : Nat,
             status : {"Pending", "Active", "Passed", "Failed", "Queued",
                       "Executed", "GuardianExecuted", "Cancelled"}]

GovTypeOK ==
    /\ power \in [Voter -> Nat] /\ delegate \in [Voter -> Voter]
    /\ received \in [Voter -> Nat] /\ supply \in Nat
    /\ guardians \subseteq Guard
    /\ gapprovals \in [1..MaxGovProposals -> SUBSET Guard]
    /\ config \in Configs
    /\ proposals \in Seq(Proposal)
    /\ ballots \in [1..MaxGovProposals -> [Voter -> {NoBallot} \cup [choice : VoteChoice, votes : Nat]]]

GovInit ==
    /\ power = [v \in Voter |-> 0] /\ received = [v \in Voter |-> 0] /\ supply = 0
    /\ delegate = [v \in Voter |-> v]
    /\ guardians = {}
    /\ gapprovals = [p \in 1..MaxGovProposals |-> {}]
    /\ config \in Configs
    /\ proposals = <<>>
    /\ ballots = [p \in 1..MaxGovProposals |-> [v \in Voter |-> NoBallot]]

SetStatus(p, status) == proposals' = [proposals EXCEPT ![p].status = status]

-----------------------------------------------------------------------------
(* Voting power, guardians and settings.                                    *)

effective_power(v) == (IF delegate[v] = v THEN power[v] ELSE 0) + received[v]

\* What was delegated before stays delegated at its old value.
set_voting_power(v, n) ==
    /\ power' = [power EXCEPT ![v] = n]
    /\ supply' = supply - power[v] + n
    /\ UNCHANGED <<delegate, received, guardians, gapprovals, config, proposals, ballots>>

\* remove_delegation_internal
Reclaimed(v) ==
    IF delegate[v] = v THEN received
    ELSE [received EXCEPT ![delegate[v]] = IF @ > power[v] THEN @ - power[v] ELSE 0]

delegate_votes(v, w) ==
    /\ v # w
    /\ delegate' = [delegate EXCEPT ![v] = w]
    /\ received' = [Reclaimed(v) EXCEPT ![w] = @ + power[v]]
    /\ UNCHANGED <<power, supply, guardians, gapprovals, config, proposals, ballots>>

undelegate_votes(v) ==
    /\ delegate' = [delegate EXCEPT ![v] = v]
    /\ received' = Reclaimed(v)
    /\ UNCHANGED <<power, supply, guardians, gapprovals, config, proposals, ballots>>

\* add_guardian and remove_guardian; approvals that were given stay.
set_guardians(g) ==
    /\ guardians' \in {guardians \cup {g}, guardians \ {g}}
    /\ UNCHANGED <<power, delegate, received, supply, gapprovals, config, proposals, ballots>>

update_config(c) ==
    /\ config' = c
    /\ UNCHANGED <<power, delegate, received, supply, guardians, gapprovals, proposals, ballots>>

-----------------------------------------------------------------------------
(* The life of a proposal.                                                  *)

\* The deposit is only a power the proposer must have.
create_proposal(v, emergency) ==
    /\ effective_power(v) >= config.deposit
    /\ Len(proposals) < MaxGovProposals
    /\ proposals' = Append(proposals,
           [emergency |-> emergency, start |-> now + config.delay,
            end |-> now + config.delay + config.period, due |-> 0,
            for |-> 0, against |-> 0, abstain |-> 0, bar |-> 0, asked |-> 0,
            status |-> "Pending"])
    /\ UNCHANGED <<power, delegate, received, supply, guardians, gapprovals, config, ballots>>

activate_proposal(p) ==
    /\ proposals[p].status = "Pending" /\ now >= proposals[p].start
    /\ SetStatus(p, "Active")
    /\ UNCHANGED <<power, delegate, received, supply, guardians, gapprovals, config, ballots>>

isqrt(n) == CHOOSE r \in 0..n : r * r <= n /\ (r + 1) * (r + 1) > n

Counted(p, choice, n) ==
    proposals' = [proposals EXCEPT
        ![p].for = IF choice = "For" THEN @ + n ELSE @,
        ![p].against = IF choice = "Against" THEN @ + n ELSE @,
        ![p].abstain = IF choice = "Abstain" THEN @ + n ELSE @]

\* Mutant: a voter who votes again replaces the ballot but is counted again.
cast_vote_Again(v, p, choice) ==
    LET n == effective_power(v)
        votes == IF config.quadratic THEN isqrt(n) ELSE n
    IN
    /\ proposals[p].status = "Active"
    /\ now >= proposals[p].start /\ now <= proposals[p].end
    /\ n > 0
    /\ ballots' = [ballots EXCEPT ![p][v] = [choice |-> choice, votes |-> votes]]
    /\ Counted(p, choice, votes)
    /\ UNCHANGED <<power, delegate, received, supply, guardians, gapprovals, config>>

cast_vote(v, p, choice) ==
    LET n == effective_power(v)
        votes == IF config.quadratic THEN isqrt(n) ELSE n
    IN
    /\ proposals[p].status = "Active"
    /\ now >= proposals[p].start /\ now <= proposals[p].end
    /\ ballots[p][v] = NoBallot
    /\ n > 0
    /\ ballots' = [ballots EXCEPT ![p][v] = [choice |-> choice, votes |-> votes]]
    /\ Counted(p, choice, votes)
    /\ UNCHANGED <<power, delegate, received, supply, guardians, gapprovals, config>>

Passes(p) ==
    LET decided == proposals[p].for + proposals[p].against
        votes == decided + proposals[p].abstain
    IN
    /\ supply > 0 /\ (votes * 10000) \div supply >= config.quorum
    /\ decided > 0 /\ (proposals[p].for * 10000) \div decided >= config.pass

finalize_proposal(p) ==
    /\ proposals[p].status = "Active"
    /\ now > proposals[p].end
    /\ proposals' = [proposals EXCEPT ![p].bar = config.pass,
                         ![p].status = IF Passes(p) THEN "Passed" ELSE "Failed"]
    /\ UNCHANGED <<power, delegate, received, supply, guardians, gapprovals, config, ballots>>

queue_proposal(p) ==
    /\ proposals[p].status = "Passed"
    /\ proposals' = [proposals EXCEPT ![p].due = now + config.timelock,
                                      ![p].status = "Queued"]
    /\ UNCHANGED <<power, delegate, received, supply, guardians, gapprovals, config, ballots>>

execute_proposal(p) ==
    /\ proposals[p].status = "Queued" /\ now >= proposals[p].due
    /\ SetStatus(p, "Executed")
    /\ UNCHANGED <<power, delegate, received, supply, guardians, gapprovals, config, ballots>>

\* Neither the proposal nor its status is looked at.
guardian_approve(g, p) ==
    /\ g \in guardians /\ g \notin gapprovals[p]
    /\ gapprovals' = [gapprovals EXCEPT ![p] = @ \cup {g}]
    /\ UNCHANGED <<power, delegate, received, supply, guardians, config, proposals, ballots>>

\* by any guardian
guardian_execute(p) ==
    /\ guardians # {}
    /\ Cardinality(gapprovals[p]) >= config.threshold
    /\ proposals[p].emergency
    /\ proposals[p].status \in {"Active", "Passed", "Queued"}
    /\ proposals' = [proposals EXCEPT ![p].asked = config.threshold,
                                      ![p].status = "GuardianExecuted"]
    /\ UNCHANGED <<power, delegate, received, supply, guardians, gapprovals, config, ballots>>

\* Mutant: what was executed can be cancelled.
cancel_proposal_Executed(p) ==
    /\ proposals[p].status \notin {"Failed", "Cancelled"}
    /\ SetStatus(p, "Cancelled")
    /\ UNCHANGED <<power, delegate, received, supply, guardians, gapprovals, config, ballots>>

cancel_proposal(p) ==
    /\ proposals[p].status \in {"Pending", "Active", "Passed", "Queued"}
    /\ SetStatus(p, "Cancelled")
    /\ UNCHANGED <<power, delegate, received, supply, guardians, gapprovals, config, ballots>>

GovNext ==
    /\ \/ \E v \in Voter :
             \/ \E n \in Powers : set_voting_power(v, n)
             \/ \E w \in Voter : delegate_votes(v, w)
             \/ undelegate_votes(v)
             \/ \E emergency \in BOOLEAN : create_proposal(v, emergency)
             \/ \E p \in DOMAIN proposals, choice \in VoteChoice : cast_vote(v, p, choice)
       \/ \E g \in Guard : set_guardians(g)
       \/ \E g \in Guard, p \in 1..MaxGovProposals : guardian_approve(g, p)
       \/ \E c \in Configs : update_config(c)
       \/ \E p \in DOMAIN proposals :
             \/ activate_proposal(p) \/ finalize_proposal(p) \/ queue_proposal(p)
             \/ execute_proposal(p) \/ guardian_execute(p) \/ cancel_proposal(p)
    /\ UNCHANGED now

\* The votes and the ledger's clock by themselves.
GovSpec ==
    /\ ClockInit /\ GovInit
    /\ [][GovNext \/ (Tick /\ UNCHANGED govVars)]_<<now, govVars>>

-----------------------------------------------------------------------------
(* Properties.                                                              *)

VotesFor(p, choice) ==
    SumFunctionOnSet([v \in Voter |-> ballots[p][v].votes],
                     {v \in Voter : ballots[p][v].choice = choice})

\* A proposal's tally is its ballots, one of each voter, although powers,
\* delegations and the way of counting change between two votes; and nobody's
\* vote is counted once the outcome is known.
TallyIsBallots ==
    \A p \in DOMAIN proposals :
        /\ proposals[p].for = VotesFor(p, "For")
        /\ proposals[p].against = VotesFor(p, "Against")
        /\ proposals[p].abstain = VotesFor(p, "Abstain")

\* What was executed by vote had, over the whole voting period, the majority
\* asked for when it was finalized, and was executed after its timelock,
\* whatever the settings and powers are now; what the guardians executed is an
\* emergency that as many of them had approved as were asked for then, and no
\* change of the guardians takes an approval back.
ExecutedWasDecided ==
    \A p \in DOMAIN proposals :
        LET q == proposals[p] IN
        /\ q.status \in {"Queued", "Executed"} =>
              /\ q.for * 10000 >= q.bar * (q.for + q.against)
              /\ q.for + q.against > 0 /\ now > q.end /\ q.due > q.end
              /\ q.status = "Executed" => now >= q.due
        /\ q.status = "GuardianExecuted" =>
              q.emergency /\ Cardinality(gapprovals[p]) >= q.asked

\* The supply the quorum is measured against is the sum of the powers.
SupplyIsPower == supply = SumFunction(power)

\* The votes as a whole: what they are, what they decided and what they are
\* measured against.
GovSound == GovTypeOK /\ TallyIsBallots /\ ExecutedWasDecided /\ SupplyIsPower

\* An outcome is final: no later vote, call of the guardians, cancellation or
\* change of settings touches a proposal that has one.
OutcomesStand ==
    [][\A p \in DOMAIN proposals :
          proposals[p].status \in {"Failed", "Executed", "GuardianExecuted", "Cancelled"} =>
              proposals'[p] = proposals[p] /\ ballots'[p] = ballots[p]]_govVars

\* "A delegator's own power drops to zero while a delegation is active. The
\* delegatee accumulates all received power on top of their own. Undelegating
\* restores the delegator's power immediately" (docs/governance-best-
\* practices.md): delegation moves power and neither makes nor loses any.
PowerConserved == SumFunction([v \in Voter |-> effective_power(v)]) = supply
=============================================================================
