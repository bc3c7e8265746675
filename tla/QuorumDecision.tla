--------------------------- MODULE QuorumDecision ---------------------------
(***************************************************************************)
(* What a contract that puts payments to a vote promises of each: it is    *)
(* approved when enough different addresses have voted for it, it is       *)
(* carried out at most once and only after that, and when it has been      *)
(* carried out or called off it stays so.                                  *)
(***************************************************************************)
EXTENDS Naturals, FiniteSets

CONSTANTS Item, Voter

VARIABLES
    stage,      \* of each item; "none" until it is put to the vote
    votes,      \* who has voted for each item
    need        \* how many votes a vote that is cast now has to reach

Rest(i) == stage'[i] = stage[i] /\ votes'[i] = votes[i]

Propose(i) ==
    /\ stage[i] = "none" /\ stage'[i] \in {"open", "off"}
    /\ votes'[i] = votes[i]

\* The vote may be that of the proposer, cast with the proposal.
Vote(i) ==
    /\ stage[i] \in {"none", "open", "approved"}
    /\ \E v \in Voter \ votes[i] : votes'[i] = votes[i] \cup {v}
    /\ stage'[i] = IF stage[i] = "approved" \/ Cardinality(votes'[i]) >= need'
                   THEN "approved" ELSE "open"

CarryOut(i) ==
    /\ stage[i] = "approved" /\ stage'[i] = "done"
    /\ votes'[i] = votes[i]

CallOff(i) ==
    /\ stage[i] \in {"open", "approved"} /\ stage'[i] = "off"
    /\ votes'[i] = votes[i]

Decide(i) == Rest(i) \/ Propose(i) \/ Vote(i) \/ CarryOut(i) \/ CallOff(i)

DecisionInit ==
    /\ stage = [i \in Item |-> "none"]
    /\ votes = [i \in Item |-> {}]

DecisionSpec == DecisionInit /\ [][\A i \in Item : Decide(i)]_<<stage, votes>>
=============================================================================
