------------------------- MODULE MCContractControls -------------------------
(***************************************************************************)
(* The contracts that decide who may do what: the administration of the    *)
(* main contract, the governance contract and the guarded pauses, on one   *)
(* ledger, for TLC.  As with the funds, they share the ledger's clock and  *)
(* nothing else, so one of them, inUse, is called while the others rest.   *)
(*                                                                         *)
(* The administration is used for a handover with one upgrade proposal,    *)
(* where the pause changes before there is one, and for a history of       *)
(* upgrades and rollbacks under one admin; in the first it is initialised  *)
(* again during a handover, in the second once, after an upgrade.  The     *)
(* governance contract for proposals under changing settings, with         *)
(* guardians, and for votes while powers and delegations change.           *)
(***************************************************************************)
EXTENDS ContractAdministration, GovernanceContract, GuardedPauses, FiniteSetsExt, TLC

VARIABLE inUse

controlVars == <<now, adminVars, govVars, guardianVars, inUse>>

\* Settings that differ in everything.
SomeConfigs == {
    [timelock |-> 0, period |-> 1, delay |-> 0, quorum |-> 5000, pass |-> 5100,
     deposit |-> 1, quadratic |-> FALSE, threshold |-> 2],
    [timelock |-> 1, period |-> 0, delay |-> 1, quorum |-> 1000, pass |-> 5000,
     deposit |-> 0, quadratic |-> TRUE, threshold |-> 1]}

ControlInit ==
    /\ ClockInit
    /\ AdminInit /\ GovInit /\ GuardianInit
    /\ inUse \in {"handover", "upgrades", "governance", "delegation", "guardians"}
    /\ inUse # "governance" => config.quadratic
    /\ inUse # "guardians" => threshold = Min(Thresholds)

Initialized == admin' # admin \/ counter' < counter

AdminStep ==
    /\ AdminNext
    /\ \/ /\ inUse = "handover" /\ Len(upgrades') <= 1
          /\ pause' # pause => upgrades = <<>>
          /\ Initialized => HandingOver /\ history = <<>>
       \/ /\ inUse = "upgrades" /\ pause' = pause /\ transfer' = transfer
          /\ Initialized => counter = Len(upgrades) /\ history # <<>>
          /\ counter' < Len(upgrades') => Len(upgrades') < MaxProposals
          /\ Cardinality(supers') <= 1
          /\ upgrades # <<>> => supers' = supers

MaxReceived == Max(Powers)   \* bound on what is delegated to one voter

GovStep ==
    /\ GovNext
    /\ \/ /\ inUse = "governance" /\ delegate' = delegate
          /\ proposals # <<>> => power' = power
       \/ /\ inUse = "delegation" /\ config' = config
          /\ guardians' = guardians /\ gapprovals' = gapprovals
          /\ \A p \in DOMAIN proposals' : ~proposals'[p].emergency
          /\ \A v \in Voter : received'[v] <= MaxReceived

ControlNext ==
    /\ inUse' = inUse
    /\ \/ AdminStep /\ UNCHANGED <<govVars, guardianVars>>
       \/ GovStep /\ UNCHANGED <<adminVars, guardianVars>>
       \/ inUse = "guardians" /\ GuardianNext /\ UNCHANGED <<adminVars, govVars>>
       \/ /\ Tick
          /\ inUse \in {"handover", "delegation"} => now < 2
          /\ inUse = "upgrades" => now < 1
          /\ UNCHANGED <<adminVars, govVars, guardianVars>>

\* Members, voters, guardians and upgrades' hashes are interchangeable.
Interchangeable ==
    Permutations(Account) \cup Permutations(Hash)
    \cup Permutations(Voter) \cup Permutations(Guardian)

ControlSpec == ControlInit /\ [][ControlNext]_controlVars
=============================================================================
