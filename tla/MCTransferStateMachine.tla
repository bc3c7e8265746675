----------------------- MODULE MCTransferStateMachine -----------------------
(* Small instances of TransferStateMachine for TLC.                        *)
EXTENDS TransferStateMachine

CONSTANTS root, user, escrow, verifier, oracle, nobody

MCAddress == {root, user, escrow, verifier, oracle, nobody}
MCAdmins == {root}
MCInitiators == {user}
MCIntegrations == {[escrow |-> escrow, verifier |-> verifier, oracle |-> oracle]}
MCTwoIntegrations == MCIntegrations \cup
    {[escrow |-> nobody, verifier |-> verifier, oracle |-> oracle]}

\* A state can time out two units of ledger time after it was entered.
MCSeed == [s \in SeededStates |-> 1]
=============================================================================
