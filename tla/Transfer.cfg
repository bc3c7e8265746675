\* One transfer, every caller, every path of up to six transitions, while the
\* admin changes the integration contracts and a timeout.
CONSTANTS
    root = root
    user = user
    escrow = escrow
    verifier = verifier
    oracle = oracle
    nobody = nobody
    NoAddress = NoAddress
    Address <- MCAddress
    AdminChoices <- MCAdmins
    Initiators <- MCInitiators
    Integrations <- MCTwoIntegrations
    TimeoutChoices = {2}
    TunableStates = {"EscrowPending"}
    SeedTimeout <- MCSeed
    DefaultTimeout = 1
    MaxDeadline = 1
    MaxHistory = 6
    MaxTransfers = 1
SPECIFICATION FairSpec
INVARIANTS
    TypeOK
    HistoryIsThePath
    SettlesOnce
    ReleaseIsVetted
PROPERTIES
    LifecycleSpec
    RevivedOnlyByAdmin
    LockedByEscrow
    InFlightEnds
