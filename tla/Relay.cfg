\* Three messages of two priorities and two times to live.
CONSTANTS
    Sender = {alice}
    Operator = {op1}
    Chain = {Ethereum}
    InitialChains = {Ethereum}
    Priority = {0, 3}
    DefaultTtl = 2
    TtlOverrides = {0, 1}
    CleanupSizes = {1, 2}
    MaxMessages = 3
    MaxBatch = 1
SPECIFICATION FairSpec
INVARIANTS
    TypeOK
    QueueSound
    DeliveriesAgree
PROPERTIES
    ClosedForGood
    QueueDrains
