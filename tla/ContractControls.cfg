CONSTANTS
    MaxTime = 3
    Account = {a1, a2, a3}
    Hash = {h1, h2}
    PauseLock = 1
    UpgradeLock = 1
    HandoverLimit = 2
    MaxProposals = 4
    MaxMembers = 3
    Voter = {v1, v2}
    Guard = {g1, g2}
    Powers = {1, 4}
    Configs <- SomeConfigs
    MaxGovProposals = 1
    Guardian = {w1, w2}
    Place = {"bridge", "asset"}
    Thresholds = {1, 2}
    RecoveryDelay = 1
    MaxPauses = 2
    MaxApprovals = 2
SYMMETRY Interchangeable
SPECIFICATION ControlSpec
INVARIANTS
    AdminSound
    GovSound
    PausesSound
PROPERTIES
    UpgradeIsDecision
    UnpauseWaits
    OutcomesStand
    HeldWhilePaused
