CONSTANTS
    MaxTime = 4
    Approver = {a1, a2}
    Amounts = {5}
    Parts = {2, 5}
    FeeRates = {0, 2000}
    LockSecs = {1}
    MaxLock = 3
    MaxEscrows = 2
    User = {u1, u2}
    Grants = {{}, {"initiate", "approve"}, {"approve", "execute", "cancel"}}
    RecoveryAmounts = {1, 2}
    Timelocks = {1}
    Funds = 2
    MaxRecoveries = 2
    Staker = {s1, s2}
    Signer = {c1, c2}
    Stakes = {1, 2}
    Premiums = {1}
    SlashRates = {10000}
    CoverageCaps = {8500}
    Delay = 1
    Scale = 4
    MaxStakes = 2
    MaxClaims = 2
    MaxWithdrawals = 1
    Sender = {x1, x2}
    Values = {1, 2}
    Length <- Lengths
    GlobalValues <- TwoGlobals
    LimitSets <- TwoLimits
    RiskScores = {0, 4500}
    Reductions = {5000}
    Cooldowns = {1, 2}
    Tenure = 4
    Bonus = 5000
    MaxBonus = 5000
    MaxDays = 2
    MaxEvents = 4
    Capacity = 2
    DailyCapacity = 2
    DaySecs = 2
    Prices = {1, 2}
    Volumes = {1}
    MaxSnapshots = 4
SYMMETRY Interchangeable
SPECIFICATION FundSpec
INVARIANTS
    EscrowSound
    RecoverySound
    PoolSound
    LimiterSound
    HistorySound
PROPERTIES
    VotesStand
    RecoveryIsDecision
    ClaimIsDecision
