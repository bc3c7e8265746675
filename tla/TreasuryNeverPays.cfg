CONSTANTS
    MaxTime = 1
    Person = {p1, p2}
    Large = {TRUE, FALSE}
    TimeDelay = 1
    Emergency = 2
    MaxTransactions = 1
SPECIFICATION TreasurySpec
PROPERTIES ApprovedIsExecuted
CHECK_DEADLOCK FALSE
