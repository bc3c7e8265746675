SPECIFICATION BackendSpec
CONSTANTS
    MaxReconnects = 3
    MaxEvents = 4
    Delivery = {d1, d2}
    Attempts = 3
    MaxStalled = 1
    Alert = {a1, a2, a3}
    Priority = {low, high}
    Bucket = {b1}
    Closer = {c1, c2}
    MaxSummaries = 1
INVARIANTS
    StreamSound
    RecordIsTrue
    WindowsSound
PROPERTIES
    DeadIsReported
    JobsEnd
CHECK_DEADLOCK FALSE
