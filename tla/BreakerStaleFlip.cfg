\* A stale sweep makes a closed breaker half-open.
CONSTANTS
    Request = {r1, r2}
    Thresholds = {1, 2}
    Timeouts = {1}
    DefaultThreshold = 2
    DefaultTimeout = 1
    MaxAge = 1
    MaxCalls = 4
SPECIFICATION Spec
SYMMETRY Interchangeable
PROPERTIES
    HalfOpenFromOpen
