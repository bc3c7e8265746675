\* Two requests, three calls, two thresholds and two timeouts.
CONSTANTS
    Request = {r1, r2}
    Thresholds = {1, 2}
    Timeouts = {1, 2}
    DefaultThreshold = 2
    DefaultTimeout = 1
    MaxAge = 2
    MaxCalls = 3
SPECIFICATION FairSpec
INVARIANTS
    TypeOK
    OpenHasTimer
    TripsAreCounted
PROPERTIES
    OpenEnds
