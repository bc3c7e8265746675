\* The dispatcher waits for its own row lock; then nothing can happen any more.
CONSTANTS
    Aggregate = {1}
    Producer = {p1}
    Slot = {s1}
    Admin = {}
    MaxRetries = 2
    BatchSize = 1
    Retained = 1
    MaxEvents = 1
    MaxCrashes = 0
SPECIFICATION HealthySpec
PROPERTIES
    EventHandled
CHECK_DEADLOCK FALSE
