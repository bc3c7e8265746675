\* Two events, two producers, two slots, two admins, two restarts.  Both may
\* be left in processing, and then nothing is left to do: no deadlock check.
CONSTANTS
    Aggregate = {1}
    Producer = {p1, p2}
    Slot = {s1, s2}
    Admin = {adm1, adm2}
    MaxRetries = 3
    BatchSize = 1
    Retained = 1
    MaxEvents = 2
    MaxCrashes = 2
SPECIFICATION Spec
SYMMETRY Interchangeable
INVARIANTS
    TypeOK
    OneWorkerPerEvent
    SequenceGapless
CHECK_DEADLOCK FALSE
