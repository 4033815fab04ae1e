SPECIFICATION Spec
CONSTANTS
    w1 = w1
    w2 = w2
    t1 = t1
    Workers = {w1, w2}
    Tasks = {t1}
    Drifted = {w1, w2}
    MaxAttempts = 2
    LeaseSeconds = 2
    TimeoutSeconds = 3
    RetryDelay = 0
    HeartbeatInterval = 1
    MaxClock = 5
    MaxCrashes = 1
SYMMETRY WorkerSymmetry
INVARIANT TypeOK RunTaskAgree LeaseWithinDeadline AttemptsDisjoint
PROPERTY LiveLeaseNotTaken PublishedByHolder ImplementsLedger
