SPECIFICATION LiveSpec
CONSTANTS
    w1 = w1
    w2 = w2
    t1 = t1
    t2 = t2
    Workers = {w1, w2}
    Tasks = {t1}
    Drifted = {}
    MaxAttempts = 2
    LeaseSeconds = 2
    TimeoutSeconds = 2
    RetryDelay = 0
    HeartbeatInterval = 1
    MaxClock = 3
    MaxCrashes = 1
PROPERTY EveryTaskSettles
