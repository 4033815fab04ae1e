SPECIFICATION Spec
CONSTANTS
    p1 = p1
    p2 = p2
    Procs = {p1, p2}
    Nobody = Nobody
    Protocols = {TRUE, FALSE}
    Drafts <- MCDrafts
    PreparedAt = 1
    Deadline = 2
    FutureSkew = 1
    MaxAttempts = 3
    MaxClock = 3
    MaxCrashes = 2
    MaxRestarts = 1
SYMMETRY ProcSymmetry
INVARIANT TypeOK AttemptsInOrder SealsAgree
PROPERTY AuditTrailGrows
