SPECIFICATION MCSpec
CONSTANTS
    Inputs = {"c1", "c2", "c3", "a1", "m1", "u2"}
    Anchor <- MCAnchor
    Mode <- MCMode
    Responses = {"a1", "u2"}
    Unready = {"u2"}
    Drafts = {"good1", "good2", "notready", "broken"}
    NotReady = {"notready"}
    Malformed = {"broken"}
    Operators = {o1, o2}
    ShadowAgents = {"quant"}
    Views = {"macro"}
    Decisions = {"d1", "w1"}
    Horizon <- MCHorizon
    Week = 1
    Nothing = Nothing
    LastDay = 3
    RequiredDates = 2
    RequiredApprovals = 1
    Requests = {r1, r2, r3}
    Keys = {k1, k2}
    AsOfs = {t1, t2}
    NoRequest = NoRequest
    SealInputs = {"c1", "a1", "u2"}
    LedgerInputs = {"c1", "c2", "c3", "m1"}
    CadenceInputs = {"c1", "c2", "c3", "m1", "u2"}
    MaxKills = 1
    MaxEvents = 2
    MaxRounds = 3
SYMMETRY MCSymmetry
CHECK_DEADLOCK FALSE
INVARIANT ReviewStaysOpen
