CONSTANTS
    o1 = o1
    o2 = o2
    j1 = j1
    j2 = j2
    d1 = d1
    d2 = d2
    m1 = m1
    m2 = m2
    Operators = {o1, o2}
    Manifests = {m1, m2}
    Jobs = {j1, j2}
    Drafts = {d1, d2}
    Nothing = Nothing
    MaxCrashes = 1
SYMMETRY StoreSymmetry
SPECIFICATION MCSpec
INVARIANT TypeOK ChainTrusted AcknowledgedIsRecorded ResumableWhenQuiet
