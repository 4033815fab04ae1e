SPECIFICATION MCSpec
CONSTANTS
    Jobs = {"a", "d"}
    Session <- MCSession
    Texts = {"rise", "fall", "tie", "wiki", "model"}
    Content <- MCContent
    Moves = {1, 2}
    Threshold = 1
    Operators = {o1, o2}
    Absent = Absent
    LastTime = 6
    Slots = {1, 3, 11, 12}
    Strict = {1, 3}
    Legacy = {12}
    Posters = {p1, p2}
    NoBrief = NoBrief
    Pages = {g1, g2, g3}
    RowFirst = {g3}
    Nothing = Nothing
    Drafters = {c1, c2}
    Streams <- MCStreams
    Routed = TRUE
    Cutoff = 2
    LastInstant = 2
    NoDraft = NoDraft
    MaxRounds = 2
    MaxKills = 1
SYMMETRY MCSymmetry
CHECK_DEADLOCK FALSE
INVARIANT TypeOK ForecastsStand BriefsHold RestoredNamesFiles ProvenanceTrue
