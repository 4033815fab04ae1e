SPECIFICATION MCSpec
CONSTANTS
    Lessons = {l1, l3}
    Checklists = {l3}
    Operators = {o1, o2}
    Dates = {1, 2, 3}
    GoodDates = {1, 2}
    Nothing = Nothing
    MinDates = 2
    DueDates = 1
    Month = 2
    Backdating = FALSE
    MaxClock = 5
    RaceClock = 3
    op1 = op1
    op2 = op2
    ra = ra
    rb = rb
    rc = rc
    rd = rd
    Undecided = Undecided
    Opinions = {op1, op2}
    OpinionDay <- OpinionDays
    CurrentIdentity = {op1, op2}
    SignCorrect <- Signs
    Reflections = {ra, rb, rc, rd}
    ReflectionDay <- ReflectionDays
    Lineage <- ReflectionDays
    Successor <- Successors
    Place <- Places
    Finding <- Verdicts
    RequiredDates = 2
    RequiredReviews = 2
    Predating = FALSE
    MaxEntries = 7
    MaxDays = 3
    MaxSets = 2
    MaxSeals = 1
SYMMETRY LessonSymmetry
CHECK_DEADLOCK FALSE
INVARIANT AuditStands EvidenceSealed
PROPERTY FreshEvidence
