SPECIFICATION MCSpec
CONSTANTS
    Cases = {"x1", "x2"}
    Reviewers = {r1, r2}
    EvalDrafts = {"good", "good2", "hard", "few", "metric", "shared"}
    Findings <- MCFindings
    Shared = {"shared"}
    EvalTargets = {"a", "b"}
    Gated = {"a"}
    MinEpisodes = 2
    Finalizers = {f1, f2}
    None = None
    MaxEvalClock = 2
    Workers = {w1, w2}
    MaxEvalAttempts = 2
    Recorders = {p1, p2}
    MaxTraces = 2
    Scribes = {s1, s2}
    MaxJournalFaults = 2
    MaxKills = 1
    MaxCaseEvents = 6
SYMMETRY MCSymmetry
CHECK_DEADLOCK FALSE
INVARIANT CasesHold ReportsHold ExperimentFollowsTask
PROPERTY SealedTraceIsFinal
