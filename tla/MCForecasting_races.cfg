SPECIFICATION Spec
CONSTANTS
    N = 5
    Plan <- MixedPlan
    i1 = i1
    i2 = i2
    Issues = {i1, i2}
    Versions = {v1}
    Files = {f1}
    m1 = m1
    m2 = m2
    Fits = {m1, m2}
    Partial = Partial
    Absent = Absent
    Windows = {w1}
    Null = Null
    demand = demand
    weather = weather
    Required <- TwoDatasets
    MaxOpen = 2
    Faults = {"crash", "disk"}
SYMMETRY FitSymmetry
INVARIANTS
    TypeOK
    UniqueRows
    IssueFollowsRuns
    ForecastsTrace
    UndisturbedArtifacts
    NotAllWait
PROPERTIES
    VerdictSeen
    ImplementsLineage
CHECK_DEADLOCK FALSE
