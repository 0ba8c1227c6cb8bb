SPECIFICATION Spec
CONSTANTS
    N = 4
    Plan <- RetrainPlan
    i1 = i1
    i2 = i2
    Issues = {i1, i2}
    Versions = {v1}
    Files = {f1}
    m1 = m1
    m2 = m2
    Fits = {m1, m2}
    Partial = Partial
    Absent = Absent
    Windows = {w1}
    Null = Null
    demand = demand
    weather = weather
    Required <- TwoDatasets
    MaxOpen = 1
    Faults = {}
INVARIANT
    RejectedNeverUsed
CHECK_DEADLOCK FALSE
