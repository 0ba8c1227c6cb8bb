SPECIFICATION FairSpec
CONSTANTS
    Runs = {r1, r2}
    Datasets = {demand, weather}
    NoDataset = NoDataset
    Hours <- TwoHours
    Windows <- WideAndNarrow
    ResultSets <- PassOrFail
    FixedClocks = {2}
    MaxNow = 7
    MaxOpen = 2
    Faults = {"crash", "error", "lostack"}
INVARIANTS
    TypeOK
    OutcomeHasEvidence
    ReportAgrees
PROPERTY
    RunsFinish
CHECK_DEADLOCK FALSE
