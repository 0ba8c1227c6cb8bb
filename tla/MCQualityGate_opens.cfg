SPECIFICATION Spec
CONSTANTS
    Runs = {r1, r2}
    Datasets = {demand}
    NoDataset = NoDataset
    Hours <- TwoHours
    Windows <- WideAndNarrow
    ResultSets <- PassOrFail
    FixedClocks = {}
    MaxNow = 7
    MaxOpen = 1
    Faults = {"error"}
PROPERTY
    OpensOnlyOnSuccess
CHECK_DEADLOCK FALSE
