SPECIFICATION Spec
CONSTANTS
    Hour = 2
    None = None
    SpringForward = 110
    FallBack = 252
    Starts <- MCStarts
    Dates <- MCDates
    DemandInputs <- MCDemandInputs
    Observations <- MCObservations
    IssueTables <- MCIssueTables
    Snapshots <- MCSnapshots
    Backtests <- MCBacktests
    Errors <- MCErrors
    Drifts <- MCDrifts
    Gates <- MCGates
    Outputs <- MCOutputs
    Scenarios <- MCScenarios
    AlertInputs <- MCAlertInputs
CHECK_DEADLOCK FALSE
INVARIANT BuiltRowsUsable
