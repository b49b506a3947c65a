SPECIFICATION ReadSpec
CONSTANTS
    Runners = {r1}
    Nobody = Nobody
    HistoryPairs = 3
    BatchLimit = 2
    Targets <- MixedTargets
    Outcomes = {analyzed, failed}
    FailedOutcomes = {failed}
    Open = Open
    MaxRuns = 3
    MaxFailures = 1
    MaxCrashes = 1
    Queries <- TwoQueries
    Limit = 1
    NoListing = NoListing
    Blank = Blank
CHECK_DEADLOCK FALSE
INVARIANTS TablesAgree TargetExact ReadersSeeOneHistory
PROPERTIES ImplementsLedger RunEnds
