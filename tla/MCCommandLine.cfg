\* Every command, with its import, its session and two Ctrl-C.
CONSTANTS
    MAX_DIAGNOSTICS = 2
    MaxReports      = 3
    MaxEntries      = 2
    MaxInterrupts   = 2
    Commands       <- AllModes
SPECIFICATION CommandSpec
INVARIANTS
    PublishedWhole
    FirstRefusalKept
    FailureReportComplete
    ExitTellsOutcome
    ReadyFirst
    NothingRunsOn
    RunCleansUp
    StoreClosedAtExit
PROPERTY CommandEnds
CHECK_DEADLOCK FALSE
