CONSTANTS
    Positionals <- MCPositionals
    BadFlags <- MCBadFlags
    MaxArgs = 4
    None = None
    RunArgs <- MCRunArgs
    Docs <- MCDocs
    MaxRuns = 2
SPECIFICATION Spec
INVARIANTS TypeOK NoTraceBeforeInputsParsed ReportedChartsFresh SuccessWritesDeterminedCharts
PROPERTIES ImplementsChartOutput DiskWritesOnlyOutputDir
CHECK_DEADLOCK FALSE
