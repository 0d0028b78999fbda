CONSTANTS
    Positionals <- MCPositionals
    BadFlags <- MCBadFlags
    MaxArgs = 4
    None = None
    RunArgs <- MCRunArgs
    Docs <- MCDocs
    MaxRuns = 2
SPECIFICATION Spec
INVARIANT ThreeChartsOnSuccess
CHECK_DEADLOCK FALSE
