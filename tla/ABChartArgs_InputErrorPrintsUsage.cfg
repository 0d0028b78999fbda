CONSTANTS
    Positionals <- MCPositionals
    BadFlags <- MCBadFlags
    MaxArgs = 4
    None = None
SPECIFICATION Spec
INVARIANT InputErrorPrintsUsage
CHECK_DEADLOCK FALSE
