CONSTANTS
    Positionals <- MCPositionals
    BadFlags <- MCBadFlags
    MaxArgs = 4
    None = None
SPECIFICATION Spec
INVARIANTS TypeOK ParseMatchesReference
PROPERTIES ParseTerminates
CHECK_DEADLOCK FALSE
