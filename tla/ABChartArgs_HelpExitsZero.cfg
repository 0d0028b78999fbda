CONSTANTS
    Positionals <- MCPositionals
    BadFlags <- MCBadFlags
    MaxArgs = 4
    None = None
SPECIFICATION Spec
INVARIANT HelpExitsZero
CHECK_DEADLOCK FALSE
