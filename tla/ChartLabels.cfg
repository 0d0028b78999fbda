CONSTANTS
    CasData <- MCCasData
    MemData <- MCMemData
INIT Init
NEXT Next
INVARIANTS TypeOK CasLabelsShowChange ColourAgreesWithReading
CHECK_DEADLOCK FALSE
