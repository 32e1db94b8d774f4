CONSTANTS
    Chunk = 5
    Reports <- MCReports
    Settings <- MCSettings
    MaxReports = 4
    MaxQueue = 8
SPECIFICATION PumpSpec
INVARIANTS
    PumpTypeOK
    Framing
    NothingLost
CHECK_DEADLOCK FALSE
