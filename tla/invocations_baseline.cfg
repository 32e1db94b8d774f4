SPECIFICATION Spec
CONSTANTS
    Junk = Junk
    NoLine = NoLine
    Driver <- MCDriver
    CommandLine <- MCLine
    Texts <- MCTexts
    Faults = {}
    MaxRuns = 1
    MaxEdits = 0
    MaxFaults = 0
INVARIANT BaselineUpdated
CHECK_DEADLOCK FALSE
