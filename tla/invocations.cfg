SPECIFICATION Spec
CONSTANTS
    Junk = Junk
    NoLine = NoLine
    Driver <- MCDriver
    CommandLine <- MCLine
    Texts <- MCTexts
    Faults = {"link", "disk", "crash", "editor"}
    MaxRuns = 2
    MaxEdits = 1
    MaxFaults = 1
INVARIANTS InvTypeOK SavedIsLoaded PushedIsShown ExitIsHonest SavedSurvives
CHECK_DEADLOCK FALSE
