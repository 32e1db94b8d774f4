SPECIFICATION CommandFairSpec
CONSTANTS
    Command <- MCCommand
    NoCommand = NoCommand
    Attempts = 5
    MaxStrays = 2
    Faults = {"werr", "lost", "deaf", "stray", "late", "intr"}
PROPERTIES CommandEnds
CHECK_DEADLOCK FALSE
