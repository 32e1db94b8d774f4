SPECIFICATION FairSpec
CONSTANTS
    Levels <- MCLevels
    MaxMisses = 3
    Faults = {"nap", "sleep", "off", "replug", "bt"}
    MaxFaults = 4
INVARIANT GaugeIsRecent
PROPERTIES LinkedIsGreeted LostIsShown
CHECK_DEADLOCK FALSE
