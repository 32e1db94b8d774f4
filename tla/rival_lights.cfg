SPECIFICATION LightsSpec
CONSTANTS
    Command <- LightCommand
    NoCommand = NoCommand
    Attempts = 2
    MaxStrays = 1
    Faults = {"werr", "lost", "deaf", "stray"}
    Zone = {top, bottom}
    Color = {red, blue}
    Rainbow = Rainbow
    Dark = Dark
SYMMETRY Symmetry
INVARIANTS AckIsReliable AckedIsShown
CHECK_DEADLOCK FALSE
