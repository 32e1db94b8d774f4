SPECIFICATION SessionSpec
CONSTANTS
    Light = {red, blue}
    Accel = {flat, steep}
    MaxLevels = 2
    Faults = {"unheard", "nak", "link", "engine"}
    MaxEdits = 2
    MaxPresses = 1
SYMMETRY Symmetry
CHECK_DEADLOCK FALSE
INVARIANTS SessionTypeOK DirtyIsHonest LiveShows SavedEverywhere DiscardRestores GuardedQuit
PROPERTIES ButtonNeverDirties
