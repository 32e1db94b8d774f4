SPECIFICATION Spec
CONSTANTS
    Profile = {1, 2}
    MaxGroups = 2
    Pair <- MCPair
    Options <- MCOptions
    Rates = {125, 1000}
    Color = {"green", "black"}
    DefColor = "green"
    Black = "black"
    Factory <- MCFactory
    FirstHeld <- MCFirstHeld
    Faults = {"read", "write"}
    MaxActs = 3
    MaxPresses = 1
    MaxFaults = 1
INVARIANTS KbdTypeOK NextSessionShows ScreenNamesProfile
PROPERTY ImplementsStore
CHECK_DEADLOCK FALSE
