SPECIFICATION Spec
CONSTANTS
    Driver <- MCDriver
    Terminal <- MCTerminal
    EnoughLines = 46
    Palette <- MCPalette
    Hexes <- MCHexes
    MaxGroups = 10
    MaxEdits = 1
    MaxAway = 1
INVARIANTS FocusSelectable ShownInFull
PROPERTY LitOnly
CHECK_DEADLOCK FALSE
