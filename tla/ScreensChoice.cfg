SPECIFICATION Spec
CONSTANTS
    Screens = {"picker"}
    Listings <- MCListings
    NoJob = 0
    MaxChanges = 2
    MaxPresses = 2
    NNodes = 12
    NoNode = 0
INVARIANT ChosenIsHighlighted
CHECK_DEADLOCK FALSE
