SPECIFICATION Spec
CONSTANTS
    Screens = {"picker", "watch", "prompt"}
    Listings <- MCListings
    NoJob = 0
    MaxChanges = 2
    MaxPresses = 2
    NNodes = 12
    NoNode = 0
INVARIANTS
    ListIsTrue
    BannerIsTrue
PROPERTIES
    TimerNeverYanks
    EndIsTrue
    PlaceholderEnds
    ForeignEndIsSaid
CHECK_DEADLOCK FALSE
