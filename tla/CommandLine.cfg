SPECIFICATION Spec
CONSTANTS
    Questions = {"hop", "job", "cgroup", "fit"}
    MaxJobMoves = 3
    Nodes = {1, 2}
    Requests <- MCRequests
    Clusters <- MCClusters
    Loads <- MCLoads
    Partitions <- MCPartitions
INVARIANTS
    OptOutHolds
    GuardHolds
    AbsenceIsTrue
    OnePayload
    GroupIsOwn
    FoundIfThere
    PermanentIsHardware
PROPERTIES
    RoomIsNotHidden
CHECK_DEADLOCK FALSE
