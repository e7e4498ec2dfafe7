SPECIFICATION FairSpec
CONSTANTS
    QueueSize = 2
    MaxFrames = 3
    Signals = {2, 15}
    NoCode = NoCode
PROPERTIES
    LogIsTrue
    OwnsCollector
    RunEnds
CHECK_DEADLOCK FALSE
