SPECIFICATION CollectorFairSpec
CONSTANTS
    QueueSize = 2
    MaxFrames = 4
INVARIANTS
    FreshestSurvives
    SessionInOrder
PROPERTIES
    StoppedIsQuiet
    CollectorProgress
CHECK_DEADLOCK FALSE
