SPECIFICATION FairSpec
CONSTANTS
    l = l
    r1 = r1
    r2 = r2
    Nodes = {l, r1}
    Local = l
    NULL = NULL
    SshAllowed = TRUE
    HealthModes <- FixedHealth
    ErrTexts <- FewTexts
    MaxParseFails = 2
    FailCap = 1
    StuckS = 0
    SilenceS = 1
    MaxSwitches = 2
PROPERTIES
    NeverLeftDimmed
    ReachableNodeShown
    StreamsEnd
CHECK_DEADLOCK FALSE
