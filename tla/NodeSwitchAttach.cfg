SPECIFICATION FairSpec
CONSTANTS
    l = l
    r1 = r1
    r2 = r2
    Nodes = {r1}
    Local = l
    NULL = NULL
    SshAllowed = TRUE
    HealthModes <- FixedHealth
    ErrTexts <- AllTexts
    MaxParseFails = 2
    FailCap = 2
    StuckS = 0
    SilenceS = 1
    MaxSwitches = 0
PROPERTIES
    AttachExplained
CHECK_DEADLOCK FALSE
